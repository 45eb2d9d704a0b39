----------------------------- MODULE DeskProofs -----------------------------
(***************************************************************************)
(* The five small services around the workbench, for every number of their *)
(* attempts, records, grants, notices and processes: authority is consumed on*)
(* what the person saw and once (Decisions); the gap history tells the truth*)
(* about the verification records (GapHistory); a grant that is over stays *)
(* over and its number is its own (Grants); a banner is shown for a notice the*)
(* person wants (Notices); one daemon serves the socket (Endpoint).        *)
(***************************************************************************)
EXTENDS Decisions, GapHistory, Grants, Notices, Endpoint,
        FiniteSetTheorems, SequenceTheorems, WellFoundedInduction, TLAPS

\* A set of numbers that is not empty has a least one.
LEMMA LeastOf ==
  ASSUME NEW T, T \subseteq Nat, T # {}
  PROVE  \E x \in T : \A y \in T : x <= y
  <1> DEFINE R == OpToRel(<, Nat)
  <1>1. IsWellFoundedOn(R, Nat)
    BY NatLessThanWellFounded
  <1>2. \A x, y \in Nat : <<y, x>> \in R <=> y < x
    BY DEF OpToRel
  <1> HIDE DEF R
  <1>3. PICK x \in T : \A y \in T : ~(<<y, x>> \in R)
    BY <1>1, WFMin
  <1>4. ASSUME NEW y \in T PROVE x <= y
    <2>1. ~(y < x)
      BY <1>2, <1>3
    <2>2. x \in Nat /\ y \in Nat
      OBVIOUS
    <2>3. QED
      BY <2>1, <2>2
  <1>5. QED
    BY <1>3, <1>4

\* A set of numbers with a bound has a largest one, and Max is it.
LEMMA MaxOf ==
  ASSUME NEW S, S \subseteq Nat, S # {}, NEW b \in Nat, \A x \in S : x <= b
  PROVE  Max(S) \in S /\ \A x \in S : x <= Max(S)
  <1> DEFINE U == {n \in Nat : \A x \in S : x <= n}
  <1>1. PICK m \in U : \A n \in U : m <= n
    BY LeastOf
  <1>2. m \in S
    <2> SUFFICES ASSUME m \notin S PROVE FALSE
      OBVIOUS
    <2>1. m # 0
      <3>1. PICK x \in S : x \in Nat /\ x <= m
        BY <1>1
      <3>2. QED
        BY <3>1
    <2>2. m - 1 \in U
      BY <1>1, <2>1
    <2>3. QED
      BY <1>1, <2>2
  <1>3. \E x \in S : \A y \in S : x >= y
    BY <1>1, <1>2
  <1>4. QED
    BY <1>3 DEF Max

-----------------------------------------------------------------------------
\* Decisions

DecisionRow ==
    [state : DecisionStates, run : Attempts, kind : AllKinds, identity : Identities,
     expires : Nat, verdict : AllVerdicts, seen : View, sent : View]

\* The view v is on the revisions the attempt a was prepared on.
Prepared(v, a) == v.task = attempt[a].task /\ v.repo = attempt[a].repo

\* A raised decision names an attempt that has begun, so its revisions stay; a
\* host's names one that has ended.
Begun == \A d \in DecisionIds : decision[d].state # "none" =>
    /\ attempt[decision[d].run].state # "waiting"
    /\ Host(decision[d].kind) => attempt[decision[d].run].state = "ended"

\* Nothing is consumed before it is decided, and a live decision was taken on
\* the revisions of its attempt.
Snapshot == \A d \in DecisionIds :
    /\ decision[d].state \in {"none", "pending", "decided"} => decision[d].sent = NoView
    /\ decision[d].state = "decided" /\ ~Host(decision[d].kind) =>
         Prepared(decision[d].seen, decision[d].run)

\* work_decisions_provider_request
UniqueIdentity == \A d, e \in DecisionIds :
    /\ decision[d].state # "none" /\ decision[e].state # "none"
    /\ decision[d].run = decision[e].run
    /\ decision[d].identity = decision[e].identity
    => d = e

Key(d) == <<decision[d].run, decision[d].identity>>

\* A reply has a decision behind it that is past its claim.
RepliesSpent == \A x \in Attempts \X Identities :
    replies[x] # 0 =>
        \E d \in DecisionIds : /\ Key(d) = x
                               /\ decision[d].state \in {"dispatching", "resolved", "cancelled"}

DecisionInv ==
    /\ DecisionTypeOK
    /\ Begun
    /\ Snapshot
    /\ ConsentHonoured
    /\ UniqueIdentity
    /\ RepliesSpent
    /\ AnsweredOnce

-----------------------------------------------------------------------------
LEMMA IdentityTyped ==
    ASSUME NEW kind \in AllKinds, NEW k \in Callbacks
    PROVE  Identity(kind, k) \in Identities
BY DEF Identity, Identities, Host, HostKinds, AllKinds

LEMMA ChoicesExist == AnyRun \in Attempts /\ AnyId \in Identities
<1>1. PICK k \in Callbacks : TRUE
  BY DecisionConstants
<1>2. <<"provider", k>> \in Identities
  BY <1>1 DEF Identities
<1>3. QED
  BY <1>2, DecisionConstants DEF AnyRun, AnyId

LEMMA NowTyped ==
    ASSUME DecisionTypeOK, NEW d \in DecisionIds
    PROVE  Now(decision[d].run) \in View
<1>1. /\ board.task \in Nat /\ board.repo \in Nat /\ today \in Nat
      /\ attempt[decision[d].run].state \in RunStates
  BY DEF DecisionTypeOK
<1>2. QED
  BY <1>1 DEF Now, View

LEMMA InitHolds == DecisionInit => DecisionInv
<1> SUFFICES ASSUME DecisionInit PROVE DecisionInv
  OBVIOUS
<1> USE DEF DecisionInit
<1>1. DecisionTypeOK
  BY ChoicesExist DEF DecisionTypeOK, DecisionStates, RunStates, AllKinds, AllVerdicts, View, NoView
<1>2. Begun /\ Snapshot /\ ConsentHonoured /\ UniqueIdentity
  BY DEF Begun, Snapshot, ConsentHonoured, UniqueIdentity
<1>3. RepliesSpent /\ AnsweredOnce
  BY DEF RepliesSpent, AnsweredOnce
<1>4. QED
  BY <1>1, <1>2, <1>3 DEF DecisionInv

-----------------------------------------------------------------------------
LEMMA CreateKeeps ==
    ASSUME DecisionInv, NEW d \in DecisionIds, NEW a \in Attempts, NEW kind \in Kinds,
           NEW k \in Callbacks, NEW expires \in Nat, CreateDecision(d, a, kind, k, expires)
    PROVE  DecisionInv'
<1> USE DEF DecisionInv, CreateDecision
<1>0. /\ kind \in AllKinds
      /\ Identity(kind, k) \in Identities
      /\ decision \in [DecisionIds -> DecisionRow]
      /\ decision[d].state = "none"
  BY DecisionConstants, IdentityTyped DEF DecisionTypeOK, DecisionRow, NoDecision
<1>1. /\ decision'[d] = [state |-> "pending", run |-> a, kind |-> kind,
                         identity |-> Identity(kind, k), expires |-> expires,
                         verdict |-> "none", seen |-> NoView, sent |-> NoView]
      /\ \A e \in DecisionIds \ {d} : decision'[e] = decision[e]
      /\ decision' \in [DecisionIds -> DecisionRow]
  BY <1>0 DEF DecisionRow, DecisionStates, RunStates, AllVerdicts, View, NoView
<1>2. DecisionTypeOK'
  BY <1>0, <1>1 DEF DecisionTypeOK, DecisionRow
<1>3. Begun'
  BY <1>1 DEF Begun, Raisable
<1>4. Snapshot' /\ ConsentHonoured'
  BY <1>1 DEF Snapshot, ConsentHonoured, Prepared
<1>5. UniqueIdentity'
  BY <1>0, <1>1 DEF UniqueIdentity, NewIdentity, Raised, NoDecision
<1>6. RepliesSpent' /\ AnsweredOnce'
  BY <1>0, <1>1 DEF RepliesSpent, AnsweredOnce, Key
<1>7. QED
  BY <1>2, <1>3, <1>4, <1>5, <1>6

LEMMA DecideKeeps ==
    ASSUME DecisionInv, NEW d \in DecisionIds, NEW v \in AllVerdicts, Decide(d, v)
    PROVE  DecisionInv'
<1> USE DEF DecisionInv, Decide
<1>0. /\ decision \in [DecisionIds -> DecisionRow]
      /\ board \in [task : Nat, repo : Nat, deleted : BOOLEAN]
  BY DEF DecisionTypeOK, DecisionRow
<1> DEFINE now == Now(decision[d].run)
<1> DEFINE row == [decision[d] EXCEPT !.state = "decided", !.verdict = v, !.seen = now]
<1>n. now \in View /\ decision[d] \in DecisionRow
  BY <1>0, NowTyped
<1> HIDE DEF now
<1>a. row \in DecisionRow
  BY <1>n DEF DecisionRow, DecisionStates
<1>b. decision' = [decision EXCEPT ![d] = row]
  BY <1>0 DEF now
<1> HIDE DEF row
<1>c. /\ decision'[d] = row
      /\ \A e \in DecisionIds \ {d} : decision'[e] = decision[e]
      /\ decision' \in [DecisionIds -> DecisionRow]
  BY <1>0, <1>a, <1>b
<1>1. /\ decision'[d] = [decision[d] EXCEPT !.state = "decided", !.verdict = v, !.seen = now]
      /\ \A e \in DecisionIds \ {d} : decision'[e] = decision[e]
      /\ decision' \in [DecisionIds -> DecisionRow]
  BY <1>c DEF row
<1>2. DecisionTypeOK'
  BY <1>0, <1>1 DEF DecisionTypeOK, DecisionRow
<1>3. Begun' /\ UniqueIdentity'
  BY <1>0, <1>1 DEF Begun, UniqueIdentity, DecisionRow
<1>4. Snapshot' /\ ConsentHonoured'
  <2>1. decision[d].sent = NoView /\ (~Host(decision[d].kind) => Prepared(now, decision[d].run))
    BY <1>0 DEF Snapshot, FreshRow, Fresh, Prepared, now, Now
  <2>2. /\ decision'[d].run = decision[d].run /\ decision'[d].kind = decision[d].kind
        /\ decision'[d].seen = now /\ decision'[d].sent = decision[d].sent
        /\ decision'[d].state = "decided"
    BY <1>n, <1>1 DEF DecisionRow
  <2>3. QED
    BY <1>1, <2>1, <2>2 DEF Snapshot, ConsentHonoured, Prepared
<1>5. RepliesSpent' /\ AnsweredOnce'
  BY <1>0, <1>1 DEF RepliesSpent, AnsweredOnce, Key, DecisionRow
<1>6. QED
  BY <1>2, <1>3, <1>4, <1>5

LEMMA ClaimKeeps ==
    ASSUME DecisionInv, NEW d \in DecisionIds, NEW heard \in BOOLEAN,
           ClaimDecision(d, heard)
    PROVE  DecisionInv'
<1> USE DEF DecisionInv, ClaimDecision
<1> DEFINE now == Now(decision[d].run)
<1> DEFINE row == [decision[d] EXCEPT !.state = "dispatching", !.sent = now]
<1>0. /\ decision \in [DecisionIds -> DecisionRow]
      /\ board \in [task : Nat, repo : Nat, deleted : BOOLEAN]
      /\ replies \in [Attempts \X Identities -> Nat]
      /\ decision[d].state = "decided"
  BY DEF DecisionTypeOK, DecisionRow, ClaimableDecision
<1>n. now \in View /\ decision[d] \in DecisionRow /\ Key(d) \in Attempts \X Identities
  BY <1>0, NowTyped DEF Key, DecisionRow
<1> HIDE DEF now
<1>a. row \in DecisionRow
  BY <1>n DEF DecisionRow, DecisionStates
<1>b. decision' = [decision EXCEPT ![d] = row]
  BY <1>0 DEF now
<1> HIDE DEF row
<1>c. /\ decision'[d] = row
      /\ \A e \in DecisionIds \ {d} : decision'[e] = decision[e]
      /\ decision' \in [DecisionIds -> DecisionRow]
  BY <1>0, <1>a, <1>b
<1>1. /\ decision'[d] = [decision[d] EXCEPT !.state = "dispatching", !.sent = now]
      /\ \A e \in DecisionIds \ {d} : decision'[e] = decision[e]
      /\ decision' \in [DecisionIds -> DecisionRow]
  BY <1>c DEF row
\* No reply yet: the decision that stands behind one would be this one.
<1>2. replies[Key(d)] = 0
  BY <1>0, <1>n DEF RepliesSpent, UniqueIdentity, Key
<1>3. /\ replies' \in [Attempts \X Identities -> Nat]
      /\ \A x \in Attempts \X Identities : x # Key(d) => replies'[x] = replies[x]
      /\ replies'[Key(d)] <= 1
  <2>1. CASE heard
    <3>1. replies' = [replies EXCEPT ![Key(d)] = @ + 1]
      BY <2>1 DEF Key
    <3>2. QED
      BY <3>1, <1>0, <1>n, <1>2
  <2>2. CASE ~heard
    BY <2>2, <1>0, <1>n, <1>2
  <2>3. QED
    BY <2>1, <2>2
<1>4. DecisionTypeOK'
  BY <1>0, <1>1, <1>3 DEF DecisionTypeOK, DecisionRow
<1>5. Begun' /\ UniqueIdentity'
  BY <1>0, <1>1 DEF Begun, UniqueIdentity, DecisionRow
<1>6. Snapshot'
  BY <1>0, <1>1 DEF Snapshot, DecisionRow, Prepared
<1>7. ConsentHonoured'
  <2>1. /\ decision[d].verdict \in Verdicts[decision[d].kind]
        /\ Host(decision[d].kind) => /\ decision[d].kind = "merge_unreviewed"
                                    /\ decision[d].verdict = "allow_once"
                                    /\ now.run = "ended"
        /\ ~Host(decision[d].kind) => /\ Prepared(now, decision[d].run)
                                     /\ Prepared(decision[d].seen, decision[d].run)
                                     /\ now.run = "running"
        /\ now.at < decision[d].expires
    BY <1>0 DEF DecisionTypeOK, DecisionRow, Begun, Snapshot, ClaimableDecision, FreshRow, Fresh,
                Prepared, now, Now, Host, HostKinds
  <2>2. /\ decision'[d].verdict = decision[d].verdict /\ decision'[d].kind = decision[d].kind
        /\ decision'[d].run = decision[d].run /\ decision'[d].seen = decision[d].seen
        /\ decision'[d].sent = now /\ decision'[d].expires = decision[d].expires
    BY <1>n, <1>1 DEF DecisionRow
  <2>3. QED
    BY <2>1, <2>2, <1>1 DEF ConsentHonoured, Prepared
<1>8. RepliesSpent' /\ AnsweredOnce'
  <2>1. Key(d)' = Key(d) /\ decision'[d].state = "dispatching"
    BY <1>n, <1>1 DEF Key, DecisionRow
  <2>2. \A e \in DecisionIds \ {d} : Key(e)' = Key(e)
    BY <1>1 DEF Key
  <2>3. QED
    BY <2>1, <2>2, <1>0, <1>1, <1>3 DEF RepliesSpent, AnsweredOnce
<1>9. QED
  BY <1>4, <1>5, <1>6, <1>7, <1>8

LEMMA ResolveKeeps ==
    ASSUME DecisionInv, NEW d \in DecisionIds, NEW state \in DecisionStates,
           ResolveDecision(d, state)
    PROVE  DecisionInv'
<1> USE DEF DecisionInv, ResolveDecision
<1>0. /\ decision \in [DecisionIds -> DecisionRow]
      /\ state \in {"resolved", "cancelled"}
      /\ decision[d].state \in Unresolved
  BY DEF DecisionTypeOK, DecisionRow
<1>1. /\ decision'[d] = [decision[d] EXCEPT !.state = state]
      /\ \A e \in DecisionIds \ {d} : decision'[e] = decision[e]
      /\ decision' \in [DecisionIds -> DecisionRow]
  BY <1>0 DEF DecisionRow
<1>2. DecisionTypeOK'
  BY <1>0, <1>1 DEF DecisionTypeOK, DecisionRow
<1>3. Begun' /\ UniqueIdentity'
  BY <1>0, <1>1 DEF Begun, UniqueIdentity, DecisionRow, Unresolved
<1>4. Snapshot' /\ ConsentHonoured'
  BY <1>0, <1>1 DEF Snapshot, ConsentHonoured, DecisionRow, Prepared
<1>5. RepliesSpent' /\ AnsweredOnce'
  BY <1>0, <1>1 DEF RepliesSpent, AnsweredOnce, Key, DecisionRow
<1>6. QED
  BY <1>2, <1>3, <1>4, <1>5

\* The attempt's revisions are fixed when it begins to run, before any decision.
LEMMA AttemptKeeps ==
    ASSUME DecisionInv, NEW a \in Attempts,
           \/ \E t, r \in Nat : AttemptStarts(a, t, r)
           \/ \E s \in {"unresolved", "ended"} : AttemptMoves(a, s)
    PROVE  DecisionInv'
<1> USE DEF DecisionInv
<1>0. /\ attempt' \in [Attempts -> [state : RunStates, task : Nat, repo : Nat]]
      /\ \A b \in Attempts : attempt[b].state # "waiting" =>
           /\ attempt'[b].task = attempt[b].task /\ attempt'[b].repo = attempt[b].repo
           /\ attempt'[b].state # "waiting"
           /\ attempt[b].state = "ended" => attempt'[b].state = "ended"
      /\ UNCHANGED <<board, decision, replies, today>>
  <2>0. attempt \in [Attempts -> [state : RunStates, task : Nat, repo : Nat]]
    BY DEF DecisionTypeOK
  <2>1. CASE \E t, r \in Nat : AttemptStarts(a, t, r)
    <3>1. PICK t \in Nat, r \in Nat : AttemptStarts(a, t, r)
      BY <2>1
    <3>2. QED
      BY <2>0, <3>1 DEF AttemptStarts, RunStates
  <2>2. CASE \E s \in {"unresolved", "ended"} : AttemptMoves(a, s)
    <3>1. PICK s \in {"unresolved", "ended"} : AttemptMoves(a, s)
      BY <2>2
    <3>2. QED
      BY <2>0, <3>1 DEF AttemptMoves, RunStates
  <2>3. QED
    BY <2>1, <2>2
<1>1. DecisionTypeOK'
  BY <1>0 DEF DecisionTypeOK
<1>2. \A d \in DecisionIds : decision[d].run \in Attempts
  BY DEF DecisionTypeOK
<1>3. \A d \in DecisionIds : decision[d].state # "none" =>
        /\ attempt'[decision[d].run].state # "waiting"
        /\ attempt'[decision[d].run].task = attempt[decision[d].run].task
        /\ attempt'[decision[d].run].repo = attempt[decision[d].run].repo
        /\ Host(decision[d].kind) => attempt'[decision[d].run].state = "ended"
  BY <1>0, <1>2 DEF Begun
<1>4. Begun' /\ UniqueIdentity' /\ RepliesSpent' /\ AnsweredOnce'
  BY <1>0, <1>3 DEF Begun, UniqueIdentity, RepliesSpent, AnsweredOnce, Key
<1>5. Snapshot' /\ ConsentHonoured'
  BY <1>0, <1>3 DEF Snapshot, ConsentHonoured, Prepared
<1>6. QED
  BY <1>1, <1>4, <1>5

LEMMA SurroundingsKeep ==
    ASSUME DecisionInv,
           (\E gone \in BOOLEAN : TaskMoves(gone)) \/ RepositoryMoves \/ Passes
    PROVE  DecisionInv'
<1>1. /\ UNCHANGED <<attempt, decision, replies>>
      /\ board' \in [task : Nat, repo : Nat, deleted : BOOLEAN]
      /\ today' \in Nat
  <2>0. board \in [task : Nat, repo : Nat, deleted : BOOLEAN] /\ today \in Nat
    BY DEF DecisionInv, DecisionTypeOK
  <2>1. CASE \E gone \in BOOLEAN : TaskMoves(gone)
    <3>1. PICK gone \in BOOLEAN : TaskMoves(gone)
      BY <2>1
    <3>2. board.task + 1 \in Nat /\ board.repo \in Nat
      BY <2>0
    <3>3. board' = [task |-> board.task + 1, repo |-> board.repo, deleted |-> gone]
      BY <2>0, <3>1 DEF TaskMoves
    <3>4. board' \in [task : Nat, repo : Nat, deleted : BOOLEAN]
      BY <3>2, <3>3, Zenon
    <3>5. QED
      BY <2>0, <3>1, <3>4 DEF TaskMoves
  <2>2. CASE RepositoryMoves
    BY <2>0, <2>2 DEF RepositoryMoves
  <2>3. CASE Passes
    BY <2>0, <2>3 DEF Passes
  <2>4. QED
    BY <2>1, <2>2, <2>3
<1>2. QED
  BY <1>1 DEF DecisionInv, DecisionTypeOK, Begun, Snapshot, ConsentHonoured, UniqueIdentity,
              RepliesSpent, AnsweredOnce, Prepared, Key

LEMMA StepKeeps == DecisionInv /\ [DecisionNext]_decisionVars => DecisionInv'
<1> SUFFICES ASSUME DecisionInv, [DecisionNext]_decisionVars PROVE DecisionInv'
  OBVIOUS
<1>1. CASE \E d \in DecisionIds, a \in Attempts, kind \in Kinds, k \in Callbacks,
              expires \in 1..(Horizon + 1) : CreateDecision(d, a, kind, k, expires)
  BY <1>1, CreateKeeps, DecisionConstants
<1>2. CASE \E d \in DecisionIds, v \in AllVerdicts : Decide(d, v)
  BY <1>2, DecideKeeps
<1>3. CASE \E d \in DecisionIds, heard \in BOOLEAN : ClaimDecision(d, heard)
  BY <1>3, ClaimKeeps
<1>4. CASE \E d \in DecisionIds, s \in DecisionStates : ResolveDecision(d, s)
  BY <1>4, ResolveKeeps
<1>5. CASE \/ \E a \in Attempts, t, r \in 1..MaxVersion : AttemptStarts(a, t, r)
           \/ \E a \in Attempts, s \in {"unresolved", "ended"} : AttemptMoves(a, s)
  BY <1>5, AttemptKeeps, DecisionConstants
<1>6. CASE (\E gone \in BOOLEAN : TaskMoves(gone)) \/ RepositoryMoves \/ Passes
  BY <1>6, SurroundingsKeep
<1>7. CASE UNCHANGED decisionVars
  BY <1>7 DEF decisionVars, DecisionInv, DecisionTypeOK, Begun, Snapshot, ConsentHonoured,
              UniqueIdentity, RepliesSpent, AnsweredOnce, Prepared, Key
<1>8. QED
  BY <1>1, <1>2, <1>3, <1>4, <1>5, <1>6, <1>7 DEF DecisionNext

-----------------------------------------------------------------------------
\* Every variable keeps its type, and a decided row has a verdict of its kind.
THEOREM DecisionsTyped == DecisionSpec => []DecisionTypeOK
<1>1. DecisionInv => DecisionTypeOK
  BY DEF DecisionInv
<1>2. QED
  BY <1>1, InitHolds, StepKeeps, PTL DEF DecisionSpec

\* decisions.claim gives authority only on the task and repository the person
\* decided on and the attempt was prepared on, and never for a denied merge.
THEOREM ConsentKept == DecisionSpec => []ConsentHonoured
<1>1. DecisionInv => ConsentHonoured
  BY DEF DecisionInv
<1>2. QED
  BY <1>1, InitHolds, StepKeeps, PTL DEF DecisionSpec

\* A provider's request, or a commit range, is answered on one authority at most.
THEOREM AuthorityOnce == DecisionSpec => []AnsweredOnce
<1>1. DecisionInv => AnsweredOnce
  BY DEF DecisionInv
<1>2. QED
  BY <1>1, InitHolds, StepKeeps, PTL DEF DecisionSpec

-----------------------------------------------------------------------------
\* GapHistory
(***************************************************************************)
(* GapHistory: the recount, one run at a time.                             *)
(***************************************************************************)
\* What a recount makes of the runs that reported a gap.
Returns(R) == {n \in R : n - 1 \notin R}
Tally(R) ==
    IF R = {} THEN NeverSeen
    ELSE [first |-> Min(R), last |-> Max(R), occurrences |-> Cardinality(R),
          resurfaces |-> Cardinality(Returns(R)) - 1]

LEMMA MinIs ==
  ASSUME NEW S, S \subseteq Nat, NEW m \in S, \A x \in S : m <= x
  PROVE  Min(S) = m
  <1>1. Min(S) \in S /\ \A x \in S : Min(S) <= x
    BY DEF Min
  <1>2. Min(S) \in Nat /\ m \in Nat /\ Min(S) <= m /\ m <= Min(S)
    BY <1>1
  <1>3. QED
    BY <1>2

LEMMA MaxIs ==
  ASSUME NEW S, S \subseteq Nat, NEW m \in S, \A x \in S : x <= m
  PROVE  Max(S) = m
  <1>1. Max(S) \in S /\ \A x \in S : x <= Max(S)
    BY DEF Max
  <1>2. Max(S) \in Nat /\ m \in Nat /\ Max(S) <= m /\ m <= Max(S)
    BY <1>1
  <1>3. QED
    BY <1>2

LEMMA NextTally ==
  ASSUME NEW R, R \subseteq Nat \ {0}, IsFiniteSet(R), NEW n \in Nat \ {0}, \A r \in R : r <= n
  PROVE  Tally(R \cup {n}) = Sighted(Tally(R), n)
  <1> DEFINE Q == R \cup {n}
  <1>1. Q # {} /\ Q \subseteq Nat /\ n \in Q /\ \A x \in Q : x <= n
    OBVIOUS
  <1>2. Max(Q) = n
    BY <1>1, MaxIs
  <1>3. CASE R = {}
    <2>1. Q = {n} /\ Min(Q) = n
      BY <1>1, <1>3, MinIs
    <2>2. n - 1 # n
      OBVIOUS
    <2>3. Returns(Q) = {n}
      BY <2>1, <2>2 DEF Returns
    <2>4. Cardinality({n}) = 1
      BY FS_Singleton
    <2>5. Tally(Q) = [first |-> n, last |-> n, occurrences |-> 1, resurfaces |-> 0]
      BY <1>1, <1>2, <2>1, <2>3, <2>4 DEF Tally
    <2>6. Tally(R) = NeverSeen
      BY <1>3 DEF Tally
    <2>7. QED
      BY <2>5, <2>6 DEF Sighted
  <1>4. CASE R # {}
    <2>1. PICK a \in R : \A y \in R : a <= y
      BY <1>4, LeastOf
    <2>2. a \in Nat \ {0} /\ a <= n /\ Min(R) = a /\ Min(Q) = a
      BY <2>1, MinIs
    <2>3. PICK z : z = Max(R)
      OBVIOUS
    <2>4. z \in R /\ z \in Nat /\ z <= n /\ \A x \in R : x <= z
      BY <1>4, <2>3, MaxOf
    <2>5. PICK occ, res : occ = Cardinality(R) /\ res = Cardinality(Returns(R))
      OBVIOUS
    <2>6. IsFiniteSet(Returns(R)) /\ occ \in Nat /\ res \in Nat
      BY <2>5, FS_Subset, FS_CardinalityType DEF Returns
    <2>7. Tally(R) = [first |-> a, last |-> z, occurrences |-> occ, resurfaces |-> res - 1]
      BY <1>4, <2>2, <2>3, <2>5 DEF Tally
    <2>8. Tally(R) # NeverSeen
      BY <2>2, <2>7 DEF NeverSeen
    <2>9. Max({z, n}) = n
      BY <2>4, MaxIs
    <2>10. Sighted(Tally(R), n) =
              [first |-> a, last |-> n, occurrences |-> occ + (IF z < n THEN 1 ELSE 0),
               resurfaces |-> (res - 1) + (IF z < n - 1 THEN 1 ELSE 0)]
      BY <2>7, <2>8, <2>9 DEF Sighted
    <2>11. Tally(Q) = [first |-> a, last |-> n, occurrences |-> Cardinality(Q),
                       resurfaces |-> Cardinality(Returns(Q)) - 1]
      BY <1>1, <1>2, <2>2 DEF Tally
    <2>12. CASE n \in R
      <3>1. Q = R /\ z = n
        BY <2>4, <2>12
      <3>2. Cardinality(Q) = occ /\ Cardinality(Returns(Q)) = res
        BY <2>5, <3>1
      <3>3. occ + (IF z < n THEN 1 ELSE 0) = occ
            /\ (res - 1) + (IF z < n - 1 THEN 1 ELSE 0) = res - 1
        BY <2>6, <3>1
      <3>4. QED
        BY <2>10, <2>11, <3>2, <3>3
    <2>13. CASE n \notin R
      <3>1. Cardinality(Q) = occ + 1 /\ z < n
        BY <2>4, <2>5, <2>13, FS_AddElement
      <3>2. \A x \in R : x \in Nat /\ x - 1 # n
        OBVIOUS
      <3>3. n \notin Returns(R) /\ n - 1 # n
        BY <2>13 DEF Returns
      <3>4. CASE z < n - 1
        <4>1. n - 1 \notin Q
          BY <2>4, <3>3, <3>4
        <4>2. Returns(Q) = Returns(R) \cup {n}
          BY <3>2, <3>3, <4>1 DEF Returns
        <4>3. Cardinality(Returns(Q)) = res + 1
          BY <2>5, <2>6, <3>3, <4>2, FS_AddElement
        <4>4. QED
          BY <2>6, <2>10, <2>11, <3>1, <3>4, <4>3
      <3>5. CASE ~(z < n - 1)
        <4>1. n - 1 \in Q
          BY <2>4, <3>1, <3>5
        <4>2. Returns(Q) = Returns(R)
          BY <3>2, <3>3, <4>1 DEF Returns
        <4>3. Cardinality(Returns(Q)) = res
          BY <2>5, <4>2
        <4>4. Tally(Q) = [first |-> a, last |-> n, occurrences |-> occ + 1, resurfaces |-> res - 1]
          BY <2>11, <3>1, <4>3
        <4>5. Sighted(Tally(R), n) =
                [first |-> a, last |-> n, occurrences |-> occ + 1, resurfaces |-> res - 1]
          BY <2>6, <2>10, <3>1, <3>5
        <4>6. QED
          BY <4>4, <4>5
      <3>6. QED
        BY <3>4, <3>5
    <2>14. QED
      BY <2>12, <2>13
  <1>5. QED
    BY <1>3, <1>4

GapInv ==
    /\ gapOf \in [Gaps -> Verified \cup {NoRow, Unfiled}]
    /\ found \in [Verified -> Seq(SUBSET Gaps)]
    /\ runOf = [t \in Verified |-> Len(found[t])]
    /\ history = [t \in Verified |-> [g \in Gaps |-> Tally(RunsWith(t, g))]]
    /\ \A t \in Verified, g \in Gaps : gapOf[g] = t => Len(found[t]) \in RunsWith(t, g)

LEMMA RunsCounted ==
  ASSUME GapInv, NEW t \in Verified, NEW g \in Gaps
  PROVE  /\ Len(found[t]) \in Nat /\ DOMAIN found[t] = 1..Len(found[t])
         /\ RunsWith(t, g) \subseteq 1..Len(found[t])
         /\ RunsWith(t, g) \subseteq Nat \ {0} /\ IsFiniteSet(RunsWith(t, g))
         /\ \A n \in RunsWith(t, g) : n \in Nat /\ n <= Len(found[t])
  <1>1. found[t] \in Seq(SUBSET Gaps)
    BY DEF GapInv
  <1>2. Len(found[t]) \in Nat /\ DOMAIN found[t] = 1..Len(found[t])
    BY <1>1, LenProperties
  <1>3. RunsWith(t, g) \subseteq 1..Len(found[t])
    BY <1>2 DEF RunsWith
  <1>4. IsFiniteSet(1..Len(found[t]))
    BY <1>2, FS_Interval
  <1>5. QED
    BY <1>2, <1>3, <1>4, FS_Subset

\* A sighting in the run n of t, the latest, keeps the history and the table true.
LEMMA SightingStep ==
  ASSUME GapInv, NEW t \in Verified, NEW S \in SUBSET Gaps, NEW n \in Nat \ {0},
         RecordSightings(t, S, n),
         found' \in [Verified -> Seq(SUBSET Gaps)],
         \A u \in Verified \ {t} : found'[u] = found[u],
         Len(found'[t]) = n, n >= Len(found[t]),
         \A g \in Gaps : RunsWith(t, g)' = IF g \in S THEN RunsWith(t, g) \cup {n} ELSE RunsWith(t, g),
         gapOf' \in [Gaps -> Verified \cup {NoRow, Unfiled}],
         \A g \in Gaps : gapOf'[g] = t => g \in S \/ (gapOf[g] = t /\ n = Len(found[t])),
         \A u \in Verified \ {t}, g \in Gaps : gapOf'[g] = u => gapOf[g] = u
  PROVE  GapInv'
  <1>1. runOf' = [u \in Verified |-> Len(found'[u])]
    BY DEF RecordSightings, GapInv
  <1>2. \A u \in Verified \ {t}, g \in Gaps : RunsWith(u, g)' = RunsWith(u, g)
    BY DEF RunsWith
  <1>3. history' = [u \in Verified |-> [g \in Gaps |-> Tally(RunsWith(u, g)')]]
    <2>1. ASSUME NEW g \in Gaps
          PROVE  Tally(RunsWith(t, g)') = IF g \in S THEN Sighted(history[t][g], n) ELSE history[t][g]
      <3>1. history[t][g] = Tally(RunsWith(t, g))
        BY DEF GapInv
      <3>2. /\ RunsWith(t, g) \subseteq Nat \ {0} /\ IsFiniteSet(RunsWith(t, g))
            /\ \A r \in RunsWith(t, g) : r <= n
        BY RunsCounted
      <3>3. Tally(RunsWith(t, g) \cup {n}) = Sighted(Tally(RunsWith(t, g)), n)
        BY <3>2, NextTally
      <3>4. QED
        BY <3>1, <3>3
    <2>2. history'[t] = [g \in Gaps |-> Tally(RunsWith(t, g)')]
      <3>1. history'[t] = [g \in Gaps |-> IF g \in S THEN Sighted(history[t][g], n)
                                          ELSE history[t][g]]
        BY DEF RecordSightings, GapInv
      <3>2. QED
        BY <2>1, <3>1
    <2>3. ASSUME NEW u \in Verified \ {t}
          PROVE  history'[u] = [g \in Gaps |-> Tally(RunsWith(u, g)')]
      <3>1. history'[u] = [g \in Gaps |-> Tally(RunsWith(u, g))]
        BY DEF RecordSightings, GapInv
      <3>2. QED
        BY <1>2, <3>1
    <2>4. history' = [u \in Verified |-> history'[u]]
      BY DEF RecordSightings, GapInv
    <2>5. QED
      BY <2>2, <2>3, <2>4
  <1>4. ASSUME NEW u \in Verified, NEW g \in Gaps, gapOf'[g] = u
        PROVE  Len(found'[u]) \in RunsWith(u, g)'
    <2>1. CASE u # t
      <3>1. gapOf[g] = u /\ found'[u] = found[u] /\ RunsWith(u, g)' = RunsWith(u, g)
        BY <1>2, <1>4, <2>1
      <3>2. QED
        BY <3>1 DEF GapInv
    <2>2. CASE u = t
      <3>1. CASE g \in S
        BY <2>2, <3>1
      <3>2. CASE g \notin S
        <4>1. gapOf[g] = t /\ n = Len(found[t])
          BY <1>4, <2>2, <3>2
        <4>2. QED
          BY <2>2, <3>2, <4>1 DEF GapInv
      <3>3. QED
        BY <3>1, <3>2
    <2>3. QED
      BY <2>1, <2>2
  <1>5. QED
    BY <1>1, <1>3, <1>4 DEF GapInv

LEMMA ReplaceStep ==
  ASSUME GapInv, NEW t \in Verified, NEW S \in SUBSET Gaps, GapsReplace(t, S)
  PROVE  GapInv'
  <1>1. PICK k \in Nat : k = Len(found[t])
    BY LenProperties DEF GapInv
  <1>2. found[t] \in Seq(SUBSET Gaps) /\ found' = [found EXCEPT ![t] = Append(found[t], S)]
    BY DEF GapInv, GapsReplace
  <1>3. /\ Append(found[t], S) \in Seq(SUBSET Gaps) /\ Len(Append(found[t], S)) = k + 1
        /\ \A i \in 1..k : Append(found[t], S)[i] = found[t][i]
        /\ Append(found[t], S)[k + 1] = S
    BY <1>1, <1>2, AppendProperties
  <1>4. /\ found' \in [Verified -> Seq(SUBSET Gaps)] /\ found'[t] = Append(found[t], S)
        /\ \A u \in Verified \ {t} : found'[u] = found[u]
    BY <1>2, <1>3 DEF GapInv
  <1>5. DOMAIN found[t] = 1..k /\ DOMAIN found'[t] = 1..(k + 1)
    BY <1>1, <1>2, <1>3, <1>4, LenProperties
  <1>6. ASSUME NEW g \in Gaps
        PROVE  RunsWith(t, g)' = IF g \in S THEN RunsWith(t, g) \cup {k + 1} ELSE RunsWith(t, g)
    <2>1. \A i : i \in 1..(k + 1) <=> i \in 1..k \/ i = k + 1
      OBVIOUS
    <2>2. RunsWith(t, g)' = {i \in 1..(k + 1) : g \in found'[t][i]}
      BY <1>5 DEF RunsWith
    <2>3. RunsWith(t, g) = {i \in 1..k : g \in found[t][i]}
      BY <1>5 DEF RunsWith
    <2>4. QED
      BY <1>3, <1>4, <2>1, <2>2, <2>3
  <1>7. RecordSightings(t, S, k + 1)
    BY <1>1 DEF GapsReplace, AdvanceRun, GapInv
  <1>8. /\ gapOf' \in [Gaps -> Verified \cup {NoRow, Unfiled}]
        /\ \A g \in Gaps : gapOf'[g] = t => g \in S
        /\ \A u \in Verified \ {t}, g \in Gaps : gapOf'[g] = u => gapOf[g] = u
    BY GapConstants DEF GapsReplace, GapInv
  <1>9. k + 1 \in Nat \ {0} /\ k + 1 >= k
    OBVIOUS
  <1>10. \A g \in Gaps :
            RunsWith(t, g)' = IF g \in S THEN RunsWith(t, g) \cup {k + 1} ELSE RunsWith(t, g)
    BY <1>6
  <1>11. \A g \in Gaps : gapOf'[g] = t => g \in S \/ (gapOf[g] = t /\ k + 1 = Len(found[t]))
    BY <1>8
  <1>12. Len(found'[t]) = k + 1 /\ k + 1 >= Len(found[t])
    BY <1>1, <1>3, <1>4
  <1>13. QED
    BY <1>4, <1>7, <1>8, <1>9, <1>10, <1>11, <1>12, SightingStep

LEMMA UpsertStep ==
  ASSUME GapInv, NEW t \in Verified, NEW g \in Gaps, GapUpsert(t, g)
  PROVE  GapInv'
  <1>1. PICK k \in Nat : k = Len(found[t])
    BY LenProperties DEF GapInv
  <1>2. PICK n : n = IF k = 0 THEN 1 ELSE k
    OBVIOUS
  <1>3. found[t] \in Seq(SUBSET Gaps) /\ DOMAIN found[t] = 1..k
    BY <1>1, LenProperties DEF GapInv
  <1>4. n \in Nat \ {0} /\ n >= k /\ n \in 1..n
    BY <1>2
  <1>5. RecordSightings(t, {g}, n)
    BY <1>1, <1>2 DEF GapUpsert, CurrentRun, AdvanceRun, GapInv
  <1>6. PICK f : f = IF found[t] = <<>> THEN <<{g}>>
                     ELSE [found[t] EXCEPT ![k] = found[t][k] \cup {g}]
    OBVIOUS
  <1>7. /\ f \in Seq(SUBSET Gaps) /\ Len(f) = n
        /\ \A h \in Gaps : {i \in DOMAIN f : h \in f[i]} =
                           IF h \in {g} THEN RunsWith(t, h) \cup {n} ELSE RunsWith(t, h)
    <2>1. CASE found[t] = <<>>
      <3>1. k = 0 /\ n = 1 /\ f = <<{g}>> /\ DOMAIN found[t] = {}
        BY <1>1, <1>2, <1>6, <2>1
      <3>2. f \in Seq(SUBSET Gaps) /\ Len(f) = 1 /\ f[1] = {g}
        BY <3>1
      <3>3. DOMAIN f = {1}
        BY <3>1
      <3>4. QED
        BY <3>1, <3>2, <3>3 DEF RunsWith
    <2>2. CASE found[t] # <<>>
      <3>1. k # 0
        BY <1>1, <1>3, <2>2, EmptySeq
      <3>2. n = k /\ k \in 1..k /\ f = [found[t] EXCEPT ![k] = found[t][k] \cup {g}]
        BY <1>2, <1>4, <1>6, <2>2, <3>1
      <3>3. found[t][k] \in SUBSET Gaps
        BY <1>1, <1>3, <3>2, ElementOfSeq
      <3>4. found[t][k] \cup {g} \in SUBSET Gaps
        BY <3>3
      <3>5. f \in Seq(SUBSET Gaps) /\ Len(f) = k
        BY <1>1, <1>3, <3>2, <3>4, ExceptSeq
      <3>6. /\ DOMAIN f = 1..k /\ f[k] = found[t][k] \cup {g}
            /\ \A i \in 1..k : i # k => f[i] = found[t][i]
        BY <1>3, <3>2
      <3>7. QED
        BY <1>3, <3>2, <3>5, <3>6 DEF RunsWith
    <2>3. QED
      BY <2>1, <2>2
  <1>8. found' = [found EXCEPT ![t] = f]
    BY <1>1, <1>6 DEF GapUpsert, GapInv
  <1>9. /\ found' \in [Verified -> Seq(SUBSET Gaps)] /\ found'[t] = f
        /\ \A u \in Verified \ {t} : found'[u] = found[u]
    BY <1>7, <1>8 DEF GapInv
  <1>10. \A h \in Gaps :
            RunsWith(t, h)' = IF h \in {g} THEN RunsWith(t, h) \cup {n} ELSE RunsWith(t, h)
    BY <1>7, <1>9 DEF RunsWith
  <1>11. /\ gapOf' \in [Gaps -> Verified \cup {NoRow, Unfiled}]
         /\ \A h \in Gaps : h # g => gapOf'[h] = gapOf[h]
         /\ gapOf'[g] = t
    BY DEF GapUpsert, GapInv
  <1>12. \A h \in Gaps : gapOf'[h] = t => h \in {g} \/ (gapOf[h] = t /\ n = Len(found[t]))
    <2> SUFFICES ASSUME NEW h \in Gaps, gapOf'[h] = t, h # g PROVE gapOf[h] = t /\ n = k
      BY <1>1
    <2>1. gapOf[h] = t
      BY <1>11
    <2>2. k \in 1..k
      BY <1>1, <2>1, RunsCounted DEF GapInv
    <2>3. QED
      BY <1>2, <2>1, <2>2
  <1>13. QED
    BY <1>1, <1>4, <1>5, <1>7, <1>9, <1>10, <1>11, <1>12, SightingStep

LEMMA GapStep == GapInv /\ [GapNext]_gapVars => GapInv'
  <1> SUFFICES ASSUME GapInv, [GapNext]_gapVars PROVE GapInv'
    OBVIOUS
  <1>1. ASSUME UNCHANGED <<runOf, history, found>>,
               gapOf' \in [Gaps -> Verified \cup {NoRow, Unfiled}],
               \A g \in Gaps, t \in Verified : gapOf'[g] = t => gapOf[g] = t
        PROVE  GapInv'
    <2>1. \A t \in Verified, g \in Gaps : RunsWith(t, g)' = RunsWith(t, g)
      BY <1>1 DEF RunsWith
    <2>2. QED
      BY <1>1, <2>1 DEF GapInv
  <1>2. ASSUME NEW g \in Gaps, GapUnfiled(g) PROVE GapInv'
    <2>1. gapOf' \in [Gaps -> Verified \cup {NoRow, Unfiled}]
      BY <1>2 DEF GapUnfiled, GapInv
    <2>2. \A h \in Gaps, t \in Verified : gapOf'[h] = t => gapOf[h] = t
      BY <1>2, GapConstants DEF GapUnfiled, GapInv
    <2>3. QED
      BY <1>1, <1>2, <2>1, <2>2 DEF GapUnfiled
  <1>3. CASE UNCHANGED gapVars
    BY <1>1, <1>3 DEF gapVars, GapInv
  <1>4. QED
    BY <1>2, <1>3, ReplaceStep, UpsertStep DEF GapNext

LEMMA GapStart == GapInit => GapInv
  <1> SUFFICES ASSUME GapInit PROVE GapInv
    OBVIOUS
  <1> USE DEF GapInit
  <1>1. found \in [Verified -> Seq(SUBSET Gaps)] /\ gapOf \in [Gaps -> Verified \cup {NoRow, Unfiled}]
    OBVIOUS
  <1>2. runOf = [t \in Verified |-> Len(found[t])]
    OBVIOUS
  <1>3. \A t \in Verified, g \in Gaps : RunsWith(t, g) = {}
    BY DEF RunsWith
  <1>4. history = [t \in Verified |-> [g \in Gaps |-> Tally(RunsWith(t, g))]]
    BY <1>3 DEF Tally
  <1>5. \A t \in Verified, g \in Gaps : gapOf[g] # t
    BY GapConstants
  <1>6. QED
    BY <1>1, <1>2, <1>4, <1>5 DEF GapInv

\* The history is what a recount of all runs gives, and a listed gap was in its
\* task's last run: for any tasks, gaps and number of runs (record_sighting,
\* advance_run, current_run).
THEOREM HistoryIsTrue == GapSpec => []GapsTrue
  <1>1. GapInv => GapsTrue
    <2> SUFFICES ASSUME GapInv, NEW t \in Verified, NEW g \in Gaps
                 PROVE  /\ history[t][g] = Recounted(t, g)
                        /\ gapOf[g] = t => /\ RunsWith(t, g) # {}
                                           /\ Max(RunsWith(t, g)) = Len(found[t])
      BY DEF GapsTrue
    <2>1. history[t][g] = Recounted(t, g)
      BY DEF GapInv, Recounted, Tally, Returns
    <2>2. ASSUME gapOf[g] = t
          PROVE  RunsWith(t, g) # {} /\ Max(RunsWith(t, g)) = Len(found[t])
      <3>1. Len(found[t]) \in RunsWith(t, g)
        BY <2>2 DEF GapInv
      <3>2. RunsWith(t, g) \subseteq Nat /\ \A n \in RunsWith(t, g) : n <= Len(found[t])
        BY RunsCounted
      <3>3. QED
        BY <3>1, <3>2, MaxIs
    <2>3. QED
      BY <2>1, <2>2
  <1>2. QED
    BY <1>1, GapStart, GapStep, PTL DEF GapSpec

-----------------------------------------------------------------------------
\* Grants
Grant == [id : Nat, by : Authorities, task : {r.task : r \in Requests},
          rules : {r.rules : r \in Requests}, reason : BOOLEAN, once : BOOLEAN,
          expires : Int, consumed : BOOLEAN, serial : Nat]

GrantTypeOK ==
    /\ ledger \in Seq(Grant) /\ saved \in Seq(Grant)
    /\ counter \in Nat /\ issues \in Nat /\ instant \in Nat
    /\ permit \in Permits
    /\ caller \in [Callers -> [does : {"nothing", "issue", "apply", "revoke"}, serials : SUBSET Nat]]
    /\ cleared \in [1..MaxIssued -> Nat]

\* Ids and serials are given out upwards, and no two grants of a list share one.
Distinct(gs) ==
    \A i, j \in DOMAIN gs : gs[i].id = gs[j].id \/ gs[i].serial = gs[j].serial => i = j

Numbered ==
    /\ counter <= issues /\ issues <= MaxIssued
    /\ \A i \in DOMAIN ledger : ledger[i].id <= counter /\ ledger[i].serial \in 1..issues
    /\ \A i \in DOMAIN saved : saved[i].id <= issues /\ saved[i].serial \in 1..issues
    /\ Distinct(ledger) /\ Distinct(saved)
    /\ revoked \subseteq 1..issues
    /\ \A c \in Callers : caller[c].serials \subseteq 1..issues
    /\ \A k \in 1..MaxIssued : k > issues => cleared[k] = 0

Pending(c, k) == caller[c].does \in {"apply", "revoke"} /\ k \in caller[c].serials

\* An answer was given about the grant k.
Ended(k) == k \in revoked \/ cleared[k] # 0

\* What was answered is in both lists, what is about to be answered in memory.
Spent ==
    /\ \A i \in DOMAIN ledger, k \in Nat :
          ledger[i].serial = k /\ (Ended(k) \/ \E c \in Callers : Pending(c, k)) => ledger[i].consumed
    /\ \A i \in DOMAIN saved, k \in Nat : saved[i].serial = k /\ Ended(k) => saved[i].consumed

\* A grant that is on its way to an answer has had none, and is so once.
ClearedOnce ==
    /\ \A k \in 1..MaxIssued : cleared[k] <= 1
    /\ \A c \in Callers, k \in 1..MaxIssued :
          caller[c].does = "apply" /\ k \in caller[c].serials =>
             /\ cleared[k] = 0
             /\ \A d \in Callers : caller[d].does = "apply" /\ k \in caller[d].serials => d = c

GrantInv == GrantTypeOK /\ Numbered /\ Spent /\ ClearedOnce

LEMMA GrantStart == GrantInit => GrantInv
  <1> SUFFICES ASSUME GrantInit PROVE GrantInv
    OBVIOUS
  <1> USE DEF GrantInit
  <1>1. GrantTypeOK
    BY DEF GrantTypeOK, Idle
  <1>2. DOMAIN ledger = {} /\ DOMAIN saved = {}
    OBVIOUS
  <1>3. Numbered
    BY <1>2, GrantConstants DEF Numbered, Distinct, Idle
  <1>4. Spent /\ ClearedOnce
    BY <1>2 DEF Spent, ClearedOnce, Idle
  <1>5. QED
    BY <1>1, <1>3, <1>4 DEF GrantInv

LEMMA ListsOfGrants ==
  ASSUME GrantTypeOK
  PROVE  /\ \A i \in DOMAIN ledger : ledger[i] \in Grant
         /\ \A i \in DOMAIN saved : saved[i] \in Grant
         /\ Len(ledger) \in Nat /\ DOMAIN ledger = 1..Len(ledger)
         /\ Len(saved) \in Nat /\ DOMAIN saved = 1..Len(saved)
  BY LenProperties, ElementOfSeq DEF GrantTypeOK

LEMMA IssueStep ==
  ASSUME GrantInv, NEW c \in Callers, NEW r \in Requests, Issue(c, r)
  PROVE  GrantInv'
  <1>0. GrantTypeOK /\ Numbered /\ Spent /\ ClearedOnce
    BY DEF GrantInv
  <1>1. PICK g : g = [id |-> counter + 1, by |-> r.by, task |-> r.task,
                      rules |-> r.rules, reason |-> r.reason, once |-> r.once,
                      expires |-> instant + Lifetime(permit, r),
                      consumed |-> FALSE, serial |-> issues + 1]
    OBVIOUS
  <1>2. /\ counter' = counter + 1 /\ issues' = issues + 1 /\ issues < MaxIssued
        /\ ledger' = Append(ledger, g)
        /\ caller' = [caller EXCEPT ![c] = [does |-> "issue", serials |-> {issues + 1}]]
        /\ UNCHANGED <<permit, saved, instant, cleared, revoked, restarts>>
    BY <1>1 DEF Issue, Hooked
  <1>3. g \in Grant
    <2>1. permit.ceiling \in [Authorities -> Int] /\ r.by \in Authorities /\ r.ttl \in Int
          /\ r.reason \in BOOLEAN /\ r.once \in BOOLEAN
      BY <1>0, GrantConstants DEF GrantTypeOK
    <2>2. Lifetime(permit, r) \in Int
      BY <2>1 DEF Lifetime
    <2>3. instant + Lifetime(permit, r) \in Int /\ counter + 1 \in Nat /\ issues + 1 \in Nat
      BY <1>0, <2>2 DEF GrantTypeOK
    <2>4. QED
      BY <1>1, <2>1, <2>3 DEF Grant
  <1>4. PICK n \in Nat : n = Len(ledger) /\ DOMAIN ledger = 1..n
    BY <1>0, ListsOfGrants
  <1>5. /\ ledger' \in Seq(Grant) /\ Len(ledger') = n + 1
        /\ \A i \in 1..n : ledger'[i] = ledger[i]
        /\ ledger'[n + 1] = g
    BY <1>0, <1>2, <1>3, <1>4, AppendProperties DEF GrantTypeOK
  <1>6. DOMAIN ledger' = 1..(n + 1) /\ \A i : i \in 1..(n + 1) <=> i \in 1..n \/ i = n + 1
    BY <1>5, LenProperties
  <1>7. /\ caller' \in [Callers -> [does : {"nothing", "issue", "apply", "revoke"}, serials : SUBSET Nat]]
        /\ caller'[c].does = "issue" /\ caller'[c].serials = {issues + 1}
        /\ \A d \in Callers \ {c} : caller'[d] = caller[d]
    BY <1>0, <1>2 DEF GrantTypeOK
  <1>8. GrantTypeOK'
    BY <1>0, <1>2, <1>5, <1>7 DEF GrantTypeOK
  <1>9. issues \in Nat /\ counter \in Nat /\ MaxIssued \in Nat /\ counter <= issues
    BY <1>0, GrantConstants DEF GrantTypeOK, Numbered
  <1>10. \A i \in 1..n : /\ ledger[i].id \in Nat /\ ledger[i].id <= counter
                         /\ ledger[i].serial \in 1..issues
    BY <1>0, <1>4, ListsOfGrants DEF Numbered, Grant
  <1>11. g.id = counter + 1 /\ g.serial = issues + 1 /\ g.consumed = FALSE
    BY <1>1
  <1>12. \A x : x \in 1..issues => x \in 1..(issues + 1) /\ x # issues + 1
    BY <1>9
  <1>13. Distinct(ledger')
    <2> SUFFICES ASSUME NEW i \in 1..(n + 1), NEW j \in 1..(n + 1), i # j
                 PROVE  ledger'[i].id # ledger'[j].id /\ ledger'[i].serial # ledger'[j].serial
      BY <1>6 DEF Distinct
    <2>0. Distinct(ledger)
      BY <1>0 DEF Numbered
    <2>1. CASE i \in 1..n /\ j \in 1..n
      <3>1. /\ i \in DOMAIN ledger /\ j \in DOMAIN ledger
            /\ ledger'[i] = ledger[i] /\ ledger'[j] = ledger[j]
        BY <1>4, <1>5, <2>1
      <3>2. QED
        BY <2>0, <3>1 DEF Distinct
    <2>2. CASE i = n + 1 /\ j \in 1..n
      <3>1. ledger'[i] = g /\ ledger'[j] = ledger[j]
        BY <1>5, <2>2
      <3>2. ledger[j].id <= counter /\ ledger[j].id \in Nat /\ ledger[j].serial # issues + 1
        BY <1>10, <1>12, <2>2
      <3>3. ledger[j].id # counter + 1
        BY <1>9, <3>2
      <3>4. QED
        BY <1>11, <3>1, <3>2, <3>3
    <2>3. CASE j = n + 1 /\ i \in 1..n
      <3>1. ledger'[j] = g /\ ledger'[i] = ledger[i]
        BY <1>5, <2>3
      <3>2. ledger[i].id <= counter /\ ledger[i].id \in Nat /\ ledger[i].serial # issues + 1
        BY <1>10, <1>12, <2>3
      <3>3. ledger[i].id # counter + 1
        BY <1>9, <3>2
      <3>4. QED
        BY <1>11, <3>1, <3>2, <3>3
    <2>4. QED
      BY <1>6, <2>1, <2>2, <2>3
  <1>14. Numbered'
    <2>1. counter' <= issues' /\ issues' <= MaxIssued
      BY <1>2, <1>9
    <2>2. \A i \in DOMAIN ledger' : ledger'[i].id <= counter' /\ ledger'[i].serial \in 1..issues'
      BY <1>2, <1>5, <1>6, <1>9, <1>10, <1>11, <1>12
    <2>3. \A i \in DOMAIN saved' : saved'[i].id <= issues' /\ saved'[i].serial \in 1..issues'
      <3>1. \A i \in DOMAIN saved : saved[i].id \in Nat
        BY <1>0, ListsOfGrants DEF Grant
      <3>2. QED
        BY <1>0, <1>2, <1>9, <1>12, <3>1 DEF Numbered
    <2>4. revoked' \subseteq 1..issues' /\ Distinct(saved')
      BY <1>0, <1>2, <1>12 DEF Numbered
    <2>5. \A d \in Callers : caller'[d].serials \subseteq 1..issues'
      BY <1>0, <1>2, <1>7, <1>9, <1>12 DEF Numbered
    <2>6. \A k \in 1..MaxIssued : k > issues' => cleared'[k] = 0
      BY <1>0, <1>2, <1>9 DEF Numbered
    <2>7. QED
      BY <1>13, <2>1, <2>2, <2>3, <2>4, <2>5, <2>6 DEF Numbered
  <1>15. \A d \in Callers : \A k : Pending(d, k)' => Pending(d, k)
    BY <1>7 DEF Pending
  <1>16. \A k : Ended(k)' <=> Ended(k)
    BY <1>2 DEF Ended
  <1>17. Spent'
    <2>1. ~Ended(issues + 1) /\ \A d \in Callers : ~Pending(d, issues + 1)
      <3>1. issues + 1 \in 1..MaxIssued /\ issues + 1 > issues
        BY <1>2, <1>9
      <3>2. QED
        BY <1>0, <1>12, <3>1 DEF Numbered, Ended, Pending
    <2>2. ASSUME NEW i \in DOMAIN ledger', NEW k \in Nat, ledger'[i].serial = k,
                 Ended(k)' \/ \E d \in Callers : Pending(d, k)'
          PROVE  ledger'[i].consumed
      <3>1. CASE i \in 1..n
        BY <1>0, <1>4, <1>5, <1>15, <1>16, <2>2, <3>1 DEF Spent
      <3>2. CASE i = n + 1
        BY <1>5, <1>11, <1>15, <1>16, <2>1, <2>2, <3>2
      <3>3. QED
        BY <1>6, <3>1, <3>2
    <2>3. \A i \in DOMAIN saved', k \in Nat : saved'[i].serial = k /\ Ended(k)' => saved'[i].consumed
      BY <1>0, <1>2, <1>16 DEF Spent
    <2>4. QED
      BY <2>2, <2>3 DEF Spent
  <1>18. ClearedOnce'
    BY <1>0, <1>2, <1>7 DEF ClearedOnce
  <1>19. QED
    BY <1>8, <1>14, <1>17, <1>18 DEF GrantInv

\* Grants of the list that are of id i, or that is the one at i, are used up.
LEMMA UsedUp ==
  ASSUME GrantInv, NEW c \in Callers, Between(c), NEW does \in {"apply", "revoke"},
         NEW at \in SUBSET DOMAIN ledger,
         DOMAIN ledger' = DOMAIN ledger, ledger' \in Seq(Grant),
         \A i \in DOMAIN ledger \ at : ledger'[i] = ledger[i],
         \A i \in at : ledger'[i] = [ledger[i] EXCEPT !.consumed = TRUE],
         caller' = [caller EXCEPT ![c] =
                      [does |-> does, serials |-> {ledger[i].serial : i \in at}]],
         does = "apply" => \A i \in at : ~ledger[i].consumed,
         UNCHANGED <<counter, permit, saved, instant, issues, cleared, revoked, restarts>>
  PROVE  GrantInv'
  <1>0. GrantTypeOK /\ Numbered /\ Spent /\ ClearedOnce
    BY DEF GrantInv
  <1>1. /\ \A i \in DOMAIN ledger : ledger[i] \in Grant
        /\ \A i \in DOMAIN ledger : ledger[i].serial \in 1..issues /\ ledger[i].serial \in Nat
    BY <1>0, ListsOfGrants DEF Numbered, Grant
  <1>2. \A i \in DOMAIN ledger : /\ ledger'[i].id = ledger[i].id
                                /\ ledger'[i].serial = ledger[i].serial
                                /\ ledger'[i].consumed = IF i \in at THEN TRUE ELSE ledger[i].consumed
    <2> SUFFICES ASSUME NEW i \in DOMAIN ledger
                 PROVE  /\ ledger'[i].id = ledger[i].id /\ ledger'[i].serial = ledger[i].serial
                        /\ ledger'[i].consumed = IF i \in at THEN TRUE ELSE ledger[i].consumed
      OBVIOUS
    <2>1. CASE i \in at
      <3>1. ledger'[i] = [ledger[i] EXCEPT !.consumed = TRUE] /\ ledger[i] \in Grant
        BY <1>1, <2>1
      <3>2. QED
        BY <2>1, <3>1 DEF Grant
    <2>2. CASE i \notin at
      BY <2>2
    <2>3. QED
      BY <2>1, <2>2
  <1>a. PICK ks : ks = {ledger[i].serial : i \in at}
    OBVIOUS
  <1>3. ks = {ledger[i].serial : i \in at} /\ ks \subseteq 1..issues /\ ks \in SUBSET Nat
    BY <1>1, <1>a
  <1>4. /\ caller' \in [Callers -> [does : {"nothing", "issue", "apply", "revoke"}, serials : SUBSET Nat]]
        /\ caller'[c].does = does /\ caller'[c].serials = ks
        /\ \A d \in Callers \ {c} : caller'[d] = caller[d]
        /\ caller[c].does = "nothing" /\ caller[c].serials = {}
    BY <1>0, <1>3 DEF GrantTypeOK, Between, Idle
  <1>5. GrantTypeOK'
    BY <1>0, <1>4 DEF GrantTypeOK
  <1>6. Numbered'
    <2>1. Distinct(ledger')
      BY <1>0, <1>2 DEF Numbered, Distinct
    <2>2. \A i \in DOMAIN ledger' : ledger'[i].id <= counter' /\ ledger'[i].serial \in 1..issues'
      BY <1>0, <1>2 DEF Numbered
    <2>3. \A d \in Callers : caller'[d].serials \subseteq 1..issues'
      BY <1>0, <1>3, <1>4 DEF Numbered
    <2>4. QED
      BY <1>0, <2>1, <2>2, <2>3 DEF Numbered
  <1>7. \A k : Ended(k)' <=> Ended(k)
    BY DEF Ended
  <1>8. \A d \in Callers : \A k : Pending(d, k)' => Pending(d, k) \/ k \in ks
    BY <1>4 DEF Pending
  <1>9. \A i \in DOMAIN ledger : ledger[i].serial \in ks => i \in at
    <2>1. Distinct(ledger)
      BY <1>0 DEF Numbered
    <2>2. QED
      BY <1>3, <2>1 DEF Distinct
  <1>10. Spent'
    <2>1. ASSUME NEW i \in DOMAIN ledger', NEW k \in Nat, ledger'[i].serial = k,
                 Ended(k)' \/ \E d \in Callers : Pending(d, k)'
          PROVE  ledger'[i].consumed
      <3>1. CASE k \in ks
        BY <1>2, <1>9, <2>1, <3>1
      <3>2. CASE k \notin ks
        BY <1>0, <1>2, <1>7, <1>8, <2>1, <3>2 DEF Spent
      <3>3. QED
        BY <3>1, <3>2
    <2>2. \A i \in DOMAIN saved', k \in Nat : saved'[i].serial = k /\ Ended(k)' => saved'[i].consumed
      BY <1>0, <1>7 DEF Spent
    <2>3. QED
      BY <2>1, <2>2 DEF Spent
  <1>11. ClearedOnce'
    <2>1. ASSUME does = "apply", NEW k \in ks
          PROVE  cleared[k] = 0 /\ \A d \in Callers : ~Pending(d, k)
      <3>1. PICK i \in at : ledger[i].serial = k
        BY <1>3
      <3>2. ~ledger[i].consumed /\ i \in DOMAIN ledger /\ k \in Nat
        BY <1>3, <2>1, <3>1
      <3>3. ~Ended(k) /\ \A d \in Callers : ~Pending(d, k)
        BY <1>0, <3>1, <3>2 DEF Spent
      <3>4. QED
        BY <3>3 DEF Ended
    <2>2. ASSUME NEW d \in Callers, NEW k \in 1..MaxIssued,
                 caller'[d].does = "apply" /\ k \in caller'[d].serials
          PROVE  /\ cleared'[k] = 0
                 /\ \A e \in Callers : caller'[e].does = "apply" /\ k \in caller'[e].serials => e = d
      <3>1. CASE d = c
        BY <1>4, <2>1, <2>2, <3>1 DEF Pending
      <3>2. CASE d # c
        <4>1. /\ caller[d].does = "apply" /\ k \in caller[d].serials /\ cleared[k] = 0
              /\ \A e \in Callers : caller[e].does = "apply" /\ k \in caller[e].serials => e = d
          BY <1>0, <1>4, <2>2, <3>2 DEF ClearedOnce
        <4>2. ~(does = "apply" /\ k \in ks)
          BY <2>1, <4>1 DEF Pending
        <4>3. QED
          BY <1>4, <4>1, <4>2
      <3>3. QED
        BY <3>1, <3>2
    <2>3. QED
      BY <1>0, <2>2 DEF ClearedOnce
  <1>12. QED
    BY <1>5, <1>6, <1>10, <1>11 DEF GrantInv

LEMMA ApplyStep ==
  ASSUME GrantInv, NEW c \in Callers, NEW b \in Blocks, ApplyGrant(c, b)
  PROVE  GrantInv'
  <1>1. PICK i \in Covering(b) : Spend(c, i)
    BY DEF ApplyGrant
  <1>2. i \in DOMAIN ledger /\ ~ledger[i].consumed
    BY <1>1 DEF Covering, Active
  <1>3. ledger \in Seq(Grant) /\ ledger[i] \in Grant /\ DOMAIN ledger = 1..Len(ledger)
    BY <1>2, ListsOfGrants DEF GrantInv, GrantTypeOK
  <1>4. [ledger[i] EXCEPT !.consumed = TRUE] \in Grant
    BY <1>3 DEF Grant
  <1>5. ledger' = [ledger EXCEPT ![i] = [ledger[i] EXCEPT !.consumed = TRUE]]
    BY <1>1 DEF Spend
  <1>6. ledger' \in Seq(Grant)
    BY <1>2, <1>3, <1>4, <1>5, ExceptSeq
  <1>7. /\ DOMAIN ledger' = DOMAIN ledger
        /\ \A j \in DOMAIN ledger \ {i} : ledger'[j] = ledger[j]
        /\ \A j \in {i} : ledger'[j] = [ledger[j] EXCEPT !.consumed = TRUE]
    BY <1>2, <1>3, <1>5
  <1>8. {ledger[j].serial : j \in {i}} = {ledger[i].serial}
    OBVIOUS
  <1>9. caller' = [caller EXCEPT ![c] = [does |-> "apply", serials |-> {ledger[j].serial : j \in {i}}]]
    BY <1>1, <1>8 DEF Spend, Hooked
  <1>10. /\ Between(c) /\ {i} \in SUBSET DOMAIN ledger
         /\ UNCHANGED <<counter, permit, saved, instant, issues, cleared, revoked, restarts>>
    BY <1>1, <1>2 DEF ApplyGrant, Spend
  <1>11. \A j \in {i} : ~ledger[j].consumed
    BY <1>2
  <1>12. QED
    BY <1>6, <1>7, <1>9, <1>10, <1>11, UsedUp

LEMMA RevokeStep ==
  ASSUME GrantInv, NEW c \in Callers, NEW id, Revoke(c, id)
  PROVE  GrantInv'
  <1>1. PICK at : at = {j \in DOMAIN ledger : ledger[j].id = id}
    OBVIOUS
  <1>2. /\ Between(c) /\ at \in SUBSET DOMAIN ledger
        /\ ledger' = [i \in DOMAIN ledger |->
                        IF i \in at THEN [ledger[i] EXCEPT !.consumed = TRUE] ELSE ledger[i]]
        /\ caller' = [caller EXCEPT ![c] =
                        [does |-> "revoke", serials |-> {ledger[i].serial : i \in at}]]
        /\ UNCHANGED <<counter, permit, saved, instant, issues, cleared, revoked, restarts>>
    BY <1>1 DEF Revoke, Hooked
  <1>3. PICK n \in Nat : n = Len(ledger) /\ DOMAIN ledger = 1..n
    BY ListsOfGrants DEF GrantInv
  <1>4. \A i \in 1..n : ledger'[i] \in Grant
    <2>1. \A i \in 1..n : ledger[i] \in Grant
      BY <1>3, ListsOfGrants DEF GrantInv
    <2>2. \A i \in 1..n : [ledger[i] EXCEPT !.consumed = TRUE] \in Grant
      BY <2>1 DEF Grant
    <2>3. QED
      BY <1>2, <1>3, <2>1, <2>2
  <1>5. ledger' \in [1..n -> Grant] /\ DOMAIN ledger' = DOMAIN ledger
    BY <1>2, <1>3, <1>4
  <1>6. ledger' \in Seq(Grant)
    BY <1>5, SeqDef
  <1>7. /\ \A i \in DOMAIN ledger \ at : ledger'[i] = ledger[i]
        /\ \A i \in at : ledger'[i] = [ledger[i] EXCEPT !.consumed = TRUE]
    BY <1>2
  <1>8. QED
    BY <1>2, <1>5, <1>6, <1>7, UsedUp

LEMMA WriteDownStep ==
  ASSUME GrantInv, NEW c \in Callers, WriteDown(c)
  PROVE  GrantInv'
  <1>0. GrantTypeOK /\ Numbered /\ Spent /\ ClearedOnce
    BY DEF GrantInv
  <1>1. /\ saved' = ledger /\ UNCHANGED <<ledger, counter, permit, instant, issues>>
        /\ caller' = [caller EXCEPT ![c] = Idle]
    BY DEF WriteDown
  <1>2. /\ caller' \in [Callers -> [does : {"nothing", "issue", "apply", "revoke"}, serials : SUBSET Nat]]
        /\ caller'[c].does = "nothing" /\ caller'[c].serials = {}
        /\ \A d \in Callers \ {c} : caller'[d] = caller[d]
    BY <1>0, <1>1 DEF GrantTypeOK, Idle
  <1>3. /\ cleared' \in [1..MaxIssued -> Nat]
        /\ \A k \in 1..MaxIssued : cleared'[k] =
              IF caller[c].does = "apply" /\ k \in caller[c].serials THEN cleared[k] + 1 ELSE cleared[k]
    BY <1>0 DEF WriteDown, GrantTypeOK
  <1>4. revoked' = IF caller[c].does = "revoke" THEN revoked \cup caller[c].serials ELSE revoked
    BY DEF WriteDown
  <1>5. issues \in Nat /\ MaxIssued \in Nat /\ issues <= MaxIssued /\ counter \in Nat
        /\ counter <= issues /\ \A k \in 1..issues : k \in 1..MaxIssued
    BY <1>0, GrantConstants DEF Numbered, GrantTypeOK
  <1>6. GrantTypeOK'
    BY <1>0, <1>1, <1>2, <1>3 DEF GrantTypeOK
  <1>7. Numbered'
    <2>1. \A i \in DOMAIN ledger : ledger[i].id <= issues
      <3>1. \A i \in DOMAIN ledger : ledger[i].id \in Nat
        BY <1>0, ListsOfGrants DEF Grant
      <3>2. QED
        BY <1>0, <1>5, <3>1 DEF Numbered
    <2>2. revoked' \subseteq 1..issues
      BY <1>0, <1>4 DEF Numbered
    <2>3. \A d \in Callers : caller'[d].serials \subseteq 1..issues
      BY <1>0, <1>2 DEF Numbered
    <2>4. \A k \in 1..MaxIssued : k > issues => cleared'[k] = 0
      <3>1. ASSUME NEW k \in 1..MaxIssued, k > issues PROVE k \notin caller[c].serials /\ cleared[k] = 0
        <4>1. k \notin 1..issues
          BY <1>5, <3>1
        <4>2. QED
          BY <1>0, <3>1, <4>1 DEF Numbered
      <3>2. QED
        BY <1>3, <3>1
    <2>5. QED
      BY <1>0, <1>1, <2>1, <2>2, <2>3, <2>4 DEF Numbered
  <1>8. \A k \in 1..issues : Ended(k)' => Ended(k) \/ Pending(c, k)
    BY <1>3, <1>4, <1>5 DEF Ended, Pending
  <1>9. \A d \in Callers : \A k : Pending(d, k)' => Pending(d, k)
    BY <1>2 DEF Pending
  <1>10. \A i \in DOMAIN ledger, k \in Nat :
            ledger[i].serial = k /\ (Ended(k)' \/ \E d \in Callers : Pending(d, k)') => ledger[i].consumed
    <2> SUFFICES ASSUME NEW i \in DOMAIN ledger, NEW k \in Nat, ledger[i].serial = k,
                        Ended(k)' \/ \E d \in Callers : Pending(d, k)'
                 PROVE  ledger[i].consumed
      OBVIOUS
    <2>1. k \in 1..issues
      BY <1>0 DEF Numbered
    <2>2. Ended(k) \/ \E d \in Callers : Pending(d, k)
      BY <1>8, <1>9, <2>1
    <2>3. QED
      BY <1>0, <2>2 DEF Spent
  <1>11. Spent'
    BY <1>1, <1>10 DEF Spent
  <1>12. ClearedOnce'
    <2>1. \A k \in 1..MaxIssued : cleared'[k] <= 1
      BY <1>0, <1>3 DEF ClearedOnce, GrantTypeOK
    <2>2. ASSUME NEW d \in Callers, NEW k \in 1..MaxIssued,
                 caller'[d].does = "apply", k \in caller'[d].serials
          PROVE  /\ cleared'[k] = 0
                 /\ \A e \in Callers : caller'[e].does = "apply" /\ k \in caller'[e].serials => e = d
      <3>1. d # c /\ caller'[d] = caller[d]
        BY <1>2, <2>2
      <3>2. cleared[k] = 0
            /\ \A e \in Callers : caller[e].does = "apply" /\ k \in caller[e].serials => e = d
        BY <1>0, <2>2, <3>1 DEF ClearedOnce
      <3>3. cleared'[k] = 0
        BY <1>3, <3>1, <3>2
      <3>4. QED
        BY <1>2, <3>2, <3>3
    <2>3. QED
      BY <2>1, <2>2 DEF ClearedOnce
  <1>13. QED
    BY <1>6, <1>7, <1>11, <1>12 DEF GrantInv

\* The next number is past every id that was restored, and is one of them or 0.
LEMMA SeqAfterIs ==
  ASSUME NEW gs \in Seq(Grant), NEW b \in Nat, b <= MaxIssued, \A i \in DOMAIN gs : gs[i].id <= b
  PROVE  /\ SeqAfter(gs) \in Nat /\ SeqAfter(gs) <= b
         /\ \A i \in DOMAIN gs : gs[i].id <= SeqAfter(gs)
  <1> DEFINE Ids == {gs[i].id : i \in DOMAIN gs} \cup {0}
             P(n) == /\ n = 0 \/ \E i \in DOMAIN gs : gs[i].id = n
                     /\ \A i \in DOMAIN gs : gs[i].id <= n
  <1>1. \A i \in DOMAIN gs : gs[i].id \in Nat
    <2>1. \A i \in DOMAIN gs : gs[i] \in Grant
      BY LenProperties, ElementOfSeq
    <2>2. QED
      BY <2>1 DEF Grant
  <1>2. Ids \subseteq Nat /\ Ids # {} /\ \A x \in Ids : x <= b
    BY <1>1
  <1>3. PICK m \in Ids : \A x \in Ids : x <= m
    BY <1>2, MaxOf
  <1>4. m \in 0..MaxIssued /\ P(m)
    BY <1>2, <1>3, GrantConstants
  <1>5. SeqAfter(gs) \in 0..MaxIssued /\ P(SeqAfter(gs))
    BY <1>4 DEF SeqAfter
  <1>6. QED
    BY <1>1, <1>5

LEMMA RestartStep ==
  ASSUME GrantInv, NEW p \in Permits, Restart(p)
  PROVE  GrantInv'
  <1>0. GrantTypeOK /\ Numbered /\ Spent /\ ClearedOnce
    BY DEF GrantInv
  <1>1. PICK keeps \in SUBSET DOMAIN saved :
            \E at \in [1..Cardinality(keeps) -> keeps] :
              /\ \A j, k \in DOMAIN at : j < k => at[j] < at[k]
              /\ ledger' = [k \in DOMAIN at |-> saved[at[k]]]
    BY DEF Restart, Restored
  <1>2. PICK at \in [1..Cardinality(keeps) -> keeps] :
              /\ \A j, k \in DOMAIN at : j < k => at[j] < at[k]
              /\ ledger' = [k \in DOMAIN at |-> saved[at[k]]]
    BY <1>1
  <1>3. PICK n \in Nat : n = Cardinality(keeps)
    <2>1. IsFiniteSet(DOMAIN saved)
      BY <1>0, ListsOfGrants, FS_Interval
    <2>2. QED
      BY <2>1, FS_Subset, FS_CardinalityType
  <1>4. /\ DOMAIN at = 1..n /\ DOMAIN ledger' = 1..n
        /\ \A k \in 1..n : at[k] \in DOMAIN saved /\ ledger'[k] = saved[at[k]]
    BY <1>2, <1>3
  <1>5. \A j, k \in 1..n : at[j] = at[k] => j = k
    <2> SUFFICES ASSUME NEW j \in 1..n, NEW k \in 1..n, at[j] = at[k], j # k PROVE FALSE
      OBVIOUS
    <2>1. at[j] \in Nat
      BY <1>0, <1>4, ListsOfGrants
    <2>2. j < k \/ k < j
      OBVIOUS
    <2>3. at[j] < at[k] \/ at[k] < at[j]
      BY <1>2, <1>4, <2>2
    <2>4. QED
      BY <2>1, <2>3
  <1>6. ledger' \in Seq(Grant)
    <2>1. \A k \in 1..n : ledger'[k] \in Grant
      BY <1>0, <1>4, ListsOfGrants
    <2>2. ledger' \in [1..n -> Grant]
      BY <1>2, <1>4, <2>1
    <2>3. QED
      BY <2>2, SeqDef
  <1>7. /\ issues \in Nat /\ issues <= MaxIssued
        /\ \A k \in DOMAIN ledger' : ledger'[k].id <= issues /\ ledger'[k].serial \in 1..issues
    BY <1>0, <1>4 DEF Numbered, GrantTypeOK
  <1>8. /\ counter' \in Nat /\ counter' <= issues
        /\ \A k \in DOMAIN ledger' : ledger'[k].id <= counter'
    <2>1. counter' = SeqAfter(ledger')
      BY DEF Restart
    <2>2. QED
      BY <1>6, <1>7, <2>1, SeqAfterIs
  <1>9. /\ UNCHANGED <<saved, instant, issues, cleared, revoked>> /\ permit' \in Permits
        /\ caller' = [c \in Callers |-> Idle]
    BY DEF Restart
  <1>10. \A c \in Callers : caller'[c].does = "nothing" /\ caller'[c].serials = {}
    BY <1>9 DEF Idle
  <1>11. GrantTypeOK'
    <2>1. caller' \in [Callers -> [does : {"nothing", "issue", "apply", "revoke"}, serials : SUBSET Nat]]
      BY <1>9 DEF Idle
    <2>2. QED
      BY <1>0, <1>6, <1>8, <1>9, <2>1 DEF GrantTypeOK
  <1>12. Distinct(ledger')
    <2>1. Distinct(saved)
      BY <1>0 DEF Numbered
    <2>2. QED
      BY <1>4, <1>5, <2>1 DEF Distinct
  <1>13. Numbered'
    BY <1>0, <1>7, <1>8, <1>9, <1>10, <1>12 DEF Numbered
  <1>14. Spent'
    <2>1. \A k : Ended(k)' <=> Ended(k)
      BY <1>9 DEF Ended
    <2>2. \A c \in Callers : \A k : ~Pending(c, k)'
      BY <1>10 DEF Pending
    <2>3. \A i \in DOMAIN saved, k \in Nat : saved[i].serial = k /\ Ended(k) => saved[i].consumed
      BY <1>0 DEF Spent
    <2>4. \A i \in DOMAIN ledger', k \in Nat :
             ledger'[i].serial = k /\ Ended(k) => ledger'[i].consumed
      BY <1>4, <2>3
    <2>5. QED
      BY <1>9, <2>1, <2>2, <2>3, <2>4 DEF Spent
  <1>15. ClearedOnce'
    BY <1>0, <1>9, <1>10 DEF ClearedOnce
  <1>16. QED
    BY <1>11, <1>13, <1>14, <1>15 DEF GrantInv

LEMMA GrantStep == GrantInv /\ [GrantNext]_grantVars => GrantInv'
  <1> SUFFICES ASSUME GrantInv, [GrantNext]_grantVars PROVE GrantInv'
    OBVIOUS
  <1>1. ASSUME UNCHANGED <<ledger, counter, caller, saved, issues, cleared, revoked>>,
               permit' \in Permits, instant' \in Nat
        PROVE  GrantInv'
    BY <1>1 DEF GrantInv, GrantTypeOK, Numbered, Spent, ClearedOnce, Distinct, Ended, Pending
  <1>2. ASSUME NEW p \in Permits, SetPolicy(p) PROVE GrantInv'
    BY <1>1, <1>2 DEF SetPolicy, GrantInv, GrantTypeOK
  <1>3. CASE InstantPasses
    BY <1>1, <1>3 DEF InstantPasses, GrantInv, GrantTypeOK
  <1>4. CASE UNCHANGED grantVars
    BY <1>1, <1>4 DEF grantVars, GrantInv, GrantTypeOK
  <1>5. QED
    BY <1>2, <1>3, <1>4, IssueStep, ApplyStep, RevokeStep, WriteDownStep, RestartStep DEF GrantNext

LEMMA GrantsGoverned == GrantSpec => []GrantInv
  BY GrantStart, GrantStep, PTL DEF GrantSpec

\* A single-use grant answers one decision, and an answered revocation holds, over
\* any number of callers, grants and restarts (Apply, Revoke, Restore).
THEOREM SpentStaysSpent == GrantSpec => []OverIsOver
  <1>1. GrantInv => OverIsOver
    <2> SUFFICES ASSUME GrantInv PROVE OverIsOver
      OBVIOUS
    <2>1. \A k \in 1..issues : k \in 1..MaxIssued
      BY GrantConstants DEF GrantInv, Numbered, GrantTypeOK
    <2>2. \A i \in DOMAIN ledger : ledger[i].serial \in Nat
      BY ListsOfGrants DEF GrantInv, Grant
    <2>3. QED
      BY <2>1, <2>2 DEF GrantInv, ClearedOnce, Spent, Ended, OverIsOver
  <1>2. QED
    BY <1>1, GrantsGoverned, PTL

\* An id names one grant of the ledger, over any restarts and policies (seqAfter).
THEOREM IdsAreUnique == GrantSpec => []UniqueIds
  <1>1. GrantInv => UniqueIds
    BY DEF GrantInv, Numbered, Distinct, UniqueIds
  <1>2. QED
    BY <1>1, GrantsGoverned, PTL

-----------------------------------------------------------------------------
\* Notices
(***************************************************************************)
(* Notices: the watermark is past what was missed, a claim is made once.   *)
(***************************************************************************)
Delivery == [state : {"uncertain", "submitted", "failed"},
             activated : BOOLEAN, acknowledged : BOOLEAN, shown : Nat]
NoticeTypeOK ==
    /\ events \subseteq Sequences
    /\ bell \in [enabled : BOOLEAN, after : Nat, quiet : BOOLEAN, muted : BOOLEAN]
    /\ delivery \in [DOMAIN delivery -> Delivery]
    /\ notifier \in [Notifiers -> [pc : {"rest", "claim", "show", "report"}, id : Nat]]

\* Only an event that is kept has a notice, only a notice a delivery.
Rooted ==
    /\ DOMAIN notice \subseteq events
    /\ DOMAIN delivery \subseteq DOMAIN notice
    /\ missed \subseteq DOMAIN notice \ DOMAIN delivery

\* The mark is past what was missed, and no further than the events.
Marked == bell.after <= Latest /\ \A n \in missed : n <= bell.after

\* A host that has claimed a notice is the only one to show it, and has not yet.
ShownOnce ==
    /\ \A h \in Notifiers :
          /\ notifier[h].pc = "claim" => notifier[h].id \in DOMAIN notice
          /\ notifier[h].pc \in {"show", "report"} => notifier[h].id \in DOMAIN delivery
          /\ notifier[h].pc = "show" => delivery[notifier[h].id].shown = 0
    /\ \A g, h \in Notifiers :
          notifier[g].pc = "show" /\ notifier[h].pc = "show" /\ notifier[g].id = notifier[h].id
             => g = h
    /\ \A n \in DOMAIN delivery : delivery[n].shown <= 1

NoticeInv == NoticeTypeOK /\ Rooted /\ Marked /\ ShownOnce

LEMMA LatestIs ==
  ASSUME events \subseteq Sequences
  PROVE  /\ Latest \in Nat /\ Latest \in events \cup {0}
         /\ \A e \in events : e \in Nat /\ e <= Latest
  <1>1. events \cup {0} \subseteq Nat /\ \A x \in events \cup {0} : x <= MaxEvents
    BY NoticeConstants DEF Sequences
  <1>2. Max(events \cup {0}) \in events \cup {0}
        /\ \A x \in events \cup {0} : x <= Max(events \cup {0})
    BY <1>1, MaxOf, NoticeConstants
  <1>3. QED
    BY <1>1, <1>2 DEF Latest

\* A new event is later than all, and compaction spares the latest.
LEMMA LatestGrows ==
  ASSUME events \subseteq Sequences, Records \/ (\E e \in Prunable : events' = events \ {e})
  PROVE  events' \subseteq Sequences /\ Latest <= Latest' /\ Latest' \in Nat
  <1>1. events' \subseteq Sequences
    BY DEF Records, Prunable
  <1>2. /\ Latest \in Nat /\ Latest \in events \cup {0}
        /\ \A e \in events : e \in Nat /\ e <= Latest
    BY LatestIs
  <1>3. /\ Latest' \in Nat /\ \A e \in events' : e \in Nat /\ e <= Latest'
    <2>1. \A S : S \subseteq Sequences => /\ Max(S \cup {0}) \in Nat
                                        /\ \A e \in S : e \in Nat /\ e <= Max(S \cup {0})
      <3> SUFFICES ASSUME NEW S, S \subseteq Sequences
                   PROVE  /\ Max(S \cup {0}) \in Nat
                          /\ \A e \in S : e \in Nat /\ e <= Max(S \cup {0})
        OBVIOUS
      <3>1. S \cup {0} \subseteq Nat /\ \A x \in S \cup {0} : x <= MaxEvents
        BY NoticeConstants DEF Sequences
      <3>2. Max(S \cup {0}) \in S \cup {0}
            /\ \A x \in S \cup {0} : x <= Max(S \cup {0})
        BY <3>1, MaxOf, NoticeConstants
      <3>3. QED
        BY <3>1, <3>2
    <2>2. QED
      BY <1>1, <2>1 DEF Latest
  <1>4. CASE Records
    <2>1. Latest + 1 \in events'
      BY <1>4 DEF Records, NextSequence
    <2>2. QED
      BY <1>1, <1>2, <1>3, <2>1
  <1>5. CASE \E e \in Prunable : events' = events \ {e}
    <2>1. Latest \in events' \/ Latest = 0
      BY <1>2, <1>5 DEF Prunable
    <2>2. QED
      BY <1>1, <1>2, <1>3, <2>1
  <1>6. QED
    BY <1>4, <1>5

LEMMA NoticeStart == NoticeInit => NoticeInv
  <1> SUFFICES ASSUME NoticeInit PROVE NoticeInv
    OBVIOUS
  <1> USE DEF NoticeInit
  <1>1. events \subseteq Sequences /\ DOMAIN notice = {} /\ DOMAIN delivery = {}
    OBVIOUS
  <1>2. Latest \in Nat
    BY <1>1, LatestIs
  <1>3. Marked
    BY <1>2 DEF Marked
  <1>4. NoticeTypeOK
    BY DEF NoticeTypeOK, AtRest
  <1>5. QED
    BY <1>1, <1>3, <1>4 DEF NoticeInv, Rooted, ShownOnce, AtRest

LEMMA NoticeStep == NoticeInv /\ [NoticeNext]_noticeVars => NoticeInv'
  <1> SUFFICES ASSUME NoticeInv, [NoticeNext]_noticeVars PROVE NoticeInv'
    OBVIOUS
  <1>0. events \subseteq Sequences /\ NoticeTypeOK /\ Rooted /\ Marked /\ ShownOnce
    BY DEF NoticeInv, NoticeTypeOK
  <1>1. /\ Latest \in Nat /\ \A e \in events : e \in Nat /\ e <= Latest
    BY <1>0, LatestIs
  <1>2. ASSUME Records PROVE events' \subseteq Sequences /\ Latest <= Latest' /\ Latest' \in Nat
                             /\ events \subseteq events'
    BY <1>0, <1>2, LatestGrows DEF Records
  <1>3. ASSUME Records, DOMAIN notice' = DOMAIN notice, UNCHANGED <<bell, delivery, notifier, missed>>
        PROVE  NoticeInv'
    <2>1. NoticeTypeOK' /\ Rooted' /\ ShownOnce'
      BY <1>0, <1>2, <1>3 DEF NoticeTypeOK, Rooted, ShownOnce
    <2>2. Marked'
      BY <1>0, <1>1, <1>2, <1>3 DEF Marked, NoticeTypeOK
    <2>3. QED
      BY <2>1, <2>2 DEF NoticeInv
  <1>4. ASSUME NEW n \in DOMAIN notice, UpdateNotice(n) PROVE NoticeInv'
    BY <1>3, <1>4 DEF UpdateNotice
  <1>5. CASE SubjectMoves
    BY <1>3, <1>5 DEF SubjectMoves
  <1>6. ASSUME NEW source \in 1..subject.task, Raise(source) PROVE NoticeInv'
    <2>1. /\ Records /\ UNCHANGED <<bell, delivery, notifier, missed>>
          /\ DOMAIN notice' = DOMAIN notice \cup {NextSequence} /\ NextSequence \in events'
          /\ NextSequence \notin events
      BY <1>1, <1>6 DEF Raise, NewRow, Records, NextSequence
    <2>2. NoticeTypeOK' /\ Rooted' /\ ShownOnce'
      BY <1>0, <1>2, <2>1 DEF NoticeTypeOK, Rooted, ShownOnce
    <2>3. Marked'
      BY <1>0, <1>1, <1>2, <2>1 DEF Marked, NoticeTypeOK
    <2>4. QED
      BY <2>2, <2>3 DEF NoticeInv
  <1>7. ASSUME UNCHANGED <<events, notice, bell, delivery, notifier, missed>> PROVE NoticeInv'
    BY <1>0, <1>7 DEF NoticeInv, NoticeTypeOK, Rooted, Marked, ShownOnce, Latest
  <1>8. CASE SubjectLapses \/ HourPasses
    BY <1>7, <1>8 DEF SubjectLapses, HourPasses
  <1>9. ASSUME NEW enabled \in BOOLEAN, NEW quiet \in BOOLEAN, NEW muted \in BOOLEAN,
               PutBell(enabled, quiet, muted)
        PROVE  NoticeInv'
    <2>1. /\ Records /\ UNCHANGED <<notice, delivery, notifier>>
          /\ bell' = [enabled |-> enabled, after |-> Watermark(enabled), quiet |-> quiet,
                      muted |-> muted]
      BY <1>9 DEF PutBell
    <2>2. Watermark(enabled) \in Nat /\ bell.after <= Latest /\ bell.after \in Nat
      BY <1>0, <1>1 DEF Watermark, Marked, NoticeTypeOK
    <2>3. bell'.after = Watermark(enabled)
      BY <2>1
    <2>4. NoticeTypeOK' /\ ShownOnce'
      BY <1>0, <1>2, <2>1, <2>2 DEF NoticeTypeOK, ShownOnce
    <2>5. CASE enabled /\ ~bell.enabled
      <3>1. bell'.after = Latest /\ missed' = missed \cup (DOMAIN notice \ DOMAIN delivery)
        BY <1>9, <2>3, <2>5 DEF Watermark, PutBell
      <3>2. Rooted'
        BY <1>0, <1>2, <2>1, <3>1 DEF Rooted
      <3>3. Marked'
        BY <1>0, <1>1, <1>2, <2>1, <3>1 DEF Marked, Rooted
      <3>4. QED
        BY <2>4, <3>2, <3>3 DEF NoticeInv
    <2>6. CASE ~(enabled /\ ~bell.enabled)
      <3>1. bell'.after = bell.after /\ missed' = missed
        BY <1>9, <2>3, <2>6 DEF Watermark, PutBell
      <3>2. Rooted'
        BY <1>0, <1>2, <2>1, <3>1 DEF Rooted
      <3>3. Marked'
        BY <1>0, <1>1, <1>2, <2>1, <2>2, <3>1 DEF Marked
      <3>4. QED
        BY <2>4, <3>2, <3>3 DEF NoticeInv
    <2>7. QED
      BY <2>5, <2>6
  <1>10. CASE PruneEvents
    <2>1. UNCHANGED <<notice, bell, delivery, notifier, missed>>
          /\ \E e \in Prunable : events' = events \ {e}
      BY <1>10 DEF PruneEvents
    <2>2. events' \subseteq Sequences /\ Latest <= Latest' /\ Latest' \in Nat
      BY <1>0, <2>1, LatestGrows
    <2>3. NoticeTypeOK' /\ Rooted' /\ ShownOnce'
      BY <1>0, <2>1, <2>2 DEF NoticeTypeOK, Rooted, ShownOnce, Prunable
    <2>4. Marked'
      BY <1>0, <1>1, <2>1, <2>2 DEF Marked, NoticeTypeOK
    <2>5. QED
      BY <2>3, <2>4 DEF NoticeInv
  <1>11. ASSUME NEW n \in DOMAIN delivery, Activate(n) \/ Acknowledge(n) PROVE NoticeInv'
    <2>1. /\ Records /\ UNCHANGED <<notice, bell, notifier, missed>>
          /\ \/ delivery' = [delivery EXCEPT ![n].activated = TRUE]
             \/ delivery' = [delivery EXCEPT ![n].acknowledged = TRUE]
      BY <1>11 DEF Activate, Acknowledge
    <2>2. delivery[n] \in Delivery
      BY <1>0 DEF NoticeTypeOK
    <2>3. /\ DOMAIN delivery' = DOMAIN delivery /\ delivery'[n] \in Delivery
          /\ delivery'[n].shown = delivery[n].shown
          /\ \A m \in DOMAIN delivery \ {n} : delivery'[m] = delivery[m]
      <3>1. CASE delivery' = [delivery EXCEPT ![n].activated = TRUE]
        BY <2>2, <3>1 DEF Delivery
      <3>2. CASE delivery' = [delivery EXCEPT ![n].acknowledged = TRUE]
        BY <2>2, <3>2 DEF Delivery
      <3>3. QED
        BY <2>1, <3>1, <3>2
    <2>4. delivery' \in [DOMAIN delivery' -> Delivery]
      BY <1>0, <2>1, <2>2, <2>3 DEF NoticeTypeOK
    <2>5. NoticeTypeOK' /\ Rooted'
      BY <1>0, <1>2, <2>1, <2>3, <2>4 DEF NoticeTypeOK, Rooted
    <2>6. ShownOnce'
      BY <1>0, <2>1, <2>3 DEF ShownOnce
    <2>7. Marked'
      BY <1>0, <1>1, <1>2, <2>1 DEF Marked, NoticeTypeOK
    <2>8. QED
      BY <2>5, <2>6, <2>7 DEF NoticeInv
  <1>12. ASSUME NEW h \in Notifiers, NotifierStep(h) PROVE NoticeInv'
    <2> DEFINE Errand == [pc : {"rest", "claim", "show", "report"}, id : Nat]
    <2>0. notifier \in [Notifiers -> Errand] /\ notifier[h] \in Errand /\ AtRest \in Errand
      BY <1>0 DEF NoticeTypeOK, AtRest
    <2>1. ASSUME NEW n \in DOMAIN notice, NEW night \in BOOLEAN, ListPending(h, n, night)
          PROVE  NoticeInv'
      <3>1. n \in Nat /\ [pc |-> "claim", id |-> n] \in Errand
        BY <1>0, <1>1 DEF Rooted
      <3>2. /\ UNCHANGED <<events, notice, bell, delivery, missed>>
            /\ notifier'[h] = [pc |-> "claim", id |-> n] /\ notifier' \in [Notifiers -> Errand]
            /\ \A g \in Notifiers \ {h} : notifier'[g] = notifier[g]
        BY <2>0, <2>1, <3>1 DEF ListPending
      <3>3. NoticeTypeOK' /\ Rooted' /\ Marked'
        BY <1>0, <3>2 DEF NoticeTypeOK, Rooted, Marked, Latest
      <3>4. ShownOnce'
        BY <1>0, <3>2 DEF ShownOnce
      <3>5. QED
        BY <3>3, <3>4 DEF NoticeInv
    <2>2. ASSUME NEW night \in BOOLEAN, NEW heard \in BOOLEAN, ClaimNotice(h, night, heard)
          PROVE  NoticeInv'
      <3> DEFINE row == [state |-> "uncertain", activated |-> FALSE, acknowledged |-> FALSE,
                         shown |-> 0]
      <3>1. PICK n \in Nat : n = notifier[h].id
        BY <2>0
      <3>2. /\ Records /\ UNCHANGED <<notice, bell, missed>> /\ n \notin DOMAIN delivery
            /\ n > bell.after /\ n \in DOMAIN notice /\ notifier[h].pc = "claim"
            /\ delivery' = NewRow(delivery, n, row)
        BY <1>0, <2>2, <3>1 DEF ClaimNotice, Eligible, ShownOnce
      <3>3. /\ DOMAIN delivery' = DOMAIN delivery \cup {n} /\ delivery'[n] = row
            /\ \A m \in DOMAIN delivery : delivery'[m] = delivery[m]
        BY <3>2 DEF NewRow
      <3>4. row \in Delivery /\ row.shown = 0
        BY DEF Delivery
      <3> HIDE DEF row
      <3>5. delivery' \in [DOMAIN delivery' -> Delivery]
        <4>1. \A m \in DOMAIN delivery' : delivery'[m] \in Delivery
          BY <1>0, <3>3, <3>4 DEF NoticeTypeOK
        <4>2. QED
          BY <3>2, <4>1 DEF NewRow
      <3>6. /\ \A g \in Notifiers \ {h} : notifier'[g] = notifier[g]
            /\ notifier' \in [Notifiers -> Errand] /\ notifier'[h].id = n
            /\ notifier'[h].pc \in {"claim", "show"}
        <4>1. notifier' = notifier \/ notifier' = [notifier EXCEPT ![h].pc = "show"]
          BY <2>2 DEF ClaimNotice
        <4>2. [notifier[h] EXCEPT !.pc = "show"] \in Errand
          BY <2>0
        <4>3. QED
          BY <2>0, <3>1, <3>2, <4>1, <4>2
      <3>7. NoticeTypeOK'
        BY <1>0, <1>2, <3>2, <3>5, <3>6 DEF NoticeTypeOK
      <3>8. Marked'
        BY <1>0, <1>1, <1>2, <3>2 DEF Marked, NoticeTypeOK
      <3>9. Rooted'
        <4>1. n \notin missed
          BY <1>0, <3>1, <3>2 DEF Marked, NoticeTypeOK
        <4>2. QED
          BY <1>0, <1>2, <3>2, <3>3, <4>1 DEF Rooted
      <3>10. ShownOnce'
        BY <1>0, <3>2, <3>3, <3>4, <3>6 DEF ShownOnce
      <3>11. QED
        BY <3>7, <3>8, <3>9, <3>10 DEF NoticeInv
    <2>3. ASSUME UNCHANGED <<events, notice, bell, delivery, missed>>,
                 notifier' = [notifier EXCEPT ![h] = AtRest]
          PROVE  NoticeInv'
      <3>1. /\ notifier'[h].pc = "rest" /\ notifier' \in [Notifiers -> Errand]
            /\ \A g \in Notifiers \ {h} : notifier'[g] = notifier[g]
        BY <2>0, <2>3 DEF AtRest
      <3>2. NoticeTypeOK' /\ Rooted' /\ Marked'
        BY <1>0, <2>3, <3>1 DEF NoticeTypeOK, Rooted, Marked, Latest
      <3>3. ShownOnce'
        BY <1>0, <2>3, <3>1 DEF ShownOnce
      <3>4. QED
        BY <3>2, <3>3 DEF NoticeInv
    <2>4. ASSUME NEW night \in BOOLEAN, ClaimRefusedNotice(h, night) PROVE NoticeInv'
      BY <2>3, <2>4 DEF ClaimRefusedNotice
    <2>5. CASE NotifierDies(h)
      BY <2>3, <2>5 DEF NotifierDies
    <2>6. CASE ShowBanner(h)
      <3>1. PICK n \in DOMAIN delivery : n = notifier[h].id
        BY <1>0, <2>6 DEF ShowBanner, ShownOnce
      <3>2. /\ notifier[h].pc = "show" /\ delivery[n] \in Delivery /\ delivery[n].shown = 0
            /\ UNCHANGED <<events, notice, bell, missed>>
            /\ delivery' = [delivery EXCEPT ![n].shown = @ + 1]
            /\ notifier' = [notifier EXCEPT ![h].pc = "report"]
        BY <1>0, <2>6, <3>1 DEF ShowBanner, ShownOnce, NoticeTypeOK
      <3>3. /\ DOMAIN delivery' = DOMAIN delivery /\ delivery'[n] \in Delivery
            /\ delivery'[n].shown = 1
            /\ \A m \in DOMAIN delivery \ {n} : delivery'[m] = delivery[m]
        BY <3>2 DEF Delivery
      <3>4. delivery' \in [DOMAIN delivery' -> Delivery]
        BY <1>0, <3>2, <3>3 DEF NoticeTypeOK
      <3>5. [notifier[h] EXCEPT !.pc = "report"] \in Errand
        BY <2>0
      <3>6. /\ notifier'[h].pc = "report" /\ notifier'[h].id = n
            /\ notifier' \in [Notifiers -> Errand]
            /\ \A g \in Notifiers \ {h} : notifier'[g] = notifier[g]
        BY <2>0, <3>1, <3>2, <3>5
      <3>7. NoticeTypeOK' /\ Rooted' /\ Marked'
        BY <1>0, <3>2, <3>3, <3>4, <3>6 DEF NoticeTypeOK, Rooted, Marked, Latest
      <3>8. \A g \in Notifiers \ {h} : notifier[g].pc = "show" => notifier[g].id # n
        BY <1>0, <3>1, <3>2 DEF ShownOnce
      <3>9. ShownOnce'
        BY <1>0, <3>2, <3>3, <3>6, <3>8 DEF ShownOnce
      <3>10. QED
        BY <3>7, <3>9 DEF NoticeInv
    <2>7. ASSUME NEW state \in {"submitted", "failed"}, FinishDelivery(h, state) PROVE NoticeInv'
      <3>1. PICK n \in DOMAIN delivery : n = notifier[h].id
        BY <1>0, <2>7 DEF FinishDelivery, ShownOnce
      <3>2. /\ delivery[n] \in Delivery /\ Records
            /\ UNCHANGED <<notice, bell, missed>>
            /\ delivery' = [delivery EXCEPT ![n].state = state]
            /\ notifier' = [notifier EXCEPT ![h] = AtRest]
        BY <1>0, <2>7, <3>1 DEF FinishDelivery, NoticeTypeOK
      <3>3. /\ DOMAIN delivery' = DOMAIN delivery /\ delivery'[n] \in Delivery
            /\ delivery'[n].shown = delivery[n].shown
            /\ \A m \in DOMAIN delivery \ {n} : delivery'[m] = delivery[m]
        BY <3>2 DEF Delivery
      <3>4. delivery' \in [DOMAIN delivery' -> Delivery]
        BY <1>0, <3>2, <3>3 DEF NoticeTypeOK
      <3>5. /\ notifier'[h].pc = "rest" /\ notifier' \in [Notifiers -> Errand]
            /\ \A g \in Notifiers \ {h} : notifier'[g] = notifier[g]
        BY <2>0, <3>2 DEF AtRest
      <3>6. NoticeTypeOK' /\ Rooted'
        BY <1>0, <1>2, <3>2, <3>3, <3>4, <3>5 DEF NoticeTypeOK, Rooted
      <3>7. Marked'
        BY <1>0, <1>1, <1>2, <3>2 DEF Marked, NoticeTypeOK
      <3>8. ShownOnce'
        BY <1>0, <3>2, <3>3, <3>5 DEF ShownOnce
      <3>9. QED
        BY <3>6, <3>7, <3>8 DEF NoticeInv
    <2>8. QED
      BY <1>12, <2>1, <2>2, <2>4, <2>5, <2>6, <2>7 DEF NotifierStep
  <1>13. CASE UNCHANGED noticeVars
    BY <1>7, <1>13 DEF noticeVars
  <1>14. QED
    BY <1>4, <1>5, <1>6, <1>8, <1>9, <1>10, <1>11, <1>12, <1>13 DEF NoticeNext

\* Nothing that was missed while notifications were off is ever shown, and nothing
\* twice, for any number of hosts, events, hours and losses (put, claim, finish).
THEOREM BannersAreWanted == NoticeSpec => []BannersWanted
  <1>1. NoticeInv => BannersWanted
    BY DEF NoticeInv, Rooted, ShownOnce, BannersWanted
  <1>2. QED
    BY <1>1, NoticeStart, NoticeStep, PTL DEF NoticeSpec

-----------------------------------------------------------------------------
\* Endpoint
\* A process that has got past the opening has a lock file open.
HasOpened == \A s \in Servers : phase[s] \notin {"new", "over"} => opened[s] \in Servers

\* flock: one process at a time for a file.
OneLocker == \A r, s \in Servers :
    Locked(r) /\ Locked(s) /\ opened[r] = opened[s] => r = s

\* From taking the lock to removing its file, the file has the lock's path.
LockNamed == \A s \in Servers : Locked(s) => opened[s] = named \/ phase[s] = "release"

\* Nobody but its owner touches a socket between its bind and its removal.
SocketKept == \A s \in Servers :
    phase[s] \in {"listen", "permit", "serve", "stop"} => socket = s

EndpointInv ==
    /\ EndpointTypeOK
    /\ HasOpened
    /\ OneLocker
    /\ detached = {} => LockNamed /\ SocketKept

\* While no name was lost, at most one process is between lock and removal.
LEMMA OneOwner ==
    ASSUME EndpointInv, detached = {},
           NEW r \in Servers, NEW s \in Servers,
           Locked(r), phase[r] # "release", Locked(s), phase[s] # "release"
    PROVE  r = s
BY DEF EndpointInv, OneLocker, LockNamed

LEMMA EndpointStart == EndpointInit => EndpointInv
BY EndpointConstants
   DEF EndpointInit, EndpointInv, EndpointTypeOK, HasOpened, OneLocker, LockNamed,
       SocketKept, Locked, Phases

LEMMA TypeStep == EndpointTypeOK /\ [EndpointNext]_endpointVars => EndpointTypeOK'
<1> SUFFICES ASSUME EndpointTypeOK, [EndpointNext]_endpointVars PROVE EndpointTypeOK'
  OBVIOUS
<1> USE DEF EndpointTypeOK, Phases, Goes
<1>1. ASSUME NEW s \in Servers, OpenLock(s) PROVE EndpointTypeOK'
  BY <1>1 DEF OpenLock
<1>2. ASSUME NEW s \in Servers, TryLock(s) \/ LockRefused(s) PROVE EndpointTypeOK'
  BY <1>2 DEF TryLock, LockRefused
<1>3. ASSUME NEW s \in Servers, CheckPath(s) \/ Probe(s) \/ RemoveStale(s) PROVE EndpointTypeOK'
  BY <1>3 DEF CheckPath, Probe, RemoveStale
<1>4. ASSUME NEW s \in Servers, Bind(s) \/ Listen(s) \/ Permit(s) PROVE EndpointTypeOK'
  BY <1>4 DEF Bind, Listen, Permit
<1>5. ASSUME NEW s \in Servers, StopServing(s) \/ DropSocket(s) \/ DropName(s)
      PROVE  EndpointTypeOK'
  BY <1>5 DEF StopServing, DropSocket, DropName
<1>6. ASSUME NEW s \in Servers, Release(s) \/ Killed(s) PROVE EndpointTypeOK'
  BY <1>6 DEF Release, Killed
<1>7. CASE UNCHANGED endpointVars
  BY <1>7 DEF endpointVars
<1>8. QED
  BY <1>1, <1>2, <1>3, <1>4, <1>5, <1>6, <1>7 DEF EndpointNext

\* A step that keeps files, names and sockets, and takes its process to a phase
\* that has the lock only if it had it.
LEMMA QuietStep ==
    ASSUME EndpointInv, NEW s \in Servers, NEW next \in Phases,
           Goes(s, next), UNCHANGED <<opened, named, socket, detached>>,
           phase[s] \notin {"new", "over"},
           Locked(s)' => Locked(s) /\ phase[s] # "release",
           next \in {"listen", "permit", "serve", "stop"} =>
               phase[s] \in {"listen", "permit", "serve", "stop"}
    PROVE  EndpointInv'
<1>1. EndpointTypeOK'
  BY DEF EndpointInv, EndpointTypeOK, Goes
<1>2. HasOpened'
  BY DEF EndpointInv, EndpointTypeOK, HasOpened, Goes
<1>3. OneLocker'
  BY DEF EndpointInv, EndpointTypeOK, OneLocker, Locked, Goes
<1>4. ASSUME detached' = {} PROVE LockNamed' /\ SocketKept'
  BY <1>4 DEF EndpointInv, EndpointTypeOK, LockNamed, SocketKept, Locked, Goes
<1>5. QED
  BY <1>1, <1>2, <1>3, <1>4 DEF EndpointInv

LEMMA LockingKeeps ==
    ASSUME EndpointInv, NEW s \in Servers, OpenLock(s) \/ TryLock(s), EndpointTypeOK'
    PROVE  EndpointInv'
<1>1. CASE OpenLock(s)
  <2>1. HasOpened'
    BY <1>1, EndpointConstants DEF EndpointInv, EndpointTypeOK, HasOpened, OpenLock, Goes
  <2>2. OneLocker'
    BY <1>1 DEF EndpointInv, EndpointTypeOK, OneLocker, Locked, OpenLock, Goes
  <2>3. ASSUME detached' = {} PROVE LockNamed' /\ SocketKept'
    BY <1>1, <2>3, EndpointConstants
       DEF EndpointInv, EndpointTypeOK, HasOpened, LockNamed, SocketKept, Locked, OpenLock, Goes
  <2>4. QED
    BY <2>1, <2>2, <2>3 DEF EndpointInv
<1>2. CASE TryLock(s)
  <2>1. HasOpened'
    BY <1>2 DEF EndpointInv, EndpointTypeOK, HasOpened, TryLock, Goes
  <2>2. OneLocker'
    BY <1>2 DEF EndpointInv, EndpointTypeOK, OneLocker, Locked, Contended, TryLock, Goes
  <2>3. ASSUME detached' = {} PROVE LockNamed' /\ SocketKept'
    <3>1. detached = {} /\ opened[s] = named
      BY <1>2, <2>3 DEF TryLock
    <3>2. QED
      BY <1>2, <3>1
         DEF EndpointInv, EndpointTypeOK, LockNamed, SocketKept, Locked, TryLock, Goes
  <2>4. QED
    BY <2>1, <2>2, <2>3 DEF EndpointInv
<1>3. QED
  BY <1>1, <1>2

LEMMA SocketMoves ==
    ASSUME EndpointInv, NEW s \in Servers, RemoveStale(s) \/ Bind(s) \/ DropSocket(s),
           EndpointTypeOK'
    PROVE  EndpointInv'
<1>1. HasOpened'
  BY DEF EndpointInv, EndpointTypeOK, HasOpened, RemoveStale, Bind, DropSocket, Goes
<1>2. OneLocker'
  BY DEF EndpointInv, EndpointTypeOK, OneLocker, Locked, RemoveStale, Bind, DropSocket, Goes
<1>3. ASSUME detached' = {} PROVE LockNamed' /\ SocketKept'
  <2>1. detached = {}
    BY <1>3 DEF RemoveStale, Bind, DropSocket
  <2>2. LockNamed'
    BY <2>1 DEF EndpointInv, EndpointTypeOK, LockNamed, Locked, RemoveStale, Bind, DropSocket, Goes
  <2>3. ASSUME NEW r \in Servers, r # s PROVE phase[r] \notin {"listen", "permit", "serve", "stop"}
    BY <2>1, <2>3, OneOwner DEF Locked, RemoveStale, Bind, DropSocket
  <2>4. SocketKept'
    BY <2>1, <2>3 DEF EndpointInv, EndpointTypeOK, SocketKept, RemoveStale, Bind, DropSocket, Goes
  <2>5. QED
    BY <2>2, <2>4
<1>4. QED
  BY <1>1, <1>2, <1>3 DEF EndpointInv

LEMMA NameGoes ==
    ASSUME EndpointInv, NEW s \in Servers, DropName(s), EndpointTypeOK'
    PROVE  EndpointInv'
<1>1. HasOpened'
  BY DEF EndpointInv, EndpointTypeOK, HasOpened, DropName, Goes
<1>2. OneLocker'
  BY DEF EndpointInv, EndpointTypeOK, OneLocker, Locked, DropName, Goes
<1>3. ASSUME detached' = {} PROVE LockNamed' /\ SocketKept'
  <2>1. detached = {}
    BY <1>3 DEF DropName
  <2>2. ASSUME NEW r \in Servers, r # s, Locked(r) PROVE phase[r] = "release"
    BY <2>1, <2>2, OneOwner DEF Locked, DropName
  <2>3. LockNamed'
    BY <2>2 DEF EndpointInv, EndpointTypeOK, LockNamed, Locked, DropName, Goes
  <2>4. SocketKept'
    BY <2>1 DEF EndpointInv, EndpointTypeOK, SocketKept, DropName, Goes
  <2>5. QED
    BY <2>3, <2>4
<1>4. QED
  BY <1>1, <1>2, <1>3 DEF EndpointInv

LEMMA EndpointStep == EndpointInv /\ [EndpointNext]_endpointVars => EndpointInv'
<1> SUFFICES ASSUME EndpointInv, [EndpointNext]_endpointVars PROVE EndpointInv'
  OBVIOUS
<1>1. EndpointTypeOK'
  BY TypeStep DEF EndpointInv
<1>2. ASSUME NEW s \in Servers,
             \/ LockRefused(s) \/ CheckPath(s) \/ Probe(s) \/ Listen(s) \/ Permit(s)
             \/ StopServing(s) \/ Release(s) \/ Killed(s)
      PROVE  EndpointInv'
  <2>1. PICK next \in Phases : Goes(s, next)
    BY <1>2 DEF LockRefused, CheckPath, Probe, Listen, Permit, StopServing, Release, Killed, Phases
  <2>2. phase'[s] = next
    BY <2>1 DEF Goes, EndpointInv, EndpointTypeOK
  <2>3. UNCHANGED <<opened, named, socket, detached>> /\ phase[s] \notin {"new", "over"}
    BY <1>2 DEF LockRefused, CheckPath, Probe, Listen, Permit, StopServing, Release, Killed
  <2>4. Locked(s)' => Locked(s) /\ phase[s] # "release"
    BY <1>2 DEF EndpointInv, EndpointTypeOK, Locked, Goes, LockRefused, CheckPath, Probe,
                Listen, Permit, StopServing, Release, Killed
  <2>5. next \in {"listen", "permit", "serve", "stop"} =>
            phase[s] \in {"listen", "permit", "serve", "stop"}
    BY <1>2, <2>2 DEF EndpointInv, EndpointTypeOK, Goes, LockRefused, CheckPath, Probe,
                Listen, Permit, StopServing, Release, Killed
  <2>6. QED
    BY <2>1, <2>3, <2>4, <2>5, QuietStep
<1>3. CASE UNCHANGED endpointVars
  BY <1>3 DEF endpointVars, EndpointInv, EndpointTypeOK, HasOpened, OneLocker, LockNamed,
              SocketKept, Locked
<1>4. QED
  BY <1>1, <1>2, <1>3, LockingKeeps, SocketMoves, NameGoes DEF EndpointNext

\* The inductive invariant of the endpoint holds in every reachable state.
THEOREM EndpointSafe == EndpointSpec => []EndpointInv
BY EndpointStart, EndpointStep, PTL DEF EndpointSpec

\* Every variable keeps its type.
THEOREM EndpointTyped == EndpointSpec => []EndpointTypeOK
<1>1. EndpointInv => EndpointTypeOK
  BY DEF EndpointInv
<1>2. QED
  BY <1>1, EndpointSafe, PTL

\* What UnixIpcServer's drop order does ensure: without a locker of a nameless
\* lock file, a daemon that serves can be reached.
THEOREM OrphansExplained == EndpointSpec => []OrphansFromDetached
<1>1. EndpointInv => OrphansFromDetached
  BY DEF EndpointInv, OrphansFromDetached, ServersReachable, SocketKept
<1>2. QED
  BY <1>1, EndpointSafe, PTL
=============================================================================
