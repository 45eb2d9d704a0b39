----------------------------- MODULE Decisions -----------------------------
(***************************************************************************)
(* Human decisions on a coding attempt.  A live one (permission, question) *)
(* answers a provider callback and is bound to a snapshot: the attempt     *)
(* running, the task and repository as the attempt was prepared on them.   *)
(* A host one (change_review, merge_unreviewed) is about the commits of an *)
(* attempt that has ended.  Deciding and consuming the authority are two   *)
(* requests, minutes apart, of a person and of the host that owns the      *)
(* attempt; everything the snapshot names may change between them.         *)
(*                                                                         *)
(* Every request is one IMMEDIATE transaction.  One task and one           *)
(* repository; payload and digest are the identity of the row.             *)
(***************************************************************************)
EXTENDS Integers, FiniteSets

CONSTANTS
    DecisionIds,
    Attempts,     \* runs of the task
    Callbacks,    \* protocol_request_ids: provider requests, or head commits
    Kinds,        \* which of the four kinds are raised
    LiveTtl, HostTtl,
    MaxLive, MaxRaised,   \* 32 unresolved decisions of a run, 2048 in all
    MaxVersion, Horizon   \* bounds: task and repository revisions, the clock

AllKinds == {"permission", "question", "change_review", "merge_unreviewed"}

HostKinds == {"change_review", "merge_unreviewed"}

ASSUME DecisionConstants ==
    /\ Attempts # {} /\ Callbacks # {}
    /\ Kinds \subseteq AllKinds
    /\ LiveTtl \in Nat \ {0} /\ HostTtl \in Nat \ {0}
    /\ MaxLive \in Nat /\ MaxRaised \in Nat /\ MaxVersion \in Nat /\ Horizon \in Nat

VARIABLES
    attempt,   \* work_runs: state and the revisions of its brief
    board,     \* the task's row and the repository's revision
    decision,  \* work_decisions; seen and sent are ghosts, the view when the
               \* person decided and when the authority was consumed
    replies,   \* how often the provider was answered, per request identity
    today      \* the store's clock

decisionVars == <<attempt, board, decision, replies, today>>

DecisionStates == {"none", "pending", "decided", "dispatching", "resolved", "cancelled"}

Verdicts == [permission       |-> {"allow_once", "deny"},
             question         |-> {"answer", "deny"},
             change_review    |-> {"approve", "request_changes", "deny"},
             merge_unreviewed |-> {"allow_once", "deny"}]

AllVerdicts == {"none", "allow_once", "deny", "answer", "approve", "request_changes"}

\* What a person or a host acts on; 0 before there is any.
RunStates == {"waiting", "running", "unresolved", "ended"}
View == [task : Nat, repo : Nat, run : RunStates, at : Nat]
NoView == [task |-> 0, repo |-> 0, run |-> "waiting", at |-> 0]
Now(a) == [task |-> board.task, repo |-> board.repo, run |-> attempt[a].state, at |-> today]

Host(kind) == kind \in HostKinds

\* provider_thread_id, provider_turn_id, protocol_request_id: what the unique
\* index covers beside the run.  A host's are made of its kind and head commit.
Identities == (HostKinds \cup {"provider"}) \X Callbacks
Identity(kind, k) == <<IF Host(kind) THEN kind ELSE "provider", k>>

NoDecision(d) == decision[d].state = "none"

Raised(a) == {d \in DecisionIds : ~NoDecision(d) /\ decision[d].run = a}

Unresolved == {"pending", "decided", "dispatching"}

-----------------------------------------------------------------------------
\* Mutant: the repository's revision is not part of the snapshot.
FreshTask(run, kind, expires) ==
    /\ expires > today
    /\ Host(kind) \/ /\ attempt[run].state = "running"
                     /\ ~board.deleted
                     /\ board.task = attempt[run].task

\* fresh(): a live decision stands while everything it names does, a host's
\* until it expires.  Owner, session, cwd and mode of a run never change.
Fresh(run, kind, expires) ==
    /\ expires > today
    /\ Host(kind) \/ /\ attempt[run].state = "running"
                     /\ ~board.deleted
                     /\ board.task = attempt[run].task
                     /\ board.repo = attempt[run].repo

\* Mutant: no unique index on the provider's request.
AnyIdentity(run, id) == TRUE

\* work_decisions_provider_request
NewIdentity(run, id) == \A d \in Raised(run) : decision[d].identity # id

Raisable(run, kind) ==
    IF Host(kind) THEN attempt[run].state = "ended" ELSE attempt[run].state = "running"

HasRoom(run) ==
    /\ Cardinality({d \in Raised(run) : decision[d].state \in Unresolved}) < MaxLive
    /\ Cardinality(Raised(run)) < MaxRaised

Ttl(kind) == IF Host(kind) THEN HostTtl ELSE LiveTtl

\* decisions.create; the deadline is the caller's, never past the kind's TTL.
CreateDecision(d, run, kind, k, expires) ==
    /\ NoDecision(d)
    /\ Raisable(run, kind)
    /\ expires > today /\ expires <= today + Ttl(kind)
    /\ HasRoom(run)
    /\ NewIdentity(run, Identity(kind, k))
    /\ Fresh(run, kind, expires)
    /\ decision' = [decision EXCEPT ![d] =
         [state |-> "pending", run |-> run, kind |-> kind, identity |-> Identity(kind, k),
          expires |-> expires, verdict |-> "none", seen |-> NoView, sent |-> NoView]]
    /\ UNCHANGED <<attempt, board, replies, today>>

FreshRow(d) == Fresh(decision[d].run, decision[d].kind, decision[d].expires)

\* decisions.decide
Decide(d, verdict) ==
    /\ decision[d].state = "pending"
    /\ FreshRow(d)
    /\ verdict \in Verdicts[decision[d].kind]
    /\ decision' = [decision EXCEPT ![d].state = "decided", ![d].verdict = verdict,
                                    ![d].seen = Now(decision[d].run)]
    /\ UNCHANGED <<attempt, board, replies, today>>

ClaimableDecision(d) ==
    /\ decision[d].state = "decided"
    /\ decision[d].kind # "change_review"
    /\ FreshRow(d)
    /\ decision[d].kind = "merge_unreviewed" => decision[d].verdict = "allow_once"

\* decisions.claim: only its first answer is authority (a repeated request is
\* claim_consumed), and that answer may be lost on the way to the host.
ClaimDecision(d, heard) ==
    /\ ClaimableDecision(d)
    /\ decision' = [decision EXCEPT ![d].state = "dispatching",
                                    ![d].sent = Now(decision[d].run)]
    /\ replies' = IF heard
                  THEN [replies EXCEPT ![<<decision[d].run, decision[d].identity>>] = @ + 1]
                  ELSE replies
    /\ UNCHANGED <<attempt, board, today>>

\* decisions.resolve, by the owner, fresh or not.
ResolveDecision(d, state) ==
    /\ decision[d].state \in Unresolved
    /\ state \in {"resolved", "cancelled"}
    /\ decision' = [decision EXCEPT ![d].state = state]
    /\ UNCHANGED <<attempt, board, replies, today>>

-----------------------------------------------------------------------------
(* The rest of the store, as WorkRuns has it.                              *)

\* A run is prepared on revisions that are current then; edits may follow.
AttemptStarts(a, task, repo) ==
    /\ attempt[a].state = "waiting"
    /\ task \in 1..board.task /\ repo \in 1..board.repo
    /\ attempt' = [attempt EXCEPT ![a] = [state |-> "running", task |-> task, repo |-> repo]]
    /\ UNCHANGED <<board, decision, replies, today>>

\* Finished or reconciled; a start may fail, and a host may lose its process.
AttemptMoves(a, state) ==
    /\ attempt[a].state # "ended"
    /\ state \in {"unresolved", "ended"} \ {attempt[a].state}
    /\ attempt' = [attempt EXCEPT ![a].state = state]
    /\ UNCHANGED <<board, decision, replies, today>>

TaskMoves(deleted) ==
    /\ board.task < MaxVersion
    /\ board' = [board EXCEPT !.task = @ + 1, !.deleted = deleted]
    /\ UNCHANGED <<attempt, decision, replies, today>>

RepositoryMoves ==
    /\ board.repo < MaxVersion
    /\ board' = [board EXCEPT !.repo = @ + 1]
    /\ UNCHANGED <<attempt, decision, replies, today>>

Passes ==
    /\ today < Horizon
    /\ today' = today + 1
    /\ UNCHANGED <<attempt, board, decision, replies>>

-----------------------------------------------------------------------------
AnyRun == CHOOSE a \in Attempts : TRUE
AnyId == CHOOSE id \in Identities : TRUE

DecisionInit ==
    /\ attempt = [a \in Attempts |-> [state |-> "waiting", task |-> 1, repo |-> 1]]
    /\ board = [task |-> 1, repo |-> 1, deleted |-> FALSE]
    /\ decision = [d \in DecisionIds |->
         [state |-> "none", run |-> AnyRun, kind |-> "permission", identity |-> AnyId,
          expires |-> 0, verdict |-> "none", seen |-> NoView, sent |-> NoView]]
    /\ replies = [x \in Attempts \X Identities |-> 0]
    /\ today = 0

DecisionNext ==
    \/ \E d \in DecisionIds, a \in Attempts, kind \in Kinds, k \in Callbacks,
          expires \in 1..(Horizon + 1) : CreateDecision(d, a, kind, k, expires)
    \/ \E d \in DecisionIds :
         \/ \E v \in AllVerdicts : Decide(d, v)
         \/ \E heard \in BOOLEAN : ClaimDecision(d, heard)
         \/ \E s \in DecisionStates : ResolveDecision(d, s)
    \/ \E a \in Attempts, t, r \in 1..MaxVersion : AttemptStarts(a, t, r)
    \/ \E a \in Attempts, s \in {"unresolved", "ended"} : AttemptMoves(a, s)
    \/ \E gone \in BOOLEAN : TaskMoves(gone)
    \/ RepositoryMoves
    \/ Passes

DecisionSpec == DecisionInit /\ [][DecisionNext]_decisionVars

-----------------------------------------------------------------------------
(* Properties.                                                             *)

DecisionTypeOK ==
    /\ attempt \in [Attempts -> [state : RunStates, task : Nat, repo : Nat]]
    /\ board \in [task : Nat, repo : Nat, deleted : BOOLEAN]
    /\ decision \in [DecisionIds ->
         [state : DecisionStates, run : Attempts, kind : AllKinds, identity : Identities,
          expires : Nat, verdict : AllVerdicts, seen : View, sent : View]]
    /\ replies \in [Attempts \X Identities -> Nat]
    /\ today \in Nat
    /\ \A d \in DecisionIds : decision[d].state \in {"decided", "dispatching"} =>
         decision[d].verdict \in Verdicts[decision[d].kind]

\* Authority is consumed only on what the person saw, and before it expires.  For
\* a live decision the task and the repository are, when the host claims it, the
\* revisions that the person decided on and the attempt was prepared on, and the
\* attempt is running; for a host's it is an allowed unreviewed merge of an
\* attempt that has ended, never a denial and never a review.
ConsentHonoured ==
    \A d \in DecisionIds : LET row == decision[d]
                               sent == decision[d].sent IN
        sent # NoView =>
          /\ sent.at < row.expires
          /\ IF Host(row.kind)
             THEN /\ row.kind = "merge_unreviewed" /\ row.verdict = "allow_once"
                  /\ sent.run = "ended"
             ELSE /\ row.verdict \in Verdicts[row.kind]
                  /\ sent.run = "running"
                  /\ sent.task = row.seen.task /\ sent.task = attempt[row.run].task
                  /\ sent.repo = row.seen.repo /\ sent.repo = attempt[row.run].repo

\* A provider's request is answered at most once, and a commit range is merged
\* unreviewed on one authority: whatever answers are lost, claims repeated and
\* decisions raised again under another id.
AnsweredOnce == \A x \in Attempts \X Identities : replies[x] <= 1
=============================================================================
