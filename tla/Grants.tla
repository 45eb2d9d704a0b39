------------------------------- MODULE Grants -------------------------------
(***************************************************************************)
(* The override ledger.  Grants are issued, clear decisions and are        *)
(* revoked under one lock; the hook that writes the ledger down runs after *)
(* the lock is released and before the call answers.  The process may end  *)
(* at any point, and the next one restores what was written, under the     *)
(* policy of its own day.                                                  *)
(*                                                                         *)
(* The repository has the hook and no host that persists.  The one here    *)
(* does what the hook's comment says, it writes all of the ledger down,    *)
(* one write at a time; the file is its alone.                             *)
(***************************************************************************)
EXTENDS Integers, Sequences, FiniteSets

CONSTANTS
    Callers,    \* goroutines of the host
    Requests,   \* what may be asked for
    Blocks,     \* the decisions that may have to be cleared
    AnyTask,    \* a scope that names no task
    Permits,    \* the policies the flags may be set to
    MaxIssued, LastInstant, MaxRestarts   \* bounds

Authorities == {"human", "agent"}

\* Paths narrow a scope as rules do, and are left out.
ASSUME GrantConstants ==
    /\ \A r \in Requests : /\ r.by \in Authorities /\ r.once \in BOOLEAN
                           /\ r.reason \in BOOLEAN /\ r.ttl \in Int
    /\ \A p \in Permits : /\ p.enabled \in BOOLEAN /\ p.agents \in BOOLEAN
                          /\ p.reason \in BOOLEAN
                          /\ p.ceiling \in [Authorities -> Int]
    /\ \A b \in Blocks : b.task # AnyTask
    /\ MaxIssued \in Nat /\ LastInstant \in Nat /\ MaxRestarts \in Nat

VARIABLES
    ledger,    \* the grants in memory, oldest first
    counter,   \* seq
    permit,    \* the policy in force
    caller,    \* calls that have changed the ledger and not run the hook yet
    saved,     \* the ledger as it was last written down
    instant,
    issues,    \* ghost: grants ever issued; each keeps its number as serial
    cleared,   \* ghost: answers that a grant cleared a decision, per serial
    revoked,   \* ghost: serials whose revocation was answered
    restarts   \* bound

grantVars ==
    <<ledger, counter, permit, caller, saved, instant, issues, cleared, revoked, restarts>>

Idle == [does |-> "nothing", serials |-> {}]
Between(c) == caller[c] = Idle

\* The call goes on to the hook, and answers after it.
Hooked(c, does, serials) == caller' = [caller EXCEPT ![c] = [does |-> does, serials |-> serials]]

-----------------------------------------------------------------------------
(* What a grant may be, and what it covers.                                *)

AgentRules(p) == {"soft"} \cup p.extra

\* The limits of an authority, the same when a grant is issued and restored.
Permitted(p, by, task, rules, reason) ==
    /\ rules # {} /\ "hard" \notin rules
    /\ p.reason => reason
    /\ by = "agent" => p.agents /\ rules \subseteq AgentRules(p) /\ task # AnyTask

Issuable(p, r) ==
    /\ p.enabled
    /\ Permitted(p, r.by, r.task, r.rules, r.reason)
    /\ p.ceiling[r.by] > 0
    /\ 0 <= r.ttl /\ r.ttl <= p.ceiling[r.by]

Lifetime(p, r) == IF r.ttl = 0 THEN p.ceiling[r.by] ELSE r.ttl

Active(g) == ~g.consumed /\ instant < g.expires

Matches(g, b) == g.task \in {AnyTask, b.task} /\ b.rule \in g.rules

\* The first grant in the ledger that would clear b.
Covering(b) ==
    {i \in DOMAIN ledger : /\ Active(ledger[i]) /\ Matches(ledger[i], b)
                           /\ \A j \in 1..(i - 1) : ~(Active(ledger[j]) /\ Matches(ledger[j], b))}

-----------------------------------------------------------------------------
(* The calls, each under the ledger's lock.                                *)

Issue(c, r) ==
    /\ Between(c) /\ issues < MaxIssued
    /\ Issuable(permit, r)
    /\ counter' = counter + 1
    /\ issues' = issues + 1
    /\ ledger' = Append(ledger, [id |-> counter + 1, by |-> r.by, task |-> r.task,
                                 rules |-> r.rules, reason |-> r.reason, once |-> r.once,
                                 expires |-> instant + Lifetime(permit, r),
                                 consumed |-> FALSE, serial |-> issues + 1])
    /\ Hooked(c, "issue", {issues + 1})
    /\ UNCHANGED <<permit, saved, instant, cleared, revoked, restarts>>

\* Mutant: a single-use grant is consumed and nobody writes it down.
SpendQuietly(c, i) ==
    /\ ledger' = [ledger EXCEPT ![i].consumed = TRUE]
    /\ cleared' = [cleared EXCEPT ![ledger[i].serial] = @ + 1]
    /\ UNCHANGED caller

Spend(c, i) ==
    /\ ledger' = [ledger EXCEPT ![i].consumed = TRUE]
    /\ Hooked(c, "apply", {ledger[i].serial})
    /\ UNCHANGED cleared

\* A decision that no grant covers stays denied, which changes nothing, and so
\* does the use of a grant that may be used again.
ApplyGrant(c, b) ==
    /\ Between(c)
    /\ permit.enabled
    /\ b.rule # "hard"
    /\ \E i \in Covering(b) : ledger[i].once /\ Spend(c, i)
    /\ UNCHANGED <<counter, permit, saved, instant, issues, revoked, restarts>>

Revoke(c, id) ==
    /\ Between(c)
    /\ \E i \in DOMAIN ledger : ledger[i].id = id
    /\ ledger' = [i \in DOMAIN ledger |->
                    IF ledger[i].id = id THEN [ledger[i] EXCEPT !.consumed = TRUE] ELSE ledger[i]]
    /\ Hooked(c, "revoke", {ledger[i].serial : i \in {j \in DOMAIN ledger : ledger[j].id = id}})
    /\ UNCHANGED <<counter, permit, saved, instant, issues, cleared, revoked, restarts>>

\* The host's hook, and the answer after it.
WriteDown(c) ==
    /\ ~Between(c)
    /\ saved' = ledger
    /\ caller' = [caller EXCEPT ![c] = Idle]
    /\ cleared' = [k \in 1..MaxIssued |->
         IF caller[c].does = "apply" /\ k \in caller[c].serials THEN cleared[k] + 1 ELSE cleared[k]]
    /\ revoked' = IF caller[c].does = "revoke" THEN revoked \cup caller[c].serials ELSE revoked
    /\ UNCHANGED <<ledger, counter, permit, instant, issues, restarts>>

\* What was issued under another policy is kept.
SetPolicy(p) ==
    /\ permit' = p
    /\ UNCHANGED <<ledger, counter, caller, saved, instant, issues, cleared, revoked, restarts>>

-----------------------------------------------------------------------------
(* The next run.                                                           *)

\* No longer than the policy of the day could have given it.
Restorable(p, g) ==
    /\ Permitted(p, g.by, g.task, g.rules, g.reason)
    /\ g.expires - instant <= (IF p.ceiling[g.by] < 0 THEN 0 ELSE p.ceiling[g.by])

Kept(p, i) ==
    /\ Restorable(p, saved[i])
    /\ \A j \in 1..(i - 1) : Restorable(p, saved[j]) => saved[j].id # saved[i].id

\* The grants that are kept, in the order they were written down.
Restored(p) ==
    LET keeps == {i \in DOMAIN saved : Kept(p, i)} IN
    \E at \in [1..Cardinality(keeps) -> keeps] :
        /\ \A j, k \in DOMAIN at : j < k => at[j] < at[k]
        /\ ledger' = [k \in DOMAIN at |-> saved[at[k]]]

\* Mutant: the restored grants are not counted.
CountsOwn(gs) == 0

\* Past every number that was restored.
SeqAfter(gs) ==
    CHOOSE n \in 0..MaxIssued : /\ n = 0 \/ \E i \in DOMAIN gs : gs[i].id = n
                                /\ \A i \in DOMAIN gs : gs[i].id <= n

\* The process ends, and with it the calls it was in; the next one restores.
Restart(p) ==
    /\ restarts < MaxRestarts
    /\ restarts' = restarts + 1
    /\ permit' = p
    /\ Restored(p)
    /\ counter' = SeqAfter(ledger')
    /\ caller' = [c \in Callers |-> Idle]
    /\ UNCHANGED <<saved, instant, issues, cleared, revoked>>

InstantPasses ==
    /\ instant < LastInstant
    /\ instant' = instant + 1
    /\ UNCHANGED <<ledger, counter, permit, caller, saved, issues, cleared, revoked, restarts>>

GrantInit ==
    /\ ledger = <<>> /\ counter = 0 /\ saved = <<>>
    /\ permit \in Permits
    /\ caller = [c \in Callers |-> Idle]
    /\ instant = 0
    /\ issues = 0 /\ revoked = {} /\ restarts = 0
    /\ cleared = [k \in 1..MaxIssued |-> 0]

GrantNext ==
    \/ \E c \in Callers : \/ \E r \in Requests : Issue(c, r)
                          \/ \E b \in Blocks : ApplyGrant(c, b)
                          \/ \E id \in 1..MaxIssued : Revoke(c, id)
                          \/ WriteDown(c)
    \/ \E p \in Permits : SetPolicy(p) \/ Restart(p)
    \/ InstantPasses

GrantSpec == GrantInit /\ [][GrantNext]_grantVars

-----------------------------------------------------------------------------
(* Properties.                                                             *)

\* "A restart brought both back to life": not any more.  A single-use grant is
\* the answer to one decision only, and a revocation that was answered holds,
\* whatever calls overlap and wherever between lock and hook a process ends.
OverIsOver ==
    /\ \A k \in 1..issues : cleared[k] <= 1
    /\ \A i \in DOMAIN ledger : ledger[i].serial \in revoked => ledger[i].consumed

\* No two grants of a ledger have the same id, so that a revoke and a report name
\* one: over restarts under policies that refuse some of what was written down.
UniqueIds ==
    \A i, j \in DOMAIN ledger : ledger[i].id = ledger[j].id => i = j
=============================================================================
