--------------------------- MODULE RequestLedger ---------------------------
(***************************************************************************)
(* The write path every workbench request takes: the receipt that makes a  *)
(* retry safe, the revision check, the revision and the event a change     *)
(* leaves, and store.compact, which prunes all three.  Each request is one *)
(* IMMEDIATE transaction, so one step; a refused one changes nothing.      *)
(*                                                                         *)
(* A request keeps its id and its content for ever and may reach the store *)
(* at any time and any number of times: its sender cannot tell a lost      *)
(* request from a lost reply.  A request id that comes back with another   *)
(* content is refused (idempotency_conflict) and is no step.               *)
(***************************************************************************)
EXTENDS Naturals, Sequences, FiniteSets

CONSTANTS
    Requests,     \* request ids
    Items, Spaces, RunIds,   \* tasks, workspaces and runs
    Methods,      \* the methods in use
    Scanning,     \* whether hosts pass scan_sequence when they create a task
    Policies,     \* the parameters store.compact is called with
    Hour,         \* the shortest receipt window (3600)
    MaxTime,      \* bound: the clock stops here
    NoRecord

AllMethods == {"items.put", "items.delete", "items.restore", "workspaces.put",
               "workspaces.delete", "runs.prepare", "runs.claim", "runs.finish"}

Policy == [window : Nat, retention : Nat, keepEvents : Nat, keepRevisions : Nat, limit : Nat]

ASSUME LedgerAssumption ==
    /\ Methods \subseteq AllMethods
    /\ Scanning \subseteq BOOLEAN
    /\ Policies \subseteq Policy
    /\ Hour \in Nat
    /\ MaxTime \in Nat
    /\ Items \cap Spaces = {} /\ Items \cap RunIds = {} /\ Spaces \cap RunIds = {}
    /\ NoRecord \notin Items \cup Spaces \cup RunIds

Records == Items \cup Spaces \cup RunIds

VARIABLES
    req,       \* what each request asks for
    rec,       \* the live tables: revision and state of each record
    revs,      \* work_revisions: pairs of record and revision
    log,       \* every event ever recorded, in sequence
    events,    \* work_events: the sequences that are retained
    receipt,   \* work_requests: the sequence of a request's event, 0 for none
    notices,   \* work_attention.source_sequence
    clock,
    granted    \* ghost: how often a claim of each run was answered with success

vars == <<req, rec, revs, log, events, receipt, notices, clock, granted>>

RecordStates == {"none", "live", "deleted", "prepared", "claimed", "ended"}
Row == [rev : Nat, state : RecordStates]
Content == [method : AllMethods, rec : Records, expected : Nat, scanned : BOOLEAN, scan : Nat]
Event == [req : Requests, rec : Records, method : AllMethods, rev : Nat, at : Nat]

Unsent == [method |-> "items.put", rec |-> NoRecord, expected |-> 0,
           scanned |-> FALSE, scan |-> 0]

-----------------------------------------------------------------------------
(* What a method does to its record.                                       *)

RecordsOf(m) ==
    CASE m \in {"items.put", "items.delete", "items.restore"} -> Items
      [] m \in {"workspaces.put", "workspaces.delete"} -> Spaces
      [] OTHER -> RunIds

\* Mutant: the id of a deleted record can be put again.
MovesReusing(m) ==
    CASE m \in {"items.put", "workspaces.put"} ->
            {<<"none", "live">>, <<"live", "live">>, <<"deleted", "live">>}
      [] m \in {"items.delete", "workspaces.delete"} -> {<<"live", "deleted">>}
      [] m = "items.restore" -> {<<"deleted", "live">>}
      [] m = "runs.prepare" -> {<<"none", "prepared">>}
      [] m = "runs.claim" -> {<<"prepared", "claimed">>}
      [] m = "runs.finish" -> {<<"claimed", "ended">>}

Moves(m) ==
    CASE m \in {"items.put", "workspaces.put"} -> {<<"none", "live">>, <<"live", "live">>}
      [] m \in {"items.delete", "workspaces.delete"} -> {<<"live", "deleted">>}
      [] m = "items.restore" -> {<<"deleted", "live">>}
      [] m = "runs.prepare" -> {<<"none", "prepared">>}
      [] m = "runs.claim" -> {<<"prepared", "claimed">>}
      [] m = "runs.finish" -> {<<"claimed", "ended">>}

\* The revision the check compares with: of the live row, 0 without one, and
\* for a restore of the deleted row.
Current(m, r) ==
    IF (rec[r].state = "deleted") <=> (m = "items.restore") THEN rec[r].rev ELSE 0

ItemMethods == {"items.put", "items.delete", "items.restore"}

\* The scan a creation was decided on: no retained event shows a later change
\* of a task.
ScanFresh(q) ==
    (req[q].scanned /\ req[q].expected = 0) =>
        \A n \in events : n > req[q].scan => log[n].method \notin ItemMethods

\* The permission to create a process is answered once.
Claims == {"runs.claim"}

Answered(q) ==
    granted' = IF req[q].method \in Claims
               THEN [granted EXCEPT ![req[q].rec] = granted[req[q].rec] + 1]
               ELSE granted

-----------------------------------------------------------------------------
(* Requests.                                                               *)

\* A host composes a request from what it has read.
Compose(q, m, r, e, scanned) ==
    /\ req[q] = Unsent
    /\ req' = [req EXCEPT ![q] = [method |-> m, rec |-> r, expected |-> e,
                                  scanned |-> scanned /\ m = "items.put" /\ e = 0,
                                  scan |-> Len(log)]]
    /\ UNCHANGED <<rec, revs, log, events, receipt, notices, clock, granted>>

\* The tasks at home in a workspace lose their home when it is deleted: a new
\* revision of each, and no event of its own.
Homed(m) == {{}} \cup
    IF m = "workspaces.delete" THEN SUBSET {i \in Items : rec[i].state = "live"} ELSE {}

\* A request that is not a retry, as far as the receipts tell.
Apply(q) ==
    LET m == req[q].method
        r == req[q].rec
        n == Len(log) + 1
        revision == req[q].expected + 1
    IN
    /\ req[q] # Unsent
    /\ receipt[q] = 0
    /\ req[q].expected = Current(m, r)
    /\ ScanFresh(q)
    /\ \E move \in Moves(m), homed \in Homed(m) :
          /\ rec[r].state = move[1]
          /\ <<r, revision>> \notin revs
          /\ rec' = [x \in Records |->
                       IF x = r THEN [rev |-> revision, state |-> move[2]]
                       ELSE IF x \in homed THEN [rec[x] EXCEPT !.rev = rec[x].rev + 1]
                       ELSE rec[x]]
          /\ revs' = revs \cup {<<r, revision>>} \cup {<<x, rec[x].rev + 1>> : x \in homed}
    /\ log' = Append(log, [req |-> q, rec |-> r, method |-> m, rev |-> revision, at |-> clock])
    /\ events' = events \cup {n}
    /\ receipt' = [receipt EXCEPT ![q] = n]
    /\ notices' = IF m = "runs.finish" THEN notices \cup {n} ELSE notices
    /\ Answered(q)
    /\ UNCHANGED <<req, clock>>

\* Mutant: the receipt of a claim is replayed like any other.
AnyReplay(q) == receipt[q] # 0

Replayable(q) == receipt[q] # 0 /\ req[q].method \notin Claims

\* A retry: the answer is rebuilt from the event the receipt names.
Replay(q) ==
    /\ Replayable(q)
    /\ receipt[q] \in events
    /\ Answered(q)
    /\ UNCHANGED <<req, rec, revs, log, events, receipt, notices, clock>>

-----------------------------------------------------------------------------
(* store.compact                                                           *)

Valid(p) ==
    /\ p.window >= Hour
    /\ p.retention >= p.window
    /\ p.keepEvents >= 1 /\ p.keepRevisions >= 1 /\ p.limit >= 1

\* ORDER BY sequence LIMIT n
Oldest(S, n) == {x \in S : Cardinality({y \in S : y < x}) < n}

\* LIMIT n, in no order.
Some(S, n) == {T \in SUBSET S : Cardinality(T) = IF Cardinality(S) < n THEN Cardinality(S) ELSE n}

\* Mutant: the window is taken to end a second early.
OlderOrEqual(n, seconds) == log[n].at + seconds <= clock

Older(n, seconds) == log[n].at + seconds < clock

\* The sequences of the receipts that may go.
OldReceipts(p) ==
    {n \in events : /\ \E q \in Requests : receipt[q] = n
                    /\ Older(n, p.window)
                    /\ log[n].method \notin Claims}

\* Mutant: an event may go although a receipt still names it.
EventsUnreceipted(p, pruned) ==
    {n \in events : /\ Older(n, p.retention)
                    /\ n + p.keepEvents <= Len(log)
                    /\ n \notin notices}

\* Mutant: the newest events are not spared.
EventsUnspared(p, pruned) ==
    {n \in events : /\ Older(n, p.retention)
                    /\ \A q \in Requests : receipt[q] = n => n \in pruned
                    /\ n \notin notices}

\* The events that may go once the receipts of pruned are gone.
OldEvents(p, pruned) ==
    {n \in events : /\ Older(n, p.retention)
                    /\ n + p.keepEvents <= Len(log)
                    /\ \A q \in Requests : receipt[q] = n => n \in pruned
                    /\ n \notin notices}

Open == {"prepared", "claimed"}

\* Mutant: the history of a live run is pruned like any other.
RevisionsOfAll(p) ==
    {v \in revs : \E x \in revs : x[1] = v[1] /\ v[2] + p.keepRevisions <= x[2]}

\* The revisions that may go: enough newer ones are kept, and no live run.
OldRevisions(p) ==
    {v \in revs : /\ \E x \in revs : x[1] = v[1] /\ v[2] + p.keepRevisions <= x[2]
                  /\ rec[v[1]].state \notin Open}

Compact(p) ==
    LET pruned == Oldest(OldReceipts(p), p.limit) IN
    /\ Valid(p)
    /\ receipt' = [q \in Requests |-> IF receipt[q] \in pruned THEN 0 ELSE receipt[q]]
    /\ events' = events \ Oldest(OldEvents(p, pruned), p.limit)
    /\ \E gone \in Some(OldRevisions(p), p.limit) : revs' = revs \ gone
    /\ UNCHANGED <<req, rec, log, notices, clock, granted>>

Tick ==
    /\ clock < MaxTime
    /\ clock' = clock + 1
    /\ UNCHANGED <<req, rec, revs, log, events, receipt, notices, granted>>

-----------------------------------------------------------------------------
Init ==
    /\ req = [q \in Requests |-> Unsent]
    /\ rec = [r \in Records |-> [rev |-> 0, state |-> "none"]]
    /\ revs = {}
    /\ log = <<>>
    /\ events = {}
    /\ receipt = [q \in Requests |-> 0]
    /\ notices = {}
    /\ clock = 0
    /\ granted = [r \in Records |-> 0]

Next ==
    \/ \E q \in Requests, m \in Methods, scanned \in Scanning : \E r \in RecordsOf(m) :
          \E e \in {0, rec[r].rev} : Compose(q, m, r, e, scanned)
    \/ \E q \in Requests : Apply(q) \/ Replay(q)
    \/ \E p \in Policies : Compact(p)
    \/ Tick

Spec == Init /\ [][Next]_vars

-----------------------------------------------------------------------------
(* Properties.                                                             *)

\* Every variable has its type, a request names a record of its method's table,
\* and no record takes a state of another table's lifecycle.
LedgerTypeOK ==
    /\ req \in [Requests -> Content \cup {Unsent}]
    /\ \A q \in Requests : req[q] # Unsent => req[q].rec \in RecordsOf(req[q].method)
    /\ rec \in [Records -> Row]
    /\ \A r \in RunIds : rec[r].state \notin {"live", "deleted"}
    /\ \A r \in Records \ RunIds : rec[r].state \in {"none", "live", "deleted"}
    /\ revs \subseteq Records \X Nat
    /\ log \in Seq(Event)
    /\ events \subseteq 1..Len(log)
    /\ receipt \in [Requests -> 0..Len(log)]
    /\ notices \subseteq 1..Len(log)
    /\ clock \in Nat
    /\ granted \in [Records -> Nat]

\* A request takes effect at most once, however often and however late it is
\* retried, also after its receipt was pruned: the revisions of a record only
\* grow, across deletion and restoration.
AtMostOnce ==
    \A m, n \in DOMAIN log : log[m].req = log[n].req => m = n

\* A receipt can be replayed, and replays its own request: whatever compaction
\* removed, the event a receipt names is there (never receipt_unreadable).
ReceiptsReadable ==
    \A q \in Requests : receipt[q] # 0 =>
        receipt[q] \in events /\ log[receipt[q]].req = q

\* The authority to launch a run is handed out once, by one answer to one
\* request.
ClaimOnce == \A r \in RunIds : granted[r] <= 1

\* A retry within the shortest window finds its receipt, and the receipt of a
\* claim is found for ever.
RetryFinds ==
    \A n \in DOMAIN log :
        (clock <= log[n].at + Hour \/ log[n].method \in Claims) => receipt[log[n].req] = n

\* The newest event, which is the cursor of every reader, and the source of
\* every notice stay in the log.
LogAnchored == (log # <<>> => Len(log) \in events) /\ notices \subseteq events

\* The current revision of every record stays in its history, and the whole
\* history of a run that can still change does.
HistoryKept ==
    \A r \in Records : rec[r].rev > 0 =>
        /\ <<r, rec[r].rev>> \in revs
        /\ rec[r].state \in Open => \A n \in 1..rec[r].rev : <<r, n>> \in revs

\* The comment in put_item: with scan_sequence "a creation after the board has
\* changed since is refused, so the scan and the write are one decision".  So
\* no change of a task lies between the scan and the creation in the log.
ScanDecides ==
    \A n \in DOMAIN log :
        LET asked == req[log[n].req] IN
        (asked.scanned /\ log[n].rev = 1) =>
            \A k \in DOMAIN log : (k > asked.scan /\ k < n) => log[k].method \notin ItemMethods
=============================================================================
