----------------------------- MODULE MapDaemon -----------------------------
(***************************************************************************)
(* How the code map follows a working tree: the file watcher, the durable  *)
(* queue of changed paths, the daemon's sweep and drain, and `devmap       *)
(* build`, which writes the same store from another process.               *)
(*                                                                         *)
(* An edit travels  tree -> os -> events -> buffer -> queue -> gen.  Every *)
(* hop can lose it: the operating system and both in-memory stages drop    *)
(* under load and ask for a rescan of the whole tree instead, the store    *)
(* may refuse the write, a process may die between any two steps, and an   *)
(* acknowledgement may meet a row that was queued again meanwhile.         *)
(*                                                                         *)
(* A file is its content, Absent, or there and Unreadable.  Debounce       *)
(* times, back-off and pacing are left out: a step that waits is one that  *)
(* has not happened yet.                                                   *)
(***************************************************************************)
EXTENDS Integers, Sequences, FiniteSets

CONSTANTS
    Paths,        \* the files the map could hold
    Content,      \* what a file can be
    Absent,       \* the content of a file that does not exist
    Unreadable,   \* the content of a file that discovery refuses to read
    Unread,       \* not yet read by a scan
    Rescan, GitHead, \* queue entries: the root itself, GIT_HEAD_SENTINEL
    QueueCap,     \* WATCH_QUEUE_CAPACITY
    BufferCap,    \* MAX_DEBOUNCE_PATHS
    BatchLimit,   \* batch_limit of a drain
    MaxAttempts,  \* MAX_PENDING_ATTEMPTS
    Budgets       \* bounds: how often the environment may do what

Items == Paths \cup {Rescan, GitHead}

Budget == [edits : Nat, checkouts : Nat, drops : Nat, refusals : Nat,
           faults : Nat, starts : Nat, stops : Nat, builds : Nat, silent : BOOLEAN,
           sealing : BOOLEAN, choosy : BOOLEAN]

ASSUME MapConstants ==
    /\ IsFiniteSet(Paths)
    /\ Absent \in Content /\ Unreadable \in Content \ {Absent}
    /\ Unread \notin Content
    /\ Rescan # GitHead /\ Rescan \notin Paths /\ GitHead \notin Paths
    /\ QueueCap \in Nat \ {0} /\ BufferCap \in Nat \ {0}
    /\ BatchLimit \in Nat \ {0} /\ MaxAttempts \in Nat \ {0}
    /\ Budgets \subseteq Budget

VARIABLES
    tree, head,              \* the working tree and the commit it is at
    os,                      \* notices the operating system still holds
    events, overflowed,      \* the watcher's channel and its refusal flag
    buffer, collapsed,       \* DebounceBuffer
    queue, revision,         \* pending_paths and pending_state.revision
    gen,                     \* the latest generation: its files and head_sha
    life,                    \* the daemon process: down, up, stopping
    unapplied, marks,        \* UnappliedEdits: 0 or the identity of its record
    job,                     \* what the daemon's loop is doing
    build,                   \* what `devmap build` is doing
    missed,                  \* ghost: paths changed with nobody left to say so
    turned,                  \* ghost: paths the store turned away as they were
    left                     \* what remains of the budget

world == <<tree, head>>
watch == <<os, events, overflowed, buffer, collapsed>>
store == <<queue, revision, gen>>
record == <<unapplied, marks, turned>>
vars == <<world, watch, store, record, life, job, build, missed, left>>

NoRow == [rev |-> 0, attempts |-> 0]
Nothing == [p \in Paths |-> Unread]
NoClaims == [i \in Items |-> 0]

Idle == [stage |-> "idle", claims |-> NoClaims, failed |-> {}, todo |-> {},
         got |-> Nothing, head |-> 0, mark |-> 0, first |-> FALSE]

NoBuild == [stage |-> "none", doomed |-> NoClaims, mark |-> 0, todo |-> {},
            got |-> Nothing, same |-> FALSE]

-----------------------------------------------------------------------------
(* The working tree.                                                       *)

Watched == life # "down"

\* The watcher hears of S when P changes; without one nobody does.
Notice(S, P) ==
    /\ os' = IF Watched THEN os \cup S ELSE os
    /\ missed' = IF Watched THEN missed ELSE missed \cup P
    /\ turned' = turned \ P
    /\ UNCHANGED <<events, overflowed, buffer, collapsed>>

\* A change of mode is one as well: a file may cease to be readable.
Edit(p, c) ==
    /\ left.edits > 0
    /\ tree[p] # c
    /\ c = Unreadable => left.sealing
    /\ tree' = [tree EXCEPT ![p] = c]
    /\ Notice({p}, {p})
    /\ left' = [left EXCEPT !.edits = @ - 1]
    /\ UNCHANGED <<head, store, unapplied, marks, life, job, build>>

\* git moves HEAD and rewrites files.  A silent checkout is one whose rewrites
\* the watcher misses, some or all: the sentinel is then the only notice.
Checkout(files, told) ==
    /\ left.checkouts > 0
    /\ \A p \in Paths : files[p] = Unreadable => tree[p] = Unreadable
    /\ LET changed == {p \in Paths : files[p] # tree[p]} IN
         /\ told \subseteq changed
         /\ left.silent \/ told = changed
         /\ Notice(told \cup {GitHead}, changed)
    /\ tree' = files
    /\ head' = head + 1
    /\ left' = [left EXCEPT !.checkouts = @ - 1]
    /\ UNCHANGED <<store, unapplied, marks, life, job, build>>

-----------------------------------------------------------------------------
(* The watcher thread.                                                     *)

\* The kernel drops what it holds and says so (Flag::Rescan).
OsDrops ==
    /\ left.drops > 0
    /\ os # {}
    /\ os' = {Rescan}
    /\ left' = [left EXCEPT !.drops = @ - 1]
    /\ UNCHANGED <<world, events, overflowed, buffer, collapsed, store, record,
                   life, job, build, missed>>

\* offer_watch_event: a full channel refuses, and the refusal is remembered.
Offer(i) ==
    /\ Watched
    /\ i \in os
    /\ os' = os \ {i}
    /\ IF Len(events) < QueueCap
       THEN events' = Append(events, i) /\ UNCHANGED overflowed
       ELSE overflowed' = TRUE /\ UNCHANGED events
    /\ UNCHANGED <<world, buffer, collapsed, store, record, life, job, build,
                   missed, left>>

\* DebounceBuffer::push: past its limit the buffer becomes one whole-tree rescan.
Overfull(S) == collapsed \/ Cardinality(buffer \cup S) > BufferCap

Pushed(S) == IF Overfull(S) THEN {Rescan} ELSE buffer \cup S

Push(S) == buffer' = Pushed(S) /\ collapsed' = Overfull(S)

Consume ==
    /\ Watched
    /\ events # <<>>
    /\ events' = Tail(events)
    /\ Push({Head(events)})
    /\ UNCHANGED <<world, os, overflowed, store, record, life, job, build, missed,
                   left>>

\* The loop answers a refusal before anything else it does.
AnswerOverflow ==
    /\ Watched
    /\ overflowed
    /\ overflowed' = FALSE
    /\ Push({Rescan})
    /\ UNCHANGED <<world, os, events, store, record, life, job, build, missed, left>>

\* upsert_pending: a new revision for every row of the batch, and no attempts.
\* (Rows of one batch share it here; no statement compares them but by path.)
Upsert(S) ==
    /\ queue' = [i \in Items |->
                   IF i \in S THEN [rev |-> revision + 1, attempts |-> 0] ELSE queue[i]]
    /\ revision' = IF S = {} THEN revision ELSE revision + 1

\* The paths an entry speaks for; what is under the root, for a rescan.
Named(S) == IF Rescan \in S THEN Paths ELSE S \cap Paths

\* What is forgotten with S: a notice of HEAD may stand for any file.
Concerns(S) == IF GitHead \in S THEN Paths ELSE Named(S)

Refused == left.refusals > 0 /\ left' = [left EXCEPT !.refusals = @ - 1]

\* UnappliedEdits::record, every time with a new identity.
Record == unapplied' = marks + 1 /\ marks' = marks + 1 /\ UNCHANGED turned

\* enqueue_pending_paths_under_root: paths whose place in the tree cannot be
\* decided are left out, with a warning and no record; the sentinel never is.
Admit(S) ==
    \E D \in SUBSET (S \ {GitHead}) :
        /\ D # {} => left.choosy
        /\ Upsert(S \ D)
        /\ turned' = (turned \cup Named(D)) \ Named(S \ D)

\* note_watch_batch: the batch is queued, or the refusal is on record.
NoteWatchBatch(S) ==
    \/ Admit(S) /\ UNCHANGED <<unapplied, marks, missed, left>>
    \/ Refused /\ Record /\ missed' = missed \cup Concerns(S) /\ UNCHANGED <<queue, revision>>

\* take_ready, or flush on the way out.
Flush ==
    /\ Watched
    /\ buffer # {}
    /\ buffer' = {} /\ collapsed' = FALSE
    /\ NoteWatchBatch(buffer)
    /\ UNCHANGED <<world, os, events, overflowed, gen, life, job, build>>

-----------------------------------------------------------------------------
(* The daemon's life.                                                      *)

\* What the watcher still holds in memory when its process ends.
InMemory == os \cup {events[n] : n \in DOMAIN events} \cup buffer
            \cup (IF overflowed THEN {Rescan} ELSE {})

Silence ==
    /\ os' = {} /\ events' = <<>> /\ overflowed' = FALSE
    /\ buffer' = {} /\ collapsed' = FALSE

\* begin_initial_sweep comes before the watcher, the watcher before the sweep.
Start ==
    /\ left.starts > 0
    /\ life = "down"
    /\ life' = "up"
    /\ Record
    /\ job' = [Idle EXCEPT !.stage = "boot"]
    /\ left' = [left EXCEPT !.starts = @ - 1]
    /\ UNCHANGED <<world, watch, store, build, missed>>

\* A signal ends the loop between two jobs, or in a scan, which reads the flag.
Stop ==
    /\ left.stops > 0
    /\ life = "up"
    /\ job.stage = "idle" \/ (job.stage = "save" /\ job.todo # {})
    /\ life' = "stopping"
    /\ job' = Idle
    /\ left' = [left EXCEPT !.stops = @ - 1]
    /\ UNCHANGED <<world, watch, store, record, build, missed>>

\* The watcher's last lines: everything handed over, and the sender gone.
Exit ==
    /\ life = "stopping"
    /\ events = <<>> /\ ~overflowed /\ buffer = {}
    /\ life' = "down"
    /\ Silence
    /\ missed' = missed \cup Concerns(os)
    /\ unapplied' = 0
    /\ UNCHANGED <<world, store, marks, turned, job, build, left>>

\* The callbacks did not stop within the grace: the coverage is unknown.
ExitUnquiet ==
    /\ life = "stopping"
    /\ life' = "down"
    /\ Silence
    /\ unapplied' = 0 /\ UNCHANGED marks
    /\ \/ Admit(Pushed({Rescan})) /\ UNCHANGED <<missed, left>>
       \/ Refused /\ missed' = Paths /\ UNCHANGED <<queue, revision, turned>>
    /\ UNCHANGED <<world, gen, job, build>>

\* kill -9, a panic, a power cut.
Kill ==
    /\ left.stops > 0
    /\ Watched
    /\ life' = "down"
    /\ Silence
    /\ missed' = missed \cup Concerns(InMemory)
    /\ unapplied' = 0
    /\ job' = Idle
    /\ left' = [left EXCEPT !.stops = @ - 1]
    /\ UNCHANGED <<world, store, marks, turned, build>>

-----------------------------------------------------------------------------
(* The sweep: hash the tree, compare with the generation, queue the rest.  *)

\* Mutant: only a start sweeps, so a refused batch is never repaired.
BeginFirstSweep ==
    /\ life = "up"
    /\ job.stage = "boot"
    /\ job' = [Idle EXCEPT !.stage = "sweep", !.mark = unapplied, !.todo = Paths,
                           !.first = TRUE]
    /\ UNCHANGED <<world, watch, store, record, life, build, missed, left>>

\* sweep_watermark is taken before the walk.
BeginSweep ==
    /\ life = "up"
    /\ \/ job.stage = "boot"
       \/ job.stage = "idle" /\ unapplied # 0
    /\ job' = [Idle EXCEPT !.stage = "sweep", !.mark = unapplied, !.todo = Paths,
                           !.first = (job.stage = "boot")]
    /\ UNCHANGED <<world, watch, store, record, life, build, missed, left>>

\* What a walk of the whole tree lists: a file it may not read is logged, and is
\* not among the sources.
Found(c) == IF c = Unreadable THEN Absent ELSE c

Claimed == {i \in Items : job.claims[i] > 0}

\* The sweep, a drain and a scan all read one file after another.  A drain sees
\* a refusal under a directory it was sent to; a file it was sent to by name has
\* to be read.
Read(p) ==
    /\ life = "up"
    /\ p \in job.todo
    /\ job.stage = "collect" /\ tree[p] = Unreadable => p \notin Claimed \ job.failed
    /\ job' = [job EXCEPT !.got[p] = IF job.stage = "collect" THEN tree[p] ELSE Found(tree[p]),
                          !.todo = @ \ {p}]
    /\ UNCHANGED <<world, watch, store, record, life, build, missed, left>>

\* The generation is read after the walk; what differs from it is kept.
Compare ==
    /\ job.stage = "sweep"
    /\ job.todo = {}
    /\ job' = [job EXCEPT !.stage = "compared",
         !.got = [p \in Paths |-> IF @[p] = gen.files[p] THEN Unread ELSE @[p]]]
    /\ UNCHANGED <<world, watch, store, record, life, build, missed, left>>

\* cleared_by_sweep: only the record the sweep saw before it began.
ClearedBySweep == IF unapplied = job.mark THEN 0 ELSE unapplied

EndSweep ==
    /\ job.stage = "compared"
    /\ job' = Idle
    /\ \/ /\ Admit({p \in Paths : job.got[p] # Unread})
          /\ unapplied' = ClearedBySweep
          /\ UNCHANGED <<marks, left>>
       \/ /\ Refused
          /\ IF job.first THEN Record ELSE UNCHANGED record
          /\ UNCHANGED <<queue, revision>>
    /\ UNCHANGED <<world, watch, gen, life, build, missed>>

-----------------------------------------------------------------------------
(* The drain: claim, read, write a generation, acknowledge.                *)

WriterFree == build.stage = "none" /\ job.stage \in {"idle", "boot", "sweep", "compared"}

Claimable == {i \in Items : queue[i].rev > 0 /\ queue[i].attempts < MaxAttempts}

\* The oldest BatchLimit rows.
Batches ==
    {C \in SUBSET Claimable :
       /\ Cardinality(C) <= BatchLimit
       /\ C = Claimable \/ Cardinality(C) = BatchLimit
       /\ \A i \in C, j \in Claimable \ C : queue[i].rev <= queue[j].rev}

BeginDrain ==
    /\ life = "up"
    /\ WriterFree /\ job.stage = "idle"
    /\ \E C \in Batches \ {{}} :
         job' = [Idle EXCEPT !.stage = "head",
                   !.claims = [i \in Items |-> IF i \in C THEN queue[i].rev ELSE 0]]
    /\ UNCHANGED <<world, watch, store, record, life, build, missed, left>>

\* head_for_drain: one reading, to decide by and to stamp with.
ReadHead ==
    /\ job.stage = "head"
    /\ job' = [job EXCEPT !.stage = "collect", !.head = head, !.todo = Named(Claimed)]
    /\ UNCHANGED <<world, watch, store, record, life, build, missed, left>>

\* A claimed entry that cannot be read fails alone.
CollectFails(i) ==
    /\ job.stage = "collect"
    /\ i \in Claimed \ {GitHead}
    /\ i \in job.todo \cup {Rescan} /\ i \notin job.failed
    /\ LET failed == job.failed \cup {i}
           wanted == Named(Claimed \ failed)
       IN job' = [job EXCEPT !.failed = failed, !.todo = @ \cap wanted,
                    !.got = [p \in Paths |-> IF p \in wanted THEN @[p] ELSE Unread]]
    /\ \/ left.faults > 0 /\ left' = [left EXCEPT !.faults = @ - 1]
       \/ i \in Paths /\ tree[i] = Unreadable /\ UNCHANGED left
    /\ UNCHANGED <<world, watch, store, record, life, build, missed>>

\* bump_pending_attempts: only the row that was claimed.
Bump ==
    queue' = [i \in Items |->
                IF i \in job.failed /\ queue[i].rev = job.claims[i]
                THEN [queue[i] EXCEPT !.attempts = @ + 1] ELSE queue[i]]

Moved == gen.head # job.head

\* The failed are charged; with nothing else the batch is over.  A moved HEAD
\* means the whole tree is read again.
EndCollect ==
    /\ job.stage = "collect"
    /\ job.todo = {}
    /\ Bump
    /\ job' = IF Claimed \subseteq job.failed THEN Idle
              ELSE IF Moved THEN [job EXCEPT !.stage = "save", !.todo = Paths, !.got = Nothing]
              ELSE [job EXCEPT !.stage = "save"]
    /\ UNCHANGED <<world, watch, revision, gen, record, life, build, missed, left>>

\* Mutant: HEAD is read again for the stamp.
StampAnew == head

Stamp == job.head

\* A file refused under a directory keeps the row it had.
Carried(p) == IF job.got[p] \in {Unread, Unreadable} THEN gen.files[p] ELSE job.got[p]

\* A generation with what was read and the rest carried forward, or, when that
\* changes nothing, the old one under the new stamp.
Save ==
    /\ job.stage = "save"
    /\ job.todo = {}
    /\ \/ /\ gen' = [files |-> [p \in Paths |-> Carried(p)], head |-> Stamp]
          /\ job' = [job EXCEPT !.stage = "ack"]
          /\ UNCHANGED left
       \/ /\ left.faults > 0
          /\ left' = [left EXCEPT !.faults = @ - 1]
          /\ job' = Idle
          /\ UNCHANGED gen
    /\ UNCHANGED <<world, watch, queue, revision, record, life, build, missed>>

\* The row that was claimed, and no later one of the same path.
Answered(i) == i \in Claimed \ job.failed /\ queue[i].rev = job.claims[i]

\* clear_claimed_pending_paths
Ack ==
    /\ job.stage = "ack"
    /\ queue' = [i \in Items |-> IF Answered(i) THEN NoRow ELSE queue[i]]
    /\ job' = Idle
    /\ UNCHANGED <<world, watch, revision, gen, record, life, build, missed, left>>

-----------------------------------------------------------------------------
(* `devmap build`, in a process of its own.                                *)

BeginBuild ==
    /\ left.builds > 0
    /\ WriterFree
    /\ build' = [NoBuild EXCEPT !.stage = "classify", !.mark = revision]
    /\ left' = [left EXCEPT !.builds = @ - 1]
    /\ UNCHANGED <<world, watch, store, record, life, job, missed>>

\* reconcile_pending_paths: rows no drain has work for, a path that neither the
\* tree nor the generation holds.
Classify ==
    /\ build.stage = "classify"
    /\ build' = [build EXCEPT !.stage = "drop",
         !.doomed = [i \in Items |->
                       IF i \in Paths /\ tree[i] = Absent /\ gen.files[i] = Absent
                       THEN queue[i].rev ELSE 0]]
    /\ UNCHANGED <<world, watch, store, record, life, job, missed, left>>

Doomed(i) == build.doomed[i] > 0 /\ queue[i].rev = build.doomed[i]

Drop ==
    /\ build.stage = "drop"
    /\ queue' = [i \in Items |-> IF Doomed(i) THEN NoRow ELSE queue[i]]
    /\ build' = [build EXCEPT !.stage = "scan", !.doomed = NoClaims, !.todo = Paths]
    /\ UNCHANGED <<world, watch, revision, gen, record, life, job, missed, left>>

BuildRead(p) ==
    /\ p \in build.todo
    /\ build' = [build EXCEPT !.got[p] = Found(tree[p]), !.todo = @ \ {p}]
    /\ UNCHANGED <<world, watch, store, record, life, job, missed, left>>

\* An unchanged tree writes no generation.  HEAD is read here, after the scan.
BuildSave ==
    /\ build.stage = "scan"
    /\ build.todo = {}
    /\ gen' = IF build.got = gen.files THEN gen ELSE [files |-> build.got, head |-> head]
    /\ build' = [build EXCEPT !.stage = "clear", !.same = (build.got = gen.files)]
    /\ UNCHANGED <<world, watch, queue, revision, record, life, job, missed, left>>

\* clear_pending_superseded(WholeTreeThrough(build_start)), then the stamp.
BuildClear ==
    /\ build.stage = "clear"
    /\ queue' = [i \in Items |-> IF queue[i].rev <= build.mark THEN NoRow ELSE queue[i]]
    /\ gen' = IF build.same THEN [gen EXCEPT !.head = head] ELSE gen
    /\ build' = NoBuild
    /\ UNCHANGED <<world, watch, revision, record, life, job, missed, left>>

BuildDies ==
    /\ left.faults > 0
    /\ build.stage # "none"
    /\ build' = NoBuild
    /\ left' = [left EXCEPT !.faults = @ - 1]
    /\ UNCHANGED <<world, watch, store, record, life, job, missed>>

-----------------------------------------------------------------------------
\* A store the last build left current, and no daemon; or one that has swept.
Init ==
    /\ tree \in [Paths -> Content \ {Unreadable}]
    /\ head = 1
    /\ gen = [files |-> tree, head |-> 1]
    /\ queue = [i \in Items |-> NoRow] /\ revision = 0
    /\ os = {} /\ events = <<>> /\ overflowed = FALSE
    /\ buffer = {} /\ collapsed = FALSE
    /\ life \in {"down", "up"}
    /\ unapplied = 0 /\ marks = 0
    /\ job = Idle /\ build = NoBuild
    /\ missed = {} /\ turned = {}
    /\ left \in Budgets

OutsideStep ==
    \/ \E p \in Paths, c \in Content : Edit(p, c)
    \/ \E files \in [Paths -> Content], told \in SUBSET Paths : Checkout(files, told)
    \/ OsDrops \/ Start \/ Stop \/ Kill \/ BeginBuild \/ BuildDies

OfferStep == \E i \in Items : Offer(i)

WatcherStep == Consume \/ AnswerOverflow \/ Flush \/ Exit \/ ExitUnquiet

DaemonStep ==
    \/ BeginSweep \/ Compare \/ EndSweep
    \/ BeginDrain \/ ReadHead \/ EndCollect \/ Save \/ Ack
    \/ \E p \in Paths : Read(p)
    \/ \E i \in Items : CollectFails(i)

BuildStep ==
    \/ Classify \/ Drop \/ BuildSave \/ BuildClear
    \/ \E p \in Paths : BuildRead(p)

Next == OutsideStep \/ OfferStep \/ WatcherStep \/ DaemonStep \/ BuildStep

Spec == Init /\ [][Next]_vars

\* Threads that can run do; nothing is assumed of users, git or the kernel.
Fairness ==
    /\ WF_vars(OfferStep) /\ WF_vars(WatcherStep)
    /\ WF_vars(DaemonStep) /\ WF_vars(BuildStep)

-----------------------------------------------------------------------------
(* Properties.                                                             *)

Queued == {i \in Items : queue[i].rev > 0}

\* The map has nothing wrong that anyone could read: a file that nobody may read
\* has its last good row, or none.
Agrees(p, c) == tree[p] \in {Unreadable, c}

\* Something still says that p may have changed; or the store was told so, and
\* would not have it.
Covered(p) ==
    \/ p \in Named(InMemory \cup Queued)
    \/ GitHead \in InMemory \cup Queued /\ gen.head # head
    \/ unapplied # 0
    \/ life = "down" /\ p \in missed
    \/ p \in turned

\* A file the map has wrong is one the system knows it has yet to read: a
\* difference between tree and generation is always on its way, queued, on
\* record as dropped, or happened while no daemon was there to see it.  It is
\* forgotten only where the store turned that very path away.
NoLostEdit == \A p \in Paths : Agrees(p, gen.files[p]) \/ Covered(p)

\* "whatever those batches named is now either indexed or queued by name": with
\* the record cleared, nothing missed earlier is still wrong and unannounced.
SweepSettles ==
    life = "up" /\ unapplied = 0 =>
        \A p \in missed : \/ Agrees(p, gen.files[p])
                          \/ p \in Named(InMemory \cup Queued) \cup turned

\* While a daemon is up and the outside has come to rest, the map catches up,
\* but for files nobody can read, and paths that failed too often to be tried
\* again or that the store turned away.
CatchesUp ==
    <>[](life = "up" =>
           \A p \in Paths : \/ Agrees(p, gen.files[p]) \/ p \in turned
                            \/ \E i \in {p, Rescan} : queue[i].attempts >= MaxAttempts)
=============================================================================
