# DevCouncil in TLA+

A TLA+ development kept beside the DevCouncil code. It models the parts of the
system where several processes share durable state and where a mistake shows
only in an unlucky order of steps: the task leases and the checkout service over
them, the launch attempts (runs) of the workbench, the request path that makes
retries and compaction safe, human decisions, text proposals, notices, the gap
history, override grants, the pool of store processes, and the daemon that keeps
the code map in step with a working tree. TLC checks the models on small
instances; TLAPS proves the main safety results for every value of the constants.

Source paths below are relative to the repository root.

## 1. The system

DevCouncil is a set of native components for AI-assisted development. A Go host
(`devcouncil`) serves task tools to coding agents and drives small Rust programs:
`dcstore` (state), `dcverify` (diff rigor), `dcgrep` (search) and `devmap` (code
graph). Each `dcstore` call is a short-lived process, or one call on a pooled
one, on a SQLite file that any number of hosts share. `devmap` has a daemon per
repository and a build command that write one graph store.

| Component | State it keeps | Operations | Interacts with |
|---|---|---|---|
| Task leases, `rust/dc-store/src/{lib,tasks}.rs` | `task_leases`, `task_scope_appends` in `.devcouncil/state.sqlite` | acquire, release, renew, diagnose, ready, scope swap | reads `work_items`; called by the Go host |
| Scope widening, `dc/store/store.go` | none between calls | `AppendPlannedFiles`: read, merge, swap, retry | lease store |
| Checkout service, `devcouncil/lease.go`, `dc/store/tasks.go` | none between calls | checkout, renew, release, status moves | leases and `items.put` |
| Runs, `workbench/runs.rs` | `work_runs`, `work_run_inputs` | prepare, claim, started, protocol, finish, cancel, reconcile | tasks, repositories, the host's processes |
| Request path, `workbench/mod.rs` | `work_requests` (receipts), `work_revisions`, `work_events`, the live tables | one `mutate` for every writing method | every workbench part |
| Compaction, `workbench/compaction.rs` | prunes the three tables above | `store.compact` | readers' cursors, notices, live runs |
| Decisions, `workbench/decisions.rs` | `work_decisions` | create, decide, claim, resolve | runs, tasks, repositories |
| Enhancements and automation, `workbench/{enhancements,automation}.rs` | `work_enhancements`, `work_enhancement_queue`, `work_automation` | create, prepare, claim, complete, revise, accept, undo, dismiss, recover, settings | task text and revisions |
| Attention and notifications, `workbench/{attention,notifications}.rs` | `work_attention`, `work_notification_settings`, `work_notification_deliveries` | raise, update, settings, pending, claim, finish, activate, acknowledge | events, hosts, the desktop |
| Gap history, `records.rs` | `gaps`, `gap_runs`, `gap_history`, `verification_runs` | replace, upsert, commit | verification in the Go host |
| Override grants, `grants/grants.go` | a ledger in memory and, through a hook, a file | issue, apply, revoke, restore | policy gate |
| Store process pool, `dc/store/serve.go` | slots, idle children | take, exchange, put, retire, close | `dcstore serve` |
| Code map daemon, `devmap-serve` | watcher buffers, record of unapplied edits, the socket and its lock file | watch, sweep, drain, serve, start, stop | working tree, git, graph store |
| Graph store, `devmap-store` | queue of changed paths, generations | enqueue, claim, acknowledge, reconcile, supersede, save | daemon and build |
| Build command, `devmap-cli` | none between calls | scan, save, clear, stamp | the same store, from another process |
| Verification, `devcouncil/verify`, `dc-verify`, `dc-evidence` | records of a run | git state, commands, rigor, verdict | records store |
| Policy gate, `gate`, `policy` | none | classify a command or a path | grants |
| Analysis and queries, `devmap-{extract,resolve,analyze,query}` | none between calls | parse, resolve, rank, query | one generation of the graph |

`PROJECT.json` lists all parts, with the reason for each one that is not modelled.

What is hard here:

* **Interleaving.** SQLite makes a statement or a transaction atomic, and nothing
  else. `active_lease` is a read, a judgement by the clock and a conditional
  UPDATE; a checkout is a lease call, a read and a revisioned put; a drain claims,
  reads files, saves and acknowledges while the same files are edited.
* **Time.** A lease, a preparation, a decision, a proposal and a receipt stop
  counting by themselves when the clock passes a stored second. Nothing runs in
  the background to notice.
* **Lost answers.** A host cannot tell a lost request from a lost reply, so every
  writing request may be repeated. A claim must not be. On a pooled process the
  replies are told apart by their order alone.
* **Death.** A process may die between two statements; a host between the claim,
  the spawn and the report of a run, and the agent it started lives on; a daemon
  between reading a file and saying that it did.
* **Loss under load.** The operating system and two in-memory stages drop file
  notices and replace them by a request to read everything.
* **Pruning.** Compaction removes receipts, events and revisions that retries,
  cursors, notices and live runs may still need.

### What makes each part correct

| Part | Properties |
|---|---|
| Leases | one active row per task; answers that were true during the call; an ended lease never changes; nobody's live lease is marked stale; ready work is not hidden; lapsed leases are cleared; no widening is lost |
| Checkout | an error leaves no lease behind; who took a lease works on an item that left ready; no edit is overwritten |
| Runs | one attempt, and one real process, per working tree; the limit is kept; an ended attempt has nothing running; nothing is moved or deleted under a live attempt; an orphan does not hold its tree for ever |
| Request path | a request takes effect at most once; authority to launch is given once; a retry in the window finds its receipt |
| Compaction | every receipt stays readable; the newest event, sources of notices, current revisions and live histories stay |
| Decisions | authority is consumed once, in time, and only on what the person saw |
| Enhancements | one model call at a time, and so many automatic ones an hour; switched off is off; what the inbox shows as current can be accepted |
| Notices | a banner is shown once, and none out of the past |
| Gap history | it says what a recount of all runs says, in the order in which the store numbered them |
| Grants | a single-use grant clears one decision and a revocation holds, also across restarts; ids stay unique |
| Process pool | a reply reaches the call that asked and comes from the file at the path; owned processes and slots are bounded and not lost |
| Code map | a difference between tree and map is always announced somewhere, except for unreadable files and paths turned away; a daemon left in peace catches up |
| Endpoint | a daemon that serves can be reached |

## 2. Modules

| Module | Models | Composition |
|---|---|---|
| `LeaseHolder` | what the lease store promises: at most one holder per task, fresh tokens, no token comes back | abstract specification |
| `TaskLease` | `lib.rs`, `tasks.rs`, `AppendPlannedFiles` | refines `LeaseHolder` |
| `Checkout` | `devcouncil/lease.go`, `MoveTaskStatus` of `dc/store/tasks.go`, over the lease and the revisioned item | lease calls are single steps here; `TaskLease` has their inside |
| `WorkRuns` | `runs.rs`, and what `mod.rs` and `items.rs` do to tasks and repositories that runs use; hosts and processes | |
| `RequestLedger` | the `mutate` path of `mod.rs`, `compaction.rs` | |
| `Decisions` | `decisions.rs` | runs, tasks and repositories as `WorkRuns` has them |
| `Enhancements` | `enhancements.rs`, `automation.rs`, the saves of `mod.rs` and `items.rs` they react to | |
| `Notices` | `attention.rs`, `notifications.rs`, and compaction's rule for events | |
| `GapHistory` | `records.rs` | |
| `Grants` | `grants/grants.go` | |
| `ServePool` | `dc/store/serve.go` and the loop of `dcstore serve` | |
| `MapDaemon` | `devmap-serve` (watcher, daemon), `devmap-store/src/db/pending.rs`, `commands/build.rs` | composes watcher, queue, daemon and build |
| `Endpoint` | the bind, lock and drop of `devmap-serve/src/protocol.rs` | |
| `TaskLeaseProofs`, `WorkRunsProofs`, `RequestLedgerProofs`, `CheckoutProofs`, `EnhancementsProofs`, `ServePoolProofs`, `MapDaemonProofs` | | theorems about the module each is named after |
| `DeskProofs` | | theorems about `Decisions`, `GapHistory`, `Grants`, `Notices` and `Endpoint`, which share no variable |
| `MCTaskLease`, `MCWorkRuns`, `MCRequestLedger`, `MCMapDaemon` | | instances for TLC: symmetry sets, parameter values, bounds |
| `MCDesk` | | `Decisions`, `Enhancements`, `Checkout`, `GapHistory`, `ServePool`, `Grants`, `Notices` and `Endpoint` in one run |

Operators marked *Mutant* in a comment are wrong versions of the definition that
follows them. No specification uses them. They show that the property named
beside them in `PROJECT.json` fails when the code has that mistake.

### TaskLease

State: `lease` is `task_leases` by row id. The row id and the token are drawn
together and once, so one identifier stands for both. `item` is the part of
`work_items` that decides whether a task can be leased, `scope` the agent-appended
planned files, `clock` what `now_epoch` reads. `call[c]` holds the local variables
and the next statement of client `c`'s call. `truth`, `owed` and `granted` are
ghosts: what was true, offerable or promised during the calls in progress.

Each action is one SQL statement or one IMMEDIATE transaction:

* `SelectNone/SelectRow`, `JudgeLive/JudgeBad/JudgePast`, `RetireWon/RetireLost/GiveUp`
  are `active_lease`, with its loop of `MAX_EXPIRY_PASSES`;
* `After` is what each caller does with the result; `Prior`, `ReleaseWrite`,
  `RenewStamp`, `RenewWrite` are the statements after it;
* `BeginReady`, `SweepNext`, `SweepDone`, `List` are `ready_tasks`;
* `Acquire` is the whole acquire transaction; every refusal rolls back, so a
  refused acquire is no step;
* `BeginWiden`, `SwapWritten`, `SwapStale`, `SwapRefused` are the Go client's loop
  and the store's `swap_agent_appended`;
* `Crash` ends a process between two statements; `BoardEdit` is an edit by the
  board; `ForeignExpiry` is another program that shares the file.

The partial unique index over active rows is not a guard of the insert. `OneActive`
thereby says more than the schema: the transaction's own check suffices.
`NoExpiry` is a NULL `expires_at` and `Unreadable` one that `parse_iso_utc`
refuses; both are outside the naturals, and an unreadable one holds its task.
The gap filter of the ready list is left out: it orders and hides tasks by
another table and does not touch leases.

### WorkRuns

State: `run` is `work_runs`; `task` the version and liveness of what a run's brief
reads; `identity` where the repository is registered; `up`, `mandate` and `proc`
are the world the store speaks of, that is the hosts that are alive, the claims
whose answer reached a live host that has not started its process yet, and the
processes as they really are. A checkout is a pair of a place and a working tree.

Every `runs.*` request is one transaction and one action. The brief is kept as a
version number: `claim` takes the snapshot again and compares, and any edit,
delete, restore or relink changes it. A claim is answered or its answer is lost.
`Started`, `FinishExited`, `FinishFailed` and `Reconcile` carry, next to the store's
checks, what an honest host has seen: it reports a process it started, reports
the end of a process that ended, and reconciles another host's attempt when it
has seen the owner gone and the process not running. The store cannot check this;
`OneWriter` and `EndedIsOver` are statements about the store together with hosts
that report truthfully. A host identity is one incarnation; a host that comes
back has a new one.

### RequestLedger

State: `req[q]` is the content of request `q`, fixed when it is composed; `rec` the
live tables, by revision and state; `revs`, `events` and `receipt` the three tables
that compaction prunes; `log` every event ever recorded, so that properties can
speak of pruned ones; `notices` the sequences `work_attention` points at; `granted`
counts the successful answers to a claim.

`Apply` is `mutate` for a request without a receipt: the revision check, the
transition, the new revision, the event and the receipt, and for the deletion of a
workspace the new revision of every task at home in it. `Replay` is a request
whose receipt is found: the answer is rebuilt from its event, except for a claim,
which is refused. Requests are never consumed, so they may arrive late, out of
order and any number of times. `Compact` is a whole pass: receipts, then events,
then revisions, each up to the limit. `Policies` are the parameters of the passes
and `Valid` the checks on them. `scan_sequence` of a creation is `scanned` and
`scan`. Method-specific checks that only refuse are left to the other modules.

### Checkout

State: `held` is the active lease, `item` the card with its status, revision and the
edits its text holds, `receipts` the revisions at which a move was put (the request
id of a move is derived from the revision), `session[s]` where each process is in
`LeaseService.Checkout`. `AcquireOk/AcquireRefused/AcquireConflict` and `HandBack` are
the acquire and what follows a conflict; `Get`, `PutWrites`, `PutReplayed`,
`PutConflicts`, `MoveFails` are `MoveTaskStatus` with its attempts; `GiveBack` is the
release after a failed move. Any answer may be lost after the call took effect,
sessions die, leases lapse, and a person edits and moves the card.

### Decisions

State: `attempt` and `board` are what the snapshot of a decision names, `decision` the
rows of all four kinds, `replies` how often the provider was answered per request
identity. `CreateDecision`, `Decide`, `ClaimDecision` and `ResolveDecision` are the four
requests, each one transaction; a claim's answer may be lost. `AttemptStarts`,
`AttemptMoves`, `TaskMoves` and `RepositoryMoves` are the rest of the store. `seen` and
`sent` are ghosts, the view at the decision and at the claim: the revisions, the state of
the attempt and the instant. `ConsentHonoured` compares the two, and the second with the
deadline. `HasRoom` has both limits, on unresolved decisions and on all decisions of a run.

### Enhancements

State: `card` the tasks with text and locks, `settings` the automation row, `due` the
debounce queue, `job` the proposals. One action per request: `CreateJob`, `Prepare`
(the queue), `ClaimJob`, `Publish`, `Fail`, `Recover`, `Dismiss`, `ReviseJob`, `Accept`,
`Undo`, `PutSettings`, and the task requests that queue, invalidate or end proposals:
`Save`, `DeleteCard`, `RestoreCard`. `OneJob` says two things of the shared gate: at most one
job that runs or may still run, and at most `Quota` automatic jobs created in any hour.

### Notices

State: `events` the sequences still in `work_events`, `notice`, `bell` (settings) and
`delivery` the three tables, `notifier[h]` what each host is doing. `Raise` is
`record_event` inside the transaction of a run, proposal or decision. Listing, claiming,
showing and reporting are separate steps of a host; a claim's answer may be lost and
hosts die. The three kinds of mute are one, and quiet hours are a choice of the host.

### GapHistory

State: `gapOf` is `gaps`, `runOf` is `gap_runs`, `history` is `gap_history`; `found` is a
ghost, what every run of a task reported. `GapsReplace` stands for `gaps-replace` and the
verification commit, `GapUpsert` and `GapUnfiled` for a single gap. `Recounted` is the
reference definition, computed from `found`. Which run a report belongs to is the store's
own numbering, that is the order of the commits. Two verifications that overlap are two
runs in that order, and `GapsTrue` says that the incremental history is right for it. It does
not say which of the two looked at the newer tree: the store is not told.

### Grants

State: `ledger`, `counter` and `permit` in memory, `caller[c]` a call that has changed the
ledger and not yet run its hook, `saved` the file. Every call is a step under the lock;
`WriteDown` is the hook, which runs after the lock is released and before the call
answers. The repository has no host that persists: the one in the model writes the
whole ledger in the hook, one write at a time, to a file that is its alone. `Restart`
loads the file under the policy of the new day.

### ServePool

State: `used` and `idle` are the semaphore and the idle children, `child` the processes with
what they were asked and what they wrote, `request` the calls, `path` the file at the
database path. `TakeSlot`, `Borrow`, `BorrowStale`, `BeginStart`, `Started` and the start
that comes too late are `take`; `ReadReply`, `Breaks` and `Deadline` are `runServed`;
`Put`, `Retire` and `CloseAll` as in the code; `Serve` is one turn of the child's loop.
`adopted` is a ghost, set when a child is borrowed that was started without a file and has
opened one that has since lost the path (`Adopts`); only its replies are exempt from
`FromThePath`. `Owned` are the children that a slot answers for. A start that outlives its
deadline gives its slot back and is `abandoned` until it is killed. `PoolBounded` bounds the
owned children by the slots, and says of an abandoned one that it is asked nothing, belongs
to no call and is never idle. Abandoned starts have no bound of their own (section 4).

### MapDaemon

State: an edit travels `tree` -> `os` -> `events` -> `buffer` -> `queue` -> `gen`.
`overflowed` and `collapsed` are the marks of the two in-memory stages that drop under
load; `unapplied` is the record of edits the daemon could not queue; `job` is what the
daemon's loop is doing (sweep or drain, with what it claimed, read and the HEAD it
read), `build` the same of `devmap build`. `Offer`, `Consume`, `AnswerOverflow` and
`Flush` are the watcher; `BeginSweep`, `Read`, `Compare`, `EndSweep` the connect-time sweep
and its repetition; `BeginDrain`, `ReadHead`, `Read`, `CollectFails`, `EndCollect`,
`Save`, `Ack` the drain; `BeginBuild`, `Classify`, `Drop`, `BuildRead`, `BuildSave`,
`BuildClear`, `BuildDies` the build. `Start`, `Stop`, `Exit`, `ExitUnquiet` and `Kill` are
the daemon's life. `missed` is a ghost: what changed with no daemon there to see it, or
in a batch it could not queue. A notice about HEAD concerns every path.

A file may be `Unreadable`. A drain that meets one under a rescan keeps its stored row and
acknowledges the rescan; one that was sent to it by name fails, and the row is tried again
until it is quarantined. The sweep's walk does not list it (`Found`): without a stored row it
is logged and not queued, with one it is queued by name as if it were gone. A full scan and a
build write a generation without it. The inventory in which discovery lists what it was
refused is a report and is left out.

`Admit` is `enqueue_pending_paths_under_root`: it may leave out single paths of a batch that it
otherwise takes, with a warning and no record. Which paths it cannot decide depends on
`CACHEDIR.TAG` and on the root, and is a free choice in the model; the control token for HEAD is
always taken. `turned` is a ghost, the paths left out since they last changed or were last queued.

`NoLostEdit`, `CatchesUp` and `SweepSettles` therefore say nothing of two kinds of path: a file
that nobody may read at the time (`Agrees`), until it can be read again, which is a change and
is noticed; and a path in `turned`.

### Endpoint

State: `named` is the lock file at its path, known by who created it, `opened[s]` the one
each process has open, `socket` the socket at its path. Every system call of
`lock_ipc_endpoint`, `bind` and `drop` is a step; bind and listen are two. A lock ends
with its holder, a socket's file does not. `detached` is a ghost: processes that locked
a lock file which had already lost its name.

### MCDesk and MCTaskLease

Eight modules share no variable. `MCDesk` extends them all, and its variable `desk` picks
the one whose steps a behaviour takes, so that one run checks them and their state
spaces add up. The names `x1`, `x2`, `x3` stand for decisions, proposals, sessions,
calls, hosts and daemons, never two of them in one behaviour, which keeps the symmetry
group small. `Small` limits the combinations of bounded quantities, as the comments
there say. In the same way `MCTaskLease` lets a behaviour be a day of calls on one task
or a day of listings of two.

## 3. Runs

All runs end within four minutes on two workers. Deadlock checking is off because every
model may stop: the clock and the identifiers are bounded.

| Run | Instance | Shows |
|---|---|---|
| `lease` | 2 clients, 2 leases, clock to 2, crashes; one task with 2 paths to widen, or two tasks with board edits and unreadable expiries; 520 thousand states | `OneActive`, `AnswersTrue`, `NoLostWidening`, `OffersComplete`, `EndedForever`, `StaleOnlyLapsed`, and that `TaskLease` implements `LeaseHolder` |
| `lease_lapse` | 2 clients, 1 task, leases with and without expiry, fairness | `LapsedCleared` |
| `runs_safety` | 3 runs, 2 hosts, 3 trees, 2 places, limits 1 and 2, 2 edits; 1.1 million states | `OneRunPerCheckout`, `CapacityKept`, `OneWriter`, `EndedIsOver`, `InPlace`, `DeletedNotInUse` |
| `runs_ends` | 2 runs, 3 hosts, both adapters, fairness | `ProviderHasProcess`, `OrphanFreed` |
| `ledger` | 4 requests; a task, a workspace, a run; 2 policies; clock to 2 | `AtMostOnce`, `ClaimOnce`, `ReceiptsReadable`, `RetryFinds`, `LogAnchored`, `HistoryKept` |
| `map` | 2 files, capacities of 1, six families of faults, fairness; 915 thousand states | `NoLostEdit`, `CatchesUp` |
| `desk` | the eight modules of `MCDesk`; 718 thousand states | `ConsentHonoured`, `AnsweredOnce`; `OneJob`, `OffMeansOff`, `CurrentApplies`; `OwnWorkShown`, `NoLeaseLeft`, `NoEditOverwritten`; `GapsTrue`; `OwnReply`, `FromThePath`, `PoolBounded`; `OverIsOver`, `UniqueIds`; `BannersWanted`; `OrphansFromDetached` |
| `renew_refused` | 2 clients, 1 lease | finding: `RefusedRenewalTrue` is violated |
| `ledger_scan` | 3 requests, 2 tasks, clock to 3 | finding: `ScanDecides` is violated |
| `map_sweep` | a daemon that starts during a build | finding: `SweepSettles` is violated |
| `checkout_again` | 2 sessions of one client, 1 fault | finding: `NoInvisibleWork` is violated |
| `endpoint` | 3 daemons | finding: `ServersReachable` is violated |

The type invariants are not runs of their own: TLAPS proves one for every module, as a
theorem or as a part of the inductive invariant, over the variables its properties rest on.

**Bounds, and why they are enough.** The races in the lease store are between two
calls, or a call and an acquire: two clients give every pair, and an acquire is not
tied to a client. Two leases give a stale, a stolen and a new one; a ttl of 1 and a
clock to 2 put a step before, at and after the expiry, which is where
`now <= expires` decides. Two passes of the expiry loop reach both the retry and
the giving up. Two tasks are needed for the sweep to go on from one to the next; one
item off ready or one unreadable expiry at a time is what the sweep can trip over, and
one renewal at a time what it can meet. A widening reads the scope and who holds the
lease, so it meets one release or renewal, and two of these meet each other without it.
Three runs and limits 1 and 2 let a preparation expire while two others are live; a
third run is tried only on an untouched board, since no board change reads what it adds.
Two places suffice for a relink; two edits for a delete and a restore. Four requests
complete prepare, claim and finish with one more in between, or create, delete, restore
and a late retry. A window of 1 and a clock to 2 prune everything that can be pruned; a
pass that deletes one row at a time and one that deletes all of them cover the limits.

In `map` capacities of 1 make every stage overflow, and a batch limit of 2 against four
kinds of queue entry makes a drain leave some behind. A *budget* says how often the
outside may do what. Each of the six families opens one kind of trouble: bursts
(3 edits, a drop, 2 faults), checkouts (an edit, a branch switch whose rewrites the
watcher may miss), restarts (2 edits, a refused write, a stop or a kill, 2 starts),
builds (3 edits, a build, a fault), files that cease to be readable (3 edits and a drop,
2 edits and a start, an edit and a checkout, 2 edits and a build: one for each walk that can
meet such a file) and paths turned away (2 edits, a drop, a refused write, a start). Families are not combined: a build together with
starts, refusals, stops or silent checkouts is outside `map`, and `map_sweep` shows that
build and start together do break the record. In `desk` two sessions, hosts or
proposals give every pair; three calls on two slots let one wait; three daemons are one
that stops, one that waited and the next. One lost answer or death at a time is
enough for every retry. The proofs do not depend on any of these bounds; those about
`MapDaemon` have a hypothesis that stands for the families not being combined (section 5).

**Symmetry.** Identifiers are only compared for equality, so permutations are sound
in the safety runs; the three runs with liveness use none.

**Fairness.** `lease_lapse` assumes that a call that has begun continues (a process
that is scheduled) and that hosts keep asking for work: `devcouncil_next_task` calls
`ready_tasks`, and nothing else ever sweeps. That assumption is strong fairness of
`BeginReady`, since a client may be busy with other calls in between. Crashes are off
in that run; an endless series of crashes in the middle of the sweep would refute
any such promise. `runs_ends` assumes weak fairness of `Reconcile` by some host that
is up, and one host that stays up. Nothing is assumed of owners, processes, claims or
the clock. `map` assumes weak fairness of the watcher thread, of the callback that offers
events, of the daemon's loop and of a build under way: threads that can run do. Nothing
is assumed of users, git, the kernel, starts or stops; the bounded budget brings the
outside to rest.

**Time.** All models let the clock only advance. The code uses the wall clock; one
that is set back is outside what these models say.

## 4. Findings

Each is a sentence in a comment that the code does not keep. None breaks the exclusion
of leases or runs.

* `renew_refused`, `lib.rs:774`. `renew` refuses by the expiry that `active_lease` read.
  If the same holder has renewed in the meantime, a token that held the lease
  throughout is told it did not, although the comment on the UPDATE says another
  renewal by this holder remains valid.
* `ledger_scan`, `mod.rs:1074`. `put_item` looks for board changes after
  `scan_sequence` in `work_events`, which compaction prunes; nothing compares the
  sequence with the oldest retained one. A creation decided on a scan older than the
  event retention is accepted although the board has changed since.
* `map_sweep`, `daemon.rs:1886`. A completed sweep clears the record of missed edits
  because "whatever those batches named is now either indexed or queued by name". The
  sweep takes no writer lock: a build that scanned earlier may publish later, and the
  files it read before they changed back are then wrong, and neither queued nor on record.
* `checkout_again`, `lease.go:158`. "A lease on a task the board still shows as ready would
  be invisible work." A client whose acquire was answered into the void, or whose
  session died before the move, is handed its own lease on the next checkout, and the
  card stays ready.
* `endpoint`, `protocol.rs:2263`. The lock file is removed before the lock is let go of,
  which the comment calls "the ordering that keeps the window shut". A starter that had
  the file open locks it afterwards and never looks whether it still has its name; the
  next starter locks a new file. Both go on, and if the second probes between the
  first's bind and listen it removes a socket that is about to serve. `OrphansFromDetached`
  says that this is the only way: without a nameless lock a daemon keeps its socket.

Seen while modelling, without a run of their own:

* `lib.rs:769`. The clock `renew` compares with is read before its UPDATE waits for the
  write lock. A lease that lapses during the wait is extended, although the comment at
  line 759 says renewal does not resurrect a dead lease.
* `runs.rs:296` says only the recorded host may end an unresolved launch, while
  `runs.reconcile` (`runs.rs:150`) lets another host do so, as its own comment says.
* `records.rs:509` names clear-and-upsert as the Go client's spelling of a replacement; the
  client uses `gaps-replace`. A gap's id is unique across tasks, so a row of another
  task makes a replacement fail.
* `mod.rs:1029`. An absorbing relink deletes a repository's row and leaves its revisions;
  the same id registered again meets them at revision 1.
* `engine.rs:196`. Query envelopes report freshness by the queue and do not read the record
  of unapplied edits. `build.rs:792` reads HEAD for the stamp after the scan. A HEAD that
  moves and moves back during a drain is not noticed. A repair of pending paths drops the
  writer lock before it reconciles.
* A second session of the same client is handed the token of a first whose move is under
  way; if that move fails, the first releases the token the second was given. A lost
  answer to the put leaves the card in progress and the lease given back.
* Undo compares texts by value: a text changed and changed back is undone.
* `serve.go:190`. A child that was started before the database existed takes the first file
  it finds for its own. `closeAll` of a pool that was never used closes nothing, and a
  later call starts a process; a child put back after `closeAll` stays idle until the
  lifetime ends it.
* `serve.go:361` says the semaphore bounds how many store processes exist. A start whose
  caller's deadline passes gives its slot back at once, while the process it is about to
  have is ended later, so for that time there may be one more for every such start.
* `pending.rs:379`, `daemon.rs:2440`. A path whose `CACHEDIR.TAG` or root cannot be examined is
  refused with `Ok`, and the daemon logs it as outside the tree. Nothing is recorded, so the
  edit is not seen until the path changes again or the next sweep.
* `Ledger.Restore` refuses entries without advancing the counter past their ids: a refused
  grant's id is given out again, and its record is gone at the next write. A host that
  read the ledger and wrote it in two steps that are not serialised could bring back a
  spent grant.
* The coalescing lock of `devmap-cli/src/hook.rs` (from line 2020) judges a lock stale and
  removes it in two steps, by path: a second hook may remove the first one's new lock.

## 5. Proofs

TLAPS checks eight proof modules. Every safety property of a passing run, invariant or
action property, is a theorem there. Each specification has an inductive invariant from
which its theorems follow. The assumptions are those named in the models:
`BoundsAssumption` and `NullAssumption` (TaskLease), `RunsAssumption`, `LedgerAssumption`,
`MapConstants`, `DecisionConstants`, `CheckoutConstants`, `EnhancementConstants`,
`GapConstants`, `GrantConstants`, `NoticeConstants`, `PoolConstants` and `EndpointConstants`. They
give constants their types and say that null values are not ordinary ones. `RunsAssumption`
and `MapConstants` add that there are finitely many runs and paths; `GrantConstants` that a
blocked action names a task. TLC evaluates all of them.

| Module | Theorem | States |
|---|---|---|
| `TaskLeaseProofs` | `TypeCorrect` | `[]TypeOK` |
| | `MutualExclusion` | `[]OneActive` |
| | `EndedLeasesFrozen` | `EndedForever` |
| | `OnlyLapsedOrForced` | `StaleOnlyLapsed` |
| | `Refinement` | `HolderSpec`: the store implements `LeaseHolder` |
| | `AnswersWereTrue`, `ListsComplete`, `WideningsKept` | `[]AnswersTrue`, `[]OffersComplete`, `[]NoLostWidening` |
| `WorkRunsProofs` | `RunsTyped`, `CheckoutExclusive`, `CapacityBounded` | `[]RunsTypeOK`, `[]OneRunPerCheckout`, `[]CapacityKept` |
| | `WriterExclusive`, `EndedRunsOver` | `[]OneWriter`, `[]EndedIsOver` |
| | `RelinkRespectsRuns`, `DeleteRespectsRuns`, `ReportsGrounded` | `[]InPlace`, `[]DeletedNotInUse`, `[]ProviderHasProcess` |
| `RequestLedgerProofs` | `LedgerTyped`, `EffectOnce`, `LaunchOnce` | `[]LedgerTypeOK`, `[]AtMostOnce`, `[]ClaimOnce` |
| | `ReceiptsAnswer`, `RetriesAnswered` | `[]ReceiptsReadable`, `[]RetryFinds` |
| | `LogKept`, `LiveHistoryKept` | `[]LogAnchored`, `[]HistoryKept` |
| `CheckoutProofs` | `CheckoutTyped`, `EditsSafe` | `[]CheckoutTypeOK`, `[]NoEditOverwritten` |
| | `ErrorsLeaveNoLease`, `OwnWorkVisible` | `[]NoLeaseLeft`, `[]OwnWorkShown` |
| `EnhancementsProofs` | `EnhancementTyped`, `OneCall` | `[]EnhancementTypeOK`, `[]OneJob` |
| | `SwitchedOff`, `CurrentFits` | `[]OffMeansOff`, `[]CurrentApplies` |
| `ServePoolProofs` | `RepliesReachTheirCalls`, `AnswersAreFromThePath`, `PoolStaysBounded` | `[]OwnReply`, `[]FromThePath`, `[]PoolBounded` |
| `DeskProofs` | `DecisionsTyped`, `ConsentKept`, `AuthorityOnce` | `[]DecisionTypeOK`, `[]ConsentHonoured`, `[]AnsweredOnce` |
| | `HistoryIsTrue` | `[]GapsTrue` |
| | `SpentStaysSpent`, `IdsAreUnique` | `[]OverIsOver`, `[]UniqueIds` |
| | `BannersAreWanted` | `[]BannersWanted` |
| | `EndpointTyped`, `OrphansExplained` | `[]EndpointTypeOK`, `[]OrphansFromDetached` |
| `MapDaemonProofs` | `EditsAreNotLost`, `EditsAreNotLostApart` | `[]NoLostEdit`, while builds and sweeps are kept apart |
| | `SweepsSettleApart` | `[]SweepSettles`, on the same condition |

**Leases.** `LeaseInv == StoreType /\ RetirePast /\ OneActive`. `RetirePast` is what
`StaleOnlyLapsed` needs beyond exclusion: a call that is about to retire has judged
an expiry that is past, and stays past because the clock only advances; together
with the conditional UPDATE the stored expiry is then past too. Every step but an
acquire is `Quiet`: rows that are not active are left alone, an active row keeps its
task and ends as released or, once past its expiry, as stale, and the rows of one
task at most are written. An acquire retires all rows of its task before it adds
one. The refinement needs `OneActive`: a quiet step that ends a row empties the
holder of its task, which is a `Drop` only because the row was the sole one.

**What clients are told.** `ToldInv` adds to `LeaseInv` what each call in progress knows.
`Shaped` and `Presented` say which statements a call comes to and that a token was issued
before it was presented. `Witnessed`: what a call is about to answer was true at an instant
it has been through, so that a later change cannot make the answer a lie. `Swept`: a task
that was offerable throughout has no row left, or the sweep has still to come to it, or is
at it with an expiry that is past. `Widened`: what was answered as written is in the scope.
`Grows` is what every step of anybody keeps (the clock, issued and ended rows, scopes) and
carries all five over the steps of the other clients. A sweep's argument rests on a lease
that is live when read not being offerable then, so no such task is still owed.

**Runs.** `RunsInv` is types, `RunningRecorded`, `ProviderHasProcess`,
`OneRunPerCheckout`, `CapacityKept`, `InPlace`, `DeletedNotInUse` and `Accounted`.
`RunningRecorded` (a running attempt has a process on record) is needed because the
first provider report is accepted in state running. `Accounted` ties the rows to the
world: a process that runs, or that a live host may start, belongs to a claimed row.
It turns exclusion of rows into exclusion of processes (`OneWriter`) and the end of a
row into the end of its process. The critical steps are a claim, which keeps a row
active and never makes a second one active because an unexpired preparation already
held the tree, and the passing of time, which only removes preparations.

**Requests.** `LedgerInv` is types, `RevsBelow`, `LogTrue`, `AtMostOnce`,
`ReceiptsReadable`, `GrantsSpent`, `RetryFinds`, `LogAnchored` and `HistoryKept`.
`LogTrue` carries `AtMostOnce`: an event tells what its request asked for, and its
record is at that revision or beyond. A request that took effect therefore expects a
revision its record has left behind for good, so it is refused without its receipt
too. `RevsBelow` keeps a record's revision the largest in its history, which is why a
rule that spares the newest revisions spares the current one. `GrantsSpent` says that
a run whose claim was answered is past its claim, and stays so.

**Decisions.** `DecisionInv` is types, `Begun`, `Snapshot`, `ConsentHonoured`,
`UniqueIdentity`, `RepliesSpent` and `AnsweredOnce`. `Snapshot` carries consent: a live
decision was decided on the revisions its attempt was prepared on, `Begun` says these no
longer change, and that the attempt of a host's decision has ended and stays so; a claim is
fresh only while all this is still current and the deadline is ahead. So what was seen and
what is sent are the same, and what is sent is in time. `RepliesSpent` (a reply has a decision past its claim
behind it) and the unique index carry `AnsweredOnce`.

**Checkout.** `CheckoutInv` is types, `EmptyHanded`, `TokenIssued`, `ReadTrue`,
`ReceiptsPast`, `OwnMoved`, `NoLeaseLeft` and `NoEditOverwritten`. `ReadTrue` says that a put
whose revision would be accepted carries the edits that are there. `OwnMoved` extends
`OwnWorkShown` to a session whose put will be answered by a receipt; `ReceiptsPast` puts
that receipt before the item's revision, so a session that has just read the item cannot
be answered by one.

**Proposals.** `EnhancementInv` is types, `OneJob`, `OffMeansOff` and `Sourced`: a proposal's
task is not behind the revision it was made on, and at that revision it says what it said
then and has no lock on the proposal's fields. `CurrentApplies` follows. The quota in `OneJob`
needs nothing else: time only makes the set of recent jobs smaller, and an ended job stays
in it. Every request is
brought to one of a few lemmas: a step that writes one proposal, one that writes one card
to a later revision, one that ends proposals.

**Gap history.** The recount is a function of the set of run numbers that reported the gap;
the store updates one row per sighting. `GapInv` says that `found` has as many entries as
the run counter says, that a listed gap was in its task's last run, and that the history is
the `Tally` (first, last, occurrences, resurfaces) of that set. The lemma `NextTally` is the
heart: one sighting more is the tally of the set with the current run added, whether
that run had reported the gap already, followed the last one that did, or came after a gap
in the numbers. No induction over runs is needed.

**Grants.** `GrantInv` is types, `Numbered`, `Spent` and `ClearedOnce`. `Numbered`: ids and serials
are given out upwards and are distinct in both lists, memory and file; every serial is
below the number issued, also over a restart that refuses a part of the file. `Spent`: what
was answered is marked in both lists, what is about to be answered in memory. Between
change and write the two differ, and a crash there brings back only what nobody was told.

**Notices.** `NoticeInv` is types, `Rooted` (only a kept event has a notice, only a notice a
delivery), `Marked` and `ShownOnce`. `Marked` is where compaction could break the promise: the
mark is the largest sequence still in the table, and is past everything missed because the
newest event is never pruned.

**Process pool.** `PoolInv` is types, `Owners`, `SlotsCounted`, `OwnedBound` and, per call and per
child, `CallOK` and `ChildOK`. `Owners`: an owned process is idle or has one call. `CallOK`
carries the replies: on the pipes of a call's child is its request or its reply and nothing
else, so order is enough to tell replies apart; a child after a missed deadline is retired,
never idle. `ChildOK`: an idle child has empty pipes, and one whose file is the path's has the
file it was started under, as no file comes back to the path; a start, abandoned or not, has
been asked nothing.

**Endpoint.** `EndpointInv` is types, `HasOpened`, `OneLocker` (the kernel's lock) and, as
long as nobody locked a nameless file, `LockNamed` (a lock's file has the path until its
holder removes it) and `SocketKept`. Two processes between lock and removal would both
have the file at the path locked, so there is one, and only it touches the socket.

**Code map.** `MapInv` is types, `Bounded`, `Separate`, `Turns`, `Sound`, `SweepOK`, `DrainOK` and
`BuildOK`. `Sound` is `NoLostEdit` made exact: a path that differs is named in memory or in the
queue, covered by a rescan, announced by a HEAD the generation has not followed, or known to
be missed by a record or by the start that is to come. The other three say, for each actor
that is about to forget something, that every path it leaves behind is right in what it
writes or announced by what it does not forget: for the drain the rows with a revision
later than it claimed, for the sweep any notice, for the build the rows above its watermark.
Being turned away counts as announced (`Sent`), and `Agrees` makes an unreadable file right
whatever the map has. `Admitted` brings every batch the store takes to `Heeded`: of each path it
named, someone is newly sent there or it is turned away. `Turns` is the writer lock, `Bounded` keeps every watermark at or below its counter, so that
a new row is above all of them.

*The hypothesis.* `Separate`: while a build is under way nothing is to be swept for (no record
is open, the daemon is neither starting nor sweeping) and git's rewrites are noticed. It
cannot be dropped, as `NoLostEdit` is then false of the code: a build that read a file before
it changed publishes after a sweep found the tree equal to the old generation, the sweep
clears the record and the build clears the queue (the finding `map_sweep`); and a checkout
whose rewrites nobody notices, during a build, is covered by the notice about HEAD alone, but
the build stamps a HEAD it read after its scan. `EditsAreNotLost` and `SweepsSettleApart` have
`[]Separate` as a hypothesis on the behaviour. The sweep theorem also excludes silent checkouts.
`EditsAreNotLostApart` needs none on the behaviour: `Apart` says of the constant `Budgets` that
none has builds together with refusals, starts or silent checkouts, and every family of the
run `map` satisfies it. All else, any number of files, edits, capacities, restarts and
builds in any order, is covered.

**Only model-checked.** The liveness properties `LapsedCleared`, `OrphanFreed` and `CatchesUp`:
fairness and ENABLED are beyond the prover. Properties that runs refute (section 4) have no
theorem, except `SweepSettles` with its hypothesis.

## 6. Not modelled

Text and data conversions (timestamps, JSON, briefs, diffs, globs), reads and pages
that change nothing, SQLite's own crash recovery, and the parts that analyse source
code (`devmap-extract`, `devmap-resolve`, `devmap-analyze`, `devmap-query`, `dc-verify`,
`dc-grep`, `policy`), whose difficulty is in data and not in the order of steps. They are
most of the repository: parsers for some thirty languages, name resolution, ranking and
command lines. Each is a function of large and irregular input, which a model of a few
values would restate or trivialise; the models therefore stand for a few per cent of the
lines, those that carry shared state. Legacy import, installation and release are
sequential I/O. Of the daemon, the messages on the socket, admission, pacing, the named
pipe of Windows and the freshness walk are left out.

## 7. Plan

What is left, most important first:

1. Action properties of the proved modules that follow from their invariants: what a
   compaction, a restart or a stop of the daemon may never do.
2. Abstract specifications for the request path (each request takes effect at most once, in
   one step) and for the pool (a call is answered or fails), and their refinement.
3. Repositories in `RequestLedger`, with the absorbing relink and re-registration.
4. The coalescing lock of the editor hook (`hook.rs`).
5. Schema upgrade of a file in use, and the verdict of a verification as a function
   checked against its definition.
