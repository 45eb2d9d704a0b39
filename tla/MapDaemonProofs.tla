-------------------------- MODULE MapDaemonProofs --------------------------
(***************************************************************************)
(* Why no edit is lost between the tree and the map.  For every file that  *)
(* the map has wrong, a notice is in memory or queued, or the loss is on   *)
(* record (Sound); each of the three readers of the tree, the sweep, the   *)
(* drain and the build, carries the same statement about what will be left *)
(* once it clears what it is about to clear (SweepOK, DrainOK, BuildOK).   *)
(* A path that the store turned away by name is the one thing forgotten,   *)
(* and a file that nobody may read is never wrong (Agrees).                *)
(***************************************************************************)
EXTENDS MapDaemon, TLAPS

Row == [rev : Nat, attempts : Nat]
Job == [stage : {"idle", "boot", "sweep", "compared", "head", "collect", "save", "ack"},
        claims : [Items -> Nat], failed : SUBSET Items, todo : SUBSET Paths,
        got : [Paths -> Content \cup {Unread}], head : Nat, mark : Nat, first : BOOLEAN]
Build == [stage : {"none", "classify", "drop", "scan", "clear"},
          doomed : [Items -> Nat], mark : Nat, todo : SUBSET Paths,
          got : [Paths -> Content \cup {Unread}], same : BOOLEAN]

MapTypeOK ==
    /\ tree \in [Paths -> Content] /\ head \in Nat
    /\ os \in SUBSET Items /\ events \in Seq(Items) /\ overflowed \in BOOLEAN
    /\ buffer \in SUBSET Items /\ collapsed \in BOOLEAN
    /\ queue \in [Items -> Row] /\ revision \in Nat
    /\ gen \in [files : [Paths -> Content], head : Nat]
    /\ life \in {"down", "up", "stopping"}
    /\ unapplied \in Nat /\ marks \in Nat
    /\ job \in Job /\ build \in Build
    /\ missed \in SUBSET Paths /\ turned \in SUBSET Paths /\ left \in Budget

\* Every number handed out is at most the counter it is from.
Bounded ==
    /\ \A i \in Items : /\ job.claims[i] <= queue[i].rev
                        /\ queue[i].rev <= revision
                        /\ build.doomed[i] <= revision
    /\ build.mark <= revision
    /\ job.mark <= marks /\ unapplied <= marks
    /\ gen.head <= head /\ job.head <= head

\* A build runs only where there is nothing to sweep for, and HEAD is never the
\* only notice of a checkout.
Quiet ==
    /\ unapplied = 0 /\ job.stage \notin {"boot", "sweep", "compared"}
    /\ ~left.silent
Separate == build.stage # "none" => Quiet

\* One writer at a time, and a daemon that is not up has no job.
Turns ==
    /\ job.stage # "idle" => life = "up" /\ build = NoBuild
    /\ job.stage = "idle" => job = Idle
    /\ job.stage \in {"boot", "sweep", "compared"} => job.claims = NoClaims
    /\ job.todo # {} => job.stage \in {"sweep", "collect", "save"}
    /\ build.stage = "none" => build = NoBuild
    /\ build.todo # {} => build.stage = "scan"

\* What the next sweep is owed for: a record is open, or a start is to come.
Known == IF unapplied # 0 \/ life = "down" THEN missed ELSE {}

\* The notices S send someone to p: by name, as part of the whole tree, or
\* because HEAD has left h.  Nobody is where the store turned p away.
Sent(p, S, h) ==
    \/ p \in S \/ Rescan \in S \/ (left.silent /\ GitHead \in S /\ h # head)
    \/ p \in turned

\* The rows that stay when the drain acknowledges, when the build clears what it
\* superseded, and when it drops what it found idle.
Standing == {i \in Queued : ~Answered(i)}
Newer == {i \in Items : queue[i].rev > build.mark}
Spared == {i \in Queued : ~Doomed(i)}

\* NoLostEdit, with the two clauses that have to survive a crash made exact.
Sound == \A p \in Paths :
    Agrees(p, gen.files[p]) \/ Sent(p, InMemory \cup Queued, gen.head) \/ p \in Known

\* What a sweep has read is as the tree is, or somebody is sent there again.  It
\* owes nothing for a record other than the one it began with.
SweepOK ==
    /\ job.stage = "sweep" /\ unapplied = job.mark => \A p \in Paths \ job.todo :
          Agrees(p, job.got[p]) \/ Sent(p, InMemory \cup Queued, gen.head)
    /\ job.stage = "compared" /\ unapplied = job.mark => \A p \in Paths :
          Agrees(p, gen.files[p]) \/ job.got[p] # Unread \/ Sent(p, InMemory \cup Queued, gen.head)

\* What happened to p since the drain claimed its batch is still said.
Fresh(p) == Sent(p, InMemory \cup Standing, job.head) \/ p \in Known

Wants(p) == p \in Claimed \ job.failed \/ Rescan \in Claimed \ job.failed

\* The drain may forget what it claimed: each path it leaves behind is right in
\* the generation it writes, or fresh.
DrainOK ==
    /\ job.stage = "head" => job.got = Nothing /\ job.failed = {}
    /\ job.stage = "collect" => \A p \in Paths :
         /\ Wants(p) => p \in job.todo \/ (job.got[p] \in Content /\ (Agrees(p, job.got[p]) \/ Fresh(p)))
         /\ ~Wants(p) => /\ job.got[p] = Unread
                         /\ p \notin job.todo
                         /\ Agrees(p, gen.files[p]) \/ Fresh(p) \/ (left.silent /\ Moved)
    /\ job.stage = "save" => \A p \in Paths \ job.todo : Agrees(p, Carried(p)) \/ Fresh(p)
    /\ job.stage = "ack" => /\ gen.head = job.head
                            /\ \A p \in Paths : Agrees(p, gen.files[p]) \/ Fresh(p)

\* The build may forget the rows it found idle, and those up to its watermark.
BuildOK ==
    /\ build.stage = "drop" => \A p \in Paths :
          Agrees(p, gen.files[p]) \/ Sent(p, InMemory \cup Spared, gen.head) \/ p \in Known
    /\ build.stage = "scan" => \A p \in Paths \ build.todo :
          /\ build.got[p] \in Content
          /\ Agrees(p, build.got[p]) \/ Sent(p, InMemory \cup Newer, gen.head) \/ p \in Known
    /\ build.stage = "clear" => \A p \in Paths :
          Agrees(p, gen.files[p]) \/ Sent(p, InMemory \cup Newer, gen.head) \/ p \in Known

MapInv == MapTypeOK /\ Bounded /\ Separate /\ Turns /\ Sound /\ SweepOK /\ DrainOK /\ BuildOK

-----------------------------------------------------------------------------
\* Somebody is newly sent to p, or p is turned away.
Heeded(p) == p \in turned' \/ queue'[p].rev > revision \/ queue'[Rescan].rev > revision

\* A step that neither the daemon's loop nor a build takes: what is forgotten is
\* queued, replaced by a rescan or on record, and what changes is noticed.
Onward ==
    /\ UNCHANGED <<job, build, gen, life>>
    /\ \A i \in Items : queue'[i].rev = queue[i].rev \/ queue'[i].rev > revision
    /\ \A i \in InMemory :
          \/ i \in InMemory' \/ Rescan \in InMemory' \/ queue'[i].rev > revision
          \/ \A p \in Concerns({i}) : Heeded(p)
          \/ unapplied' > marks /\ Concerns({i}) \subseteq missed'
    /\ \A p \in turned : Heeded(p) \/ tree'[p] # tree[p]
    /\ missed \subseteq missed'
    /\ unapplied' = unapplied \/ unapplied' > marks
    /\ \A p \in Paths :
          \/ tree'[p] = tree[p] \/ p \in InMemory' \/ Rescan \in InMemory'
          \/ left.silent /\ GitHead \in InMemory' /\ head' > head
          \/ life = "down" /\ p \in missed'
    /\ head' >= head /\ left'.silent = left.silent

LEMMA MemoryTyped == MapTypeOK => InMemory \subseteq Items
  BY DEF MapTypeOK, InMemory, Items

LEMMA OnwardKeeps ==
  ASSUME MapInv, MapTypeOK', Bounded', Separate', Onward
  PROVE  MapInv'
  <1>1. job' = job /\ build' = build /\ gen' = gen /\ life' = life /\ left'.silent = left.silent
    BY DEF Onward
  <1>2. Turns'
    BY <1>1 DEF MapInv, Turns, NoBuild, Idle, NoClaims, Nothing
  <1>3. ASSUME NEW i \in Items
        PROVE  /\ queue[i].rev \in Nat /\ queue'[i].rev \in Nat /\ revision \in Nat
               /\ job.claims[i] \in Nat /\ build.doomed[i] \in Nat /\ build.mark \in Nat
               /\ queue[i].rev <= revision /\ job.claims[i] <= revision
               /\ build.doomed[i] <= revision /\ build.mark <= revision
    <2>1. job \in Job /\ build \in Build /\ queue[i] \in Row /\ queue'[i] \in Row /\ revision \in Nat
      BY DEF MapInv, MapTypeOK
    <2>2. /\ queue[i].rev \in Nat /\ queue'[i].rev \in Nat /\ job.claims[i] \in Nat
          /\ build.doomed[i] \in Nat /\ build.mark \in Nat
      BY <2>1 DEF Row, Job, Build
    <2>3. /\ queue[i].rev <= revision /\ job.claims[i] <= queue[i].rev
          /\ build.doomed[i] <= revision /\ build.mark <= revision
      BY DEF MapInv, Bounded
    <2>4. QED
      BY <2>1, <2>2, <2>3
  <1>4. ASSUME NEW i \in Items, queue'[i].rev > revision
        PROVE  i \in Queued' /\ i \in Standing' /\ i \in Newer' /\ i \in Spared'
    BY <1>1, <1>3, <1>4 DEF Queued, Standing, Newer, Spared, Answered, Claimed, Doomed
  <1>5. ASSUME NEW i \in Items
        PROVE  /\ i \in Queued => i \in Queued'
               /\ i \in Standing => i \in Standing'
               /\ i \in Newer => i \in Newer'
               /\ i \in Spared => i \in Spared'
    <2>1. CASE queue'[i].rev > revision
      BY <1>4, <2>1
    <2>2. CASE queue'[i].rev = queue[i].rev
      BY <1>1, <2>2 DEF Queued, Standing, Newer, Spared, Answered, Claimed, Doomed
    <2>3. QED
      BY <2>1, <2>2 DEF Onward
  <1>6. head \in Nat /\ head' \in Nat /\ gen.head \in Nat /\ job.head \in Nat /\ head <= head'
        /\ gen.head <= head /\ job.head <= head /\ unapplied \in Nat /\ marks \in Nat
        /\ unapplied' \in Nat /\ job.mark \in Nat /\ job.mark <= marks
    BY DEF MapInv, MapTypeOK, Bounded, Onward, Job
  <1>7. \A p \in Paths : p \in Known => p \in Known'
    BY <1>1, <1>6 DEF Known, Onward
  <1>8. \A p \in Paths : unapplied' > marks /\ p \in missed' => p \in Known'
    BY <1>6 DEF Known
  <1>9. Rescan \in Items /\ GitHead \in Items /\ Paths \subseteq Items
    BY DEF Items
  <1>10. ASSUME NEW p \in Paths
         PROVE  /\ p \in InMemory => \/ p \in InMemory' \/ Rescan \in InMemory' \/ Heeded(p)
                                     \/ unapplied' > marks /\ p \in missed'
                /\ Rescan \in InMemory => \/ Rescan \in InMemory' \/ Heeded(p)
                                          \/ unapplied' > marks /\ p \in missed'
                /\ GitHead \in InMemory => \/ GitHead \in InMemory' \/ Rescan \in InMemory'
                                           \/ queue'[GitHead].rev > revision \/ Heeded(p)
                                           \/ unapplied' > marks /\ p \in missed'
    <2>1. p \in Concerns({p}) /\ p \in Concerns({Rescan}) /\ p \in Concerns({GitHead})
      BY MapConstants DEF Concerns, Named
    <2>2. QED
      BY <2>1 DEF Onward, Heeded
  <1>11. ASSUME NEW p \in Paths, tree'[p] = tree[p], Sent(p, InMemory \cup Queued, gen.head)
         PROVE  Sent(p, InMemory \cup Queued, gen.head)' \/ (unapplied' > marks /\ p \in missed')
    <2>1. gen.head # head => gen'.head # head'
      BY <1>1, <1>6
    <2>2. Heeded(p) => Sent(p, InMemory \cup Queued, gen.head)'
      BY <1>4, <1>9 DEF Heeded, Sent
    <2>3. CASE p \in InMemory \cup Queued
      BY <1>5, <1>9, <1>10, <2>2, <2>3 DEF Sent
    <2>4. CASE Rescan \in InMemory \cup Queued
      BY <1>5, <1>9, <1>10, <2>2, <2>4 DEF Sent
    <2>5. CASE left.silent /\ GitHead \in InMemory \cup Queued /\ gen.head # head
      BY <1>1, <1>4, <1>5, <1>9, <1>10, <2>1, <2>2, <2>5 DEF Sent
    <2>6. CASE p \in turned
      BY <1>11, <2>2, <2>6 DEF Onward
    <2>7. QED
      BY <1>11, <2>3, <2>4, <2>5, <2>6 DEF Sent
  <1>12. ASSUME NEW p \in Paths, tree'[p] = tree[p], Sent(p, InMemory \cup Standing, job.head)
         PROVE  Sent(p, InMemory \cup Standing, job.head)' \/ (unapplied' > marks /\ p \in missed')
    <2>1. job.head # head => job'.head # head'
      BY <1>1, <1>6
    <2>2. Heeded(p) => Sent(p, InMemory \cup Standing, job.head)'
      BY <1>4, <1>9 DEF Heeded, Sent
    <2>3. CASE p \in InMemory \cup Standing
      BY <1>5, <1>9, <1>10, <2>2, <2>3 DEF Sent
    <2>4. CASE Rescan \in InMemory \cup Standing
      BY <1>5, <1>9, <1>10, <2>2, <2>4 DEF Sent
    <2>5. CASE left.silent /\ GitHead \in InMemory \cup Standing /\ job.head # head
      BY <1>1, <1>4, <1>5, <1>9, <1>10, <2>1, <2>2, <2>5 DEF Sent
    <2>6. CASE p \in turned
      BY <1>12, <2>2, <2>6 DEF Onward
    <2>7. QED
      BY <1>12, <2>3, <2>4, <2>5, <2>6 DEF Sent
  <1>13. ASSUME NEW p \in Paths, tree'[p] = tree[p], Sent(p, InMemory \cup Newer, gen.head)
         PROVE  Sent(p, InMemory \cup Newer, gen.head)' \/ (unapplied' > marks /\ p \in missed')
    <2>1. gen.head # head => gen'.head # head'
      BY <1>1, <1>6
    <2>2. Heeded(p) => Sent(p, InMemory \cup Newer, gen.head)'
      BY <1>4, <1>9 DEF Heeded, Sent
    <2>3. CASE p \in InMemory \cup Newer
      BY <1>5, <1>9, <1>10, <2>2, <2>3 DEF Sent
    <2>4. CASE Rescan \in InMemory \cup Newer
      BY <1>5, <1>9, <1>10, <2>2, <2>4 DEF Sent
    <2>5. CASE left.silent /\ GitHead \in InMemory \cup Newer /\ gen.head # head
      BY <1>1, <1>4, <1>5, <1>9, <1>10, <2>1, <2>2, <2>5 DEF Sent
    <2>6. CASE p \in turned
      BY <1>13, <2>2, <2>6 DEF Onward
    <2>7. QED
      BY <1>13, <2>3, <2>4, <2>5, <2>6 DEF Sent
  <1>14. ASSUME NEW p \in Paths, tree'[p] = tree[p], Sent(p, InMemory \cup Spared, gen.head)
         PROVE  Sent(p, InMemory \cup Spared, gen.head)' \/ (unapplied' > marks /\ p \in missed')
    <2>1. gen.head # head => gen'.head # head'
      BY <1>1, <1>6
    <2>2. Heeded(p) => Sent(p, InMemory \cup Spared, gen.head)'
      BY <1>4, <1>9 DEF Heeded, Sent
    <2>3. CASE p \in InMemory \cup Spared
      BY <1>5, <1>9, <1>10, <2>2, <2>3 DEF Sent
    <2>4. CASE Rescan \in InMemory \cup Spared
      BY <1>5, <1>9, <1>10, <2>2, <2>4 DEF Sent
    <2>5. CASE left.silent /\ GitHead \in InMemory \cup Spared /\ gen.head # head
      BY <1>1, <1>4, <1>5, <1>9, <1>10, <2>1, <2>2, <2>5 DEF Sent
    <2>6. CASE p \in turned
      BY <1>14, <2>2, <2>6 DEF Onward
    <2>7. QED
      BY <1>14, <2>3, <2>4, <2>5, <2>6 DEF Sent
  <1>15. ASSUME NEW p \in Paths, tree'[p] # tree[p]
         PROVE  /\ Sent(p, InMemory \cup Queued, gen.head)' \/ p \in Known'
                /\ Sent(p, InMemory \cup Standing, job.head)' \/ p \in Known'
                /\ Sent(p, InMemory \cup Newer, gen.head)' \/ p \in Known'
                /\ Sent(p, InMemory \cup Spared, gen.head)' \/ p \in Known'
                /\ life # "down" => Sent(p, InMemory \cup Queued, gen.head)'
    <2>1. CASE p \in InMemory' \/ Rescan \in InMemory'
      BY <2>1 DEF Sent
    <2>2. CASE left.silent /\ GitHead \in InMemory' /\ head' > head
      <3>1. gen'.head # head' /\ job'.head # head' /\ left'.silent
        BY <1>1, <1>6, <2>2
      <3>2. QED
        BY <2>2, <3>1 DEF Sent
    <2>3. CASE life = "down" /\ p \in missed'
      BY <1>1, <2>3 DEF Known
    <2>4. QED
      BY <1>15, <2>1, <2>2, <2>3 DEF Onward
  <1>16. Sound'
    BY <1>1, <1>7, <1>8, <1>11, <1>15 DEF MapInv, Sound, Agrees
  <1>17. SweepOK'
    <2>1. ASSUME job.stage \in {"sweep", "compared"}, unapplied' = job.mark
          PROVE  unapplied = job.mark /\ ~(unapplied' > marks) /\ life # "down"
      BY <1>6, <2>1 DEF Onward, MapInv, Turns
    <2>2. QED
      BY <1>1, <1>11, <1>15, <2>1 DEF MapInv, SweepOK, Agrees
  <1>18. DrainOK'
    BY <1>1, <1>7, <1>8, <1>12, <1>15 DEF MapInv, DrainOK, Fresh, Wants, Claimed, Moved, Carried, Nothing, Agrees
  <1>19. BuildOK'
    BY <1>1, <1>7, <1>8, <1>13, <1>14, <1>15 DEF MapInv, BuildOK, Agrees
  <1>20. QED
    BY <1>2, <1>16, <1>17, <1>18, <1>19 DEF MapInv

-----------------------------------------------------------------------------
\* What is taken from the budget leaves the rest of it alone.
LEMMA SpendsEdits ==
  ASSUME left \in Budget, left.edits > 0, left' = [left EXCEPT !.edits = @ - 1]
  PROVE  left' \in Budget /\ left'.edits = left.edits - 1 /\ left.edits \in Nat
         /\ left'.refusals = left.refusals /\ left'.starts = left.starts /\ left'.builds = left.builds /\ left'.silent = left.silent
  BY DEF Budget

LEMMA SpendsCheckouts ==
  ASSUME left \in Budget, left.checkouts > 0, left' = [left EXCEPT !.checkouts = @ - 1]
  PROVE  left' \in Budget /\ left'.checkouts = left.checkouts - 1 /\ left.checkouts \in Nat
         /\ left'.refusals = left.refusals /\ left'.starts = left.starts /\ left'.builds = left.builds /\ left'.silent = left.silent
  BY DEF Budget

LEMMA SpendsDrops ==
  ASSUME left \in Budget, left.drops > 0, left' = [left EXCEPT !.drops = @ - 1]
  PROVE  left' \in Budget /\ left'.drops = left.drops - 1 /\ left.drops \in Nat
         /\ left'.refusals = left.refusals /\ left'.starts = left.starts /\ left'.builds = left.builds /\ left'.silent = left.silent
  BY DEF Budget

LEMMA SpendsRefusals ==
  ASSUME left \in Budget, left.refusals > 0, left' = [left EXCEPT !.refusals = @ - 1]
  PROVE  left' \in Budget /\ left'.refusals = left.refusals - 1 /\ left.refusals \in Nat
         /\ left'.starts = left.starts /\ left'.builds = left.builds /\ left'.silent = left.silent
  BY DEF Budget

LEMMA SpendsFaults ==
  ASSUME left \in Budget, left.faults > 0, left' = [left EXCEPT !.faults = @ - 1]
  PROVE  left' \in Budget /\ left'.faults = left.faults - 1 /\ left.faults \in Nat
         /\ left'.refusals = left.refusals /\ left'.starts = left.starts /\ left'.builds = left.builds /\ left'.silent = left.silent
  BY DEF Budget

LEMMA SpendsStarts ==
  ASSUME left \in Budget, left.starts > 0, left' = [left EXCEPT !.starts = @ - 1]
  PROVE  left' \in Budget /\ left'.starts = left.starts - 1 /\ left.starts \in Nat
         /\ left'.refusals = left.refusals /\ left'.builds = left.builds /\ left'.silent = left.silent
  BY DEF Budget

LEMMA SpendsStops ==
  ASSUME left \in Budget, left.stops > 0, left' = [left EXCEPT !.stops = @ - 1]
  PROVE  left' \in Budget /\ left'.stops = left.stops - 1 /\ left.stops \in Nat
         /\ left'.refusals = left.refusals /\ left'.starts = left.starts /\ left'.builds = left.builds /\ left'.silent = left.silent
  BY DEF Budget

LEMMA SpendsBuilds ==
  ASSUME left \in Budget, left.builds > 0, left' = [left EXCEPT !.builds = @ - 1]
  PROVE  left' \in Budget /\ left'.builds = left.builds - 1 /\ left.builds \in Nat
         /\ left'.refusals = left.refusals /\ left'.starts = left.starts /\ left'.silent = left.silent
  BY DEF Budget

LEMMA EditStep ==
  ASSUME MapInv, Separate', NEW p \in Paths, NEW c \in Content, Edit(p, c)
  PROVE  MapInv'
  <1> USE DEF Edit, Notice, world, watch, store, record
  <1>1. left' \in Budget /\ left'.silent = left.silent
    BY SpendsEdits DEF MapInv, MapTypeOK
  <1>2. {p} \in SUBSET Items /\ {p} \in SUBSET Paths
    BY DEF Items
  <1>3. MapTypeOK'
    BY <1>1, <1>2 DEF MapInv, MapTypeOK
  <1>4. Bounded'
    BY DEF MapInv, Bounded
  <1>5. InMemory \subseteq InMemory' /\ (Watched => p \in InMemory')
    BY DEF InMemory
  <1>6. \A q \in Paths : tree'[q] = tree[q] \/ q = p
    BY DEF MapInv, MapTypeOK
  <1>7. missed \subseteq missed' /\ (~Watched => p \in missed' /\ life = "down")
    BY DEF Watched
  <1>8. \A q \in turned : Heeded(q) \/ tree'[q] # tree[q]
    BY DEF Heeded, MapInv, MapTypeOK
  <1>9. Onward
    BY <1>1, <1>5, <1>6, <1>7, <1>8 DEF Onward, MapInv, MapTypeOK
  <1>10. QED
    BY <1>3, <1>4, <1>9, OnwardKeeps

LEMMA CheckoutStep ==
  ASSUME MapInv, Separate', NEW files \in [Paths -> Content], NEW told \in SUBSET Paths, Checkout(files, told)
  PROVE  MapInv'
  <1> USE DEF world, watch, store, record
  <1>1. PICK changed \in SUBSET Paths :
           /\ changed = {p \in Paths : files[p] # tree[p]}
           /\ told \subseteq changed /\ (left.silent \/ told = changed)
           /\ Notice(told \cup {GitHead}, changed)
    BY DEF Checkout
  <1>2. /\ left.checkouts > 0 /\ left' = [left EXCEPT !.checkouts = @ - 1]
        /\ tree' = files /\ head' = head + 1
        /\ UNCHANGED <<queue, revision, gen, unapplied, marks, life, job, build>>
    BY DEF Checkout
  <1>3. left' \in Budget /\ left'.silent = left.silent
    BY <1>2, SpendsCheckouts DEF MapInv, MapTypeOK
  <1>4. /\ os' = IF Watched THEN os \cup told \cup {GitHead} ELSE os
        /\ missed' = IF Watched THEN missed ELSE missed \cup changed
        /\ turned' = turned \ changed
        /\ UNCHANGED <<events, overflowed, buffer, collapsed>>
    BY <1>1 DEF Notice
  <1>5. told \cup {GitHead} \in SUBSET Items
    BY DEF Items
  <1>6. MapTypeOK'
    BY <1>2, <1>3, <1>4, <1>5 DEF MapInv, MapTypeOK
  <1>7. Bounded'
    <2>1. head \in Nat /\ gen.head \in Nat /\ job.head \in Nat
      BY DEF MapInv, MapTypeOK, Job
    <2>2. QED
      BY <1>2, <2>1 DEF MapInv, Bounded
  <1>8. InMemory \subseteq InMemory' /\ (Watched => told \subseteq InMemory' /\ GitHead \in InMemory')
    BY <1>4 DEF InMemory
  <1>9. missed \subseteq missed' /\ (~Watched => changed \subseteq missed' /\ life = "down")
    BY <1>4 DEF Watched
  <1>10. ASSUME NEW p \in Paths, tree'[p] # tree[p]
         PROVE  \/ p \in InMemory'
                \/ left.silent /\ GitHead \in InMemory' /\ head' > head
                \/ life = "down" /\ p \in missed'
    <2>1. p \in changed
      BY <1>1, <1>2, <1>10
    <2>2. head \in Nat
      BY DEF MapInv, MapTypeOK
    <2>3. head' > head
      BY <1>2, <2>2
    <2>4. QED
      BY <1>1, <1>8, <1>9, <2>1, <2>3
  <1>11. head' >= head
    BY <1>2 DEF MapInv, MapTypeOK
  <1>12. \A p \in turned : Heeded(p) \/ tree'[p] # tree[p]
    BY <1>1, <1>2, <1>4 DEF Heeded
  <1>13. Onward
    BY <1>2, <1>3, <1>8, <1>9, <1>10, <1>11, <1>12 DEF Onward
  <1>14. QED
    BY <1>6, <1>7, <1>13, OnwardKeeps

\* The watcher moves what it knows from stage to stage, or asks for a rescan.
LEMMA HandedOn ==
  ASSUME MapInv, Separate', UNCHANGED <<world, store, record, life, job, build, missed>>,
         os' \in SUBSET Items, events' \in Seq(Items), overflowed' \in BOOLEAN,
         buffer' \in SUBSET Items, collapsed' \in BOOLEAN, left' \in Budget,
         left'.silent = left.silent,
         InMemory \subseteq InMemory' \/ Rescan \in InMemory'
  PROVE  MapInv'
  <1> USE DEF world, store, record
  <1>1. MapTypeOK'
    BY DEF MapInv, MapTypeOK
  <1>2. Bounded'
    BY DEF MapInv, Bounded
  <1>3. Onward
    BY DEF Onward, Heeded, MapInv, MapTypeOK
  <1>4. QED
    BY <1>1, <1>2, <1>3, OnwardKeeps

LEMMA OsDropsStep ==
  ASSUME MapInv, Separate', OsDrops PROVE MapInv'
  <1>1. left.drops > 0 /\ left' = [left EXCEPT !.drops = @ - 1] /\ os' = {Rescan}
        /\ UNCHANGED <<world, events, overflowed, buffer, collapsed, store, record, life, job, build, missed>>
    BY DEF OsDrops
  <1>2. left' \in Budget /\ left'.silent = left.silent
    BY <1>1, SpendsDrops DEF MapInv, MapTypeOK
  <1>3. {Rescan} \in SUBSET Items /\ Rescan \in InMemory'
    BY <1>1 DEF Items, InMemory
  <1>4. events' \in Seq(Items) /\ overflowed' \in BOOLEAN /\ buffer' \in SUBSET Items /\ collapsed' \in BOOLEAN
    BY <1>1 DEF MapInv, MapTypeOK
  <1>5. QED
    BY <1>1, <1>2, <1>3, <1>4, HandedOn

LEMMA OfferStepKeeps ==
  ASSUME MapInv, Separate', NEW i \in Items, Offer(i) PROVE MapInv'
  <1> DEFINE Heard(s) == {s[n] : n \in DOMAIN s}
  <1>1. i \in os /\ os' = os \ {i} /\ UNCHANGED <<buffer, collapsed, left>>
        /\ UNCHANGED <<world, store, record, life, job, build, missed>>
    BY DEF Offer
  <1>2. os \in SUBSET Items /\ events \in Seq(Items) /\ overflowed \in BOOLEAN
        /\ buffer \in SUBSET Items /\ collapsed \in BOOLEAN /\ left \in Budget
    BY DEF MapInv, MapTypeOK
  <1>3. CASE events' = Append(events, i) /\ UNCHANGED overflowed
    <2>1. events' \in Seq(Items)
      BY <1>2, <1>3
    <2>2. i \in Heard(events') /\ Heard(events) \subseteq Heard(events')
      <3>1. Len(events) \in Nat /\ DOMAIN events = 1..Len(events) /\ DOMAIN events' = 1..(Len(events) + 1)
            /\ events'[Len(events) + 1] = i
            /\ \A n \in 1..Len(events) : events'[n] = events[n]
        BY <1>2, <1>3
      <3>2. Len(events) + 1 \in DOMAIN events' /\ \A n \in DOMAIN events : n \in DOMAIN events' /\ events'[n] = events[n]
        BY <3>1
      <3>3. i \in Heard(events')
        <4>1. PICK m : m = Len(events) + 1
          OBVIOUS
        <4>2. m \in DOMAIN events' /\ events'[m] = i
          BY <3>1, <3>2, <4>1
        <4>3. QED
          BY <4>2
      <3>4. ASSUME NEW n \in DOMAIN events PROVE events[n] \in Heard(events')
        BY <3>2
      <3>5. QED
        BY <3>3, <3>4
    <2>3. InMemory \subseteq InMemory'
      BY <1>1, <1>3, <2>2 DEF InMemory
    <2>4. QED
      BY <1>1, <1>2, <1>3, <2>1, <2>3, HandedOn
  <1>4. CASE overflowed' = TRUE /\ UNCHANGED events
    <2>1. Rescan \in InMemory'
      BY <1>4 DEF InMemory
    <2>2. QED
      BY <1>1, <1>2, <1>4, <2>1, HandedOn
  <1>5. QED
    BY <1>3, <1>4 DEF Offer

\* DebounceBuffer::push keeps what it is given, or becomes the rescan.
LEMMA PushKeeps ==
  ASSUME MapInv, NEW S \in SUBSET Items, Push(S)
  PROVE  /\ buffer' \in SUBSET Items /\ collapsed' \in BOOLEAN
         /\ (buffer \cup S \subseteq buffer') \/ Rescan \in buffer'
  <1>1. buffer \in SUBSET Items /\ collapsed \in BOOLEAN
    BY DEF MapInv, MapTypeOK
  <1>2. collapsed' \in BOOLEAN
    BY DEF Push, Overfull
  <1>3. CASE Overfull(S)
    BY <1>2, <1>3 DEF Push, Pushed, Items
  <1>4. CASE ~Overfull(S)
    <2>1. buffer' = buffer \cup S
      BY <1>4 DEF Push, Pushed
    <2>2. QED
      BY <1>1, <1>2, <2>1
  <1>5. QED
    BY <1>3, <1>4

LEMMA ConsumeStep ==
  ASSUME MapInv, Separate', Consume PROVE MapInv'
  <1> DEFINE Heard(s) == {s[n] : n \in DOMAIN s}
  <1>1. /\ events # <<>> /\ events' = Tail(events) /\ Push({Head(events)})
        /\ UNCHANGED <<world, os, overflowed, store, record, life, job, build, missed, left>>
    BY DEF Consume
  <1>2. os \in SUBSET Items /\ events \in Seq(Items) /\ overflowed \in BOOLEAN /\ left \in Budget
    BY DEF MapInv, MapTypeOK
  <1>3. Head(events) \in Items /\ events' \in Seq(Items)
        /\ \A x \in Heard(events) : x = Head(events) \/ x \in Heard(events')
    <2>1. Len(events) \in Nat /\ Len(events) > 0 /\ DOMAIN events = 1..Len(events)
          /\ Head(events) = events[1] /\ events[1] \in Items
          /\ Tail(events) \in Seq(Items) /\ DOMAIN Tail(events) = 1..(Len(events) - 1)
          /\ \A n \in 1..(Len(events) - 1) : Tail(events)[n] = events[n + 1]
      BY <1>1, <1>2
    <2>2. ASSUME NEW n \in DOMAIN events PROVE events[n] = Head(events) \/ events[n] \in Heard(events')
      <3>1. CASE n = 1
        BY <2>1, <3>1
      <3>2. CASE n # 1
        <4>1. n - 1 \in 1..(Len(events) - 1) /\ (n - 1) + 1 = n
          BY <2>1, <3>2
        <4>2. events[n] = events'[n - 1] /\ n - 1 \in DOMAIN events'
          BY <1>1, <2>1, <4>1
        <4>3. QED
          BY <4>2
      <3>3. QED
        BY <3>1, <3>2
    <2>3. QED
      BY <1>1, <2>1, <2>2
  <1>4. {Head(events)} \in SUBSET Items
    BY <1>3
  <1>5. /\ buffer' \in SUBSET Items /\ collapsed' \in BOOLEAN
        /\ (buffer \cup {Head(events)} \subseteq buffer') \/ Rescan \in buffer'
    BY <1>1, <1>4, PushKeeps
  <1>6. InMemory \subseteq InMemory' \/ Rescan \in InMemory'
    BY <1>1, <1>3, <1>5 DEF InMemory
  <1>7. QED
    BY <1>1, <1>2, <1>3, <1>5, <1>6, HandedOn

LEMMA AnswerOverflowStep ==
  ASSUME MapInv, Separate', AnswerOverflow PROVE MapInv'
  <1>1. /\ overflowed' = FALSE /\ Push({Rescan})
        /\ UNCHANGED <<world, os, events, store, record, life, job, build, missed, left>>
    BY DEF AnswerOverflow
  <1>2. os \in SUBSET Items /\ events \in Seq(Items) /\ left \in Budget /\ {Rescan} \in SUBSET Items
    BY DEF MapInv, MapTypeOK, Items
  <1>3. buffer' \in SUBSET Items /\ collapsed' \in BOOLEAN /\ Rescan \in buffer'
    BY <1>1, <1>2, PushKeeps
  <1>4. Rescan \in InMemory'
    BY <1>3 DEF InMemory
  <1>5. QED
    BY <1>1, <1>2, <1>3, <1>4, HandedOn

\* The rows an upsert leaves.
LEMMA Upserted ==
  ASSUME MapInv, NEW S \in SUBSET Items, Upsert(S)
  PROVE  /\ queue' \in [Items -> Row] /\ revision' \in Nat /\ revision <= revision'
         /\ \A i \in Items : /\ queue'[i].rev \in Nat /\ queue'[i].rev <= revision'
                             /\ queue[i].rev <= queue'[i].rev
                             /\ queue'[i].rev = queue[i].rev \/ queue'[i].rev > revision
                             /\ i \in S => queue'[i].rev > revision
  <1>1. revision \in Nat /\ queue \in [Items -> Row]
    BY DEF MapInv, MapTypeOK
  <1>2. revision' \in Nat /\ revision <= revision' /\ (S # {} => revision' = revision + 1)
    BY <1>1 DEF Upsert
  <1>3. ASSUME NEW i \in Items
        PROVE  /\ queue'[i] \in Row
               /\ queue[i].rev \in Nat /\ queue[i].rev <= revision /\ queue'[i].rev \in Nat
               /\ i \in S => queue'[i].rev = revision + 1
               /\ i \notin S => queue'[i].rev = queue[i].rev
    <2>1. queue[i] \in Row /\ queue[i].rev \in Nat /\ queue[i].rev <= revision
      BY <1>1 DEF Row, MapInv, Bounded
    <2>2. CASE i \in S
      <3>1. queue'[i] = [rev |-> revision + 1, attempts |-> 0]
        BY <2>2 DEF Upsert
      <3>2. QED
        BY <1>1, <2>1, <2>2, <3>1 DEF Row
    <2>3. CASE i \notin S
      <3>1. queue'[i] = queue[i]
        BY <2>3 DEF Upsert
      <3>2. QED
        BY <2>1, <2>3, <3>1
    <2>4. QED
      BY <2>2, <2>3
  <1>4. queue' \in [Items -> Row]
    BY <1>3 DEF Upsert
  <1>5. QED
    BY <1>1, <1>2, <1>3, <1>4

\* What the store turns away is on the list of it, and what it takes is queued.
LEMMA Admitted ==
  ASSUME MapInv, NEW S \in SUBSET Items, Admit(S)
  PROVE  /\ queue' \in [Items -> Row] /\ revision' \in Nat /\ revision <= revision'
         /\ \A i \in Items : /\ queue'[i].rev \in Nat /\ queue'[i].rev <= revision'
                             /\ queue[i].rev <= queue'[i].rev
                             /\ queue'[i].rev = queue[i].rev \/ queue'[i].rev > revision
         /\ turned' \in SUBSET Paths
         /\ \A i \in S : queue'[i].rev > revision \/ \A p \in Concerns({i}) : Heeded(p)
         /\ \A p \in turned : Heeded(p)
  <1>1. PICK D \in SUBSET (S \ {GitHead}) :
           Upsert(S \ D) /\ turned' = (turned \cup Named(D)) \ Named(S \ D)
    BY DEF Admit
  <1>2. S \ D \in SUBSET Items
    OBVIOUS
  <1>3. /\ queue' \in [Items -> Row] /\ revision' \in Nat /\ revision <= revision'
        /\ \A i \in Items : /\ queue'[i].rev \in Nat /\ queue'[i].rev <= revision'
                            /\ queue[i].rev <= queue'[i].rev
                            /\ queue'[i].rev = queue[i].rev \/ queue'[i].rev > revision
                            /\ i \in S \ D => queue'[i].rev > revision
    BY <1>1, <1>2, Upserted
  <1>4. turned' \in SUBSET Paths
    BY <1>1 DEF Named, MapInv, MapTypeOK
  <1>5. ASSUME NEW p \in turned \cup Named(D) PROVE Heeded(p)
    <2>1. p \in Items /\ Rescan \in Items
      BY DEF Named, MapInv, MapTypeOK, Items
    <2>2. p \in Named(S \ D) => p \in S \ D \/ Rescan \in S \ D
      BY DEF Named
    <2>3. QED
      BY <1>1, <1>3, <2>1, <2>2 DEF Heeded
  <1>6. ASSUME NEW i \in S PROVE queue'[i].rev > revision \/ \A p \in Concerns({i}) : Heeded(p)
    <2>1. CASE i \in D
      <3>1. Concerns({i}) \subseteq Named(D)
        BY <2>1 DEF Concerns, Named
      <3>2. QED
        BY <1>5, <3>1
    <2>2. CASE i \notin D
      BY <1>3, <2>2
    <2>3. QED
      BY <2>1, <2>2
  <1>7. QED
    BY <1>3, <1>4, <1>5, <1>6

LEMMA FlushStep ==
  ASSUME MapInv, Separate', Flush PROVE MapInv'
  <1>1. /\ buffer' = {} /\ collapsed' = FALSE
        /\ UNCHANGED <<tree, head, os, events, overflowed, gen, life, job, build>>
        /\ NoteWatchBatch(buffer)
    BY DEF Flush, world
  <1>2. buffer \in SUBSET Items /\ InMemory \subseteq Items
        /\ \A i \in InMemory : i \in InMemory' \/ i \in buffer
    <2>1. buffer \in SUBSET Items
      BY DEF MapInv, MapTypeOK
    <2>2. ASSUME NEW i \in InMemory PROVE i \in InMemory' \/ i \in buffer
      BY <1>1 DEF InMemory
    <2>3. QED
      BY <2>1, <2>2, MemoryTyped DEF MapInv
  <1>3. /\ buffer' \in SUBSET Items /\ collapsed' \in BOOLEAN
        /\ head \in Nat /\ unapplied \in Nat /\ marks \in Nat /\ left \in Budget /\ revision \in Nat
        /\ left.refusals \in Nat /\ left.starts \in Nat /\ left.builds \in Nat
    BY <1>1 DEF MapInv, MapTypeOK, Budget
  <1>4. CASE Admit(buffer) /\ UNCHANGED <<unapplied, marks, missed, left>>
    <2>1. /\ queue' \in [Items -> Row] /\ revision' \in Nat /\ revision <= revision'
          /\ \A i \in Items : /\ queue'[i].rev \in Nat /\ queue'[i].rev <= revision'
                              /\ queue[i].rev <= queue'[i].rev
                              /\ queue'[i].rev = queue[i].rev \/ queue'[i].rev > revision
          /\ turned' \in SUBSET Paths
          /\ \A i \in buffer : queue'[i].rev > revision \/ \A p \in Concerns({i}) : Heeded(p)
          /\ \A p \in turned : Heeded(p)
      BY <1>2, <1>4, Admitted
    <2>2. UNCHANGED <<unapplied, marks, missed, left>>
      BY <1>4
    <2>3. MapTypeOK'
      BY <1>1, <1>3, <2>1, <2>2 DEF MapInv, MapTypeOK
    <2>4. Bounded'
      <3>1. \A i \in Items : /\ job.claims[i] \in Nat /\ build.doomed[i] \in Nat /\ queue[i].rev \in Nat
                             /\ job.claims[i] <= queue[i].rev /\ build.doomed[i] <= revision
        BY DEF MapInv, MapTypeOK, Bounded, Job, Build, Row
      <3>2. build.mark \in Nat /\ build.mark <= revision
        BY DEF MapInv, MapTypeOK, Bounded, Build
      <3>3. ASSUME NEW i \in Items
            PROVE  job'.claims[i] <= queue'[i].rev /\ queue'[i].rev <= revision' /\ build'.doomed[i] <= revision'
        BY <1>1, <1>3, <2>1, <3>1
      <3>4. build'.mark <= revision'
        BY <1>1, <1>3, <2>1, <3>2
      <3>5. QED
        BY <1>1, <2>2, <3>3, <3>4 DEF MapInv, Bounded
    <2>5. Onward
      BY <1>1, <1>2, <1>3, <2>1, <2>2 DEF Onward
    <2>6. QED
      BY <2>3, <2>4, <2>5, OnwardKeeps
  <1>5. CASE Refused /\ Record /\ missed' = missed \cup Concerns(buffer) /\ UNCHANGED <<queue, revision>>
    <2>1. left.refusals > 0 /\ left' = [left EXCEPT !.refusals = @ - 1]
      BY <1>5 DEF Refused
    <2>2. /\ left' \in Budget /\ left'.refusals = left.refusals - 1 /\ left'.starts = left.starts
          /\ left'.builds = left.builds /\ left'.silent = left.silent
      BY <1>3, <2>1, SpendsRefusals
    <2>3. unapplied' = marks + 1 /\ marks' = marks + 1 /\ turned' = turned
      BY <1>5 DEF Record
    <2>4. Concerns(buffer) \in SUBSET Paths
      BY DEF Concerns, Named
    <2>5. MapTypeOK'
      BY <1>1, <1>3, <1>5, <2>2, <2>3, <2>4 DEF MapInv, MapTypeOK
    <2>6. Bounded'
      <3>1. job.mark \in Nat
        BY DEF MapInv, MapTypeOK, Job
      <3>2. QED
        BY <1>1, <1>3, <1>5, <2>3, <3>1 DEF MapInv, Bounded
    <2>7. ASSUME NEW i \in buffer PROVE Concerns({i}) \subseteq missed'
      <3>1. Concerns({i}) \subseteq Concerns(buffer)
        BY DEF Concerns, Named
      <3>2. QED
        BY <1>5, <3>1
    <2>8. Onward
      BY <1>1, <1>2, <1>3, <1>5, <2>2, <2>3, <2>7 DEF Onward, Heeded
    <2>9. QED
      BY <2>5, <2>6, <2>8, OnwardKeeps
  <1>6. QED
    BY <1>1, <1>4, <1>5 DEF NoteWatchBatch

-----------------------------------------------------------------------------
\* The process ends: what it held is queued, or known to be forgotten.
LEMMA EndKeeps ==
  ASSUME MapInv, MapTypeOK', Bounded', Separate', life' = "down", job' = Idle,
         UNCHANGED <<build, gen, tree, head>>, left'.silent = left.silent, missed \subseteq missed',
         \A i \in Items : queue'[i].rev = queue[i].rev \/ queue'[i].rev > revision,
         \A i \in InMemory : \/ queue'[i].rev > revision \/ \A p \in Concerns({i}) : Heeded(p)
                             \/ Concerns({i}) \subseteq missed',
         \A p \in turned : Heeded(p)
  PROVE  MapInv'
  <1>1. ASSUME NEW i \in Items
        PROVE  /\ queue[i].rev \in Nat /\ queue'[i].rev \in Nat /\ revision \in Nat
               /\ build.doomed[i] \in Nat /\ build.mark \in Nat
               /\ build.doomed[i] <= revision /\ build.mark <= revision
    <2>1. build \in Build /\ queue[i] \in Row /\ queue'[i] \in Row /\ revision \in Nat
      BY DEF MapInv, MapTypeOK
    <2>2. /\ queue[i].rev \in Nat /\ queue'[i].rev \in Nat
          /\ build.doomed[i] \in Nat /\ build.mark \in Nat
      BY <2>1 DEF Row, Build
    <2>3. QED
      BY <2>1, <2>2 DEF MapInv, Bounded
  <1>2. ASSUME NEW i \in Items, queue'[i].rev > revision
        PROVE  i \in Queued' /\ i \in Newer' /\ i \in Spared'
    BY <1>1, <1>2 DEF Queued, Newer, Spared, Doomed
  <1>3. ASSUME NEW i \in Items
        PROVE  /\ i \in Queued => i \in Queued'
               /\ i \in Newer => i \in Newer'
               /\ i \in Spared => i \in Spared'
    <2>1. CASE queue'[i].rev > revision
      BY <1>2, <2>1
    <2>2. CASE queue'[i].rev = queue[i].rev
      BY <2>2 DEF Queued, Newer, Spared, Doomed
    <2>3. QED
      BY <2>1, <2>2
  <1>4. Known' = missed' /\ \A p \in Paths : p \in Known => p \in Known'
    BY DEF Known
  <1>5. Turns' /\ SweepOK' /\ DrainOK'
    <2>1. Turns'
      BY DEF MapInv, Turns, Idle, NoBuild, NoClaims, Nothing
    <2>2. job'.stage = "idle"
      BY DEF Idle
    <2>3. QED
      BY <2>1, <2>2 DEF SweepOK, DrainOK
  <1>6. Rescan \in Items /\ GitHead \in Items /\ Paths \subseteq Items
    BY DEF Items
  <1>7. ASSUME NEW p \in Paths
        PROVE  /\ p \in InMemory => Heeded(p) \/ p \in missed'
               /\ Rescan \in InMemory => Heeded(p) \/ p \in missed'
               /\ GitHead \in InMemory => \/ queue'[GitHead].rev > revision
                                          \/ Heeded(p) \/ p \in missed'
    <2>1. p \in Concerns({p}) /\ p \in Concerns({Rescan}) /\ p \in Concerns({GitHead})
      BY MapConstants DEF Concerns, Named
    <2>2. QED
      BY <2>1 DEF Heeded
  <1>8. ASSUME NEW p \in Paths, Sent(p, InMemory \cup Queued, gen.head)
         PROVE  Sent(p, InMemory \cup Queued, gen.head)' \/ p \in Known'
    <2>1. Heeded(p) => Sent(p, InMemory \cup Queued, gen.head)'
      BY <1>2, <1>6 DEF Heeded, Sent
    <2>2. CASE p \in InMemory \cup Queued
      BY <1>3, <1>4, <1>6, <1>7, <2>1, <2>2 DEF Sent
    <2>3. CASE Rescan \in InMemory \cup Queued
      BY <1>3, <1>4, <1>6, <1>7, <2>1, <2>3 DEF Sent
    <2>4. CASE left.silent /\ GitHead \in InMemory \cup Queued /\ gen.head # head
      BY <1>2, <1>3, <1>4, <1>6, <1>7, <2>1, <2>4 DEF Sent
    <2>5. CASE p \in turned
      BY <2>1, <2>5
    <2>6. QED
      BY <1>8, <2>2, <2>3, <2>4, <2>5 DEF Sent
  <1>9. ASSUME NEW p \in Paths, Sent(p, InMemory \cup Newer, gen.head)
         PROVE  Sent(p, InMemory \cup Newer, gen.head)' \/ p \in Known'
    <2>1. Heeded(p) => Sent(p, InMemory \cup Newer, gen.head)'
      BY <1>2, <1>6 DEF Heeded, Sent
    <2>2. CASE p \in InMemory \cup Newer
      BY <1>3, <1>4, <1>6, <1>7, <2>1, <2>2 DEF Sent
    <2>3. CASE Rescan \in InMemory \cup Newer
      BY <1>3, <1>4, <1>6, <1>7, <2>1, <2>3 DEF Sent
    <2>4. CASE left.silent /\ GitHead \in InMemory \cup Newer /\ gen.head # head
      BY <1>2, <1>3, <1>4, <1>6, <1>7, <2>1, <2>4 DEF Sent
    <2>5. CASE p \in turned
      BY <2>1, <2>5
    <2>6. QED
      BY <1>9, <2>2, <2>3, <2>4, <2>5 DEF Sent
  <1>10. ASSUME NEW p \in Paths, Sent(p, InMemory \cup Spared, gen.head)
         PROVE  Sent(p, InMemory \cup Spared, gen.head)' \/ p \in Known'
    <2>1. Heeded(p) => Sent(p, InMemory \cup Spared, gen.head)'
      BY <1>2, <1>6 DEF Heeded, Sent
    <2>2. CASE p \in InMemory \cup Spared
      BY <1>3, <1>4, <1>6, <1>7, <2>1, <2>2 DEF Sent
    <2>3. CASE Rescan \in InMemory \cup Spared
      BY <1>3, <1>4, <1>6, <1>7, <2>1, <2>3 DEF Sent
    <2>4. CASE left.silent /\ GitHead \in InMemory \cup Spared /\ gen.head # head
      BY <1>2, <1>3, <1>4, <1>6, <1>7, <2>1, <2>4 DEF Sent
    <2>5. CASE p \in turned
      BY <2>1, <2>5
    <2>6. QED
      BY <1>10, <2>2, <2>3, <2>4, <2>5 DEF Sent
  <1>11. Sound'
    BY <1>4, <1>8 DEF MapInv, Sound, Agrees
  <1>12. BuildOK'
    BY <1>4, <1>9, <1>10 DEF MapInv, BuildOK, Agrees
  <1>13. QED
    BY <1>5, <1>11, <1>12 DEF MapInv

LEMMA IdleTyped == Idle \in Job /\ NoBuild \in Build
  <1>1. NoClaims \in [Items -> Nat] /\ Nothing \in [Paths -> Content \cup {Unread}]
        /\ {} \in SUBSET Items /\ {} \in SUBSET Paths
    BY DEF NoClaims, Nothing
  <1>2. QED
    BY <1>1 DEF Idle, NoBuild, Job, Build

LEMMA KillStep ==
  ASSUME MapInv, Separate', Kill PROVE MapInv'
  <1>1. /\ left.stops > 0 /\ left' = [left EXCEPT !.stops = @ - 1] /\ life' = "down" /\ Silence
        /\ missed' = missed \cup Concerns(InMemory) /\ unapplied' = 0 /\ job' = Idle
        /\ UNCHANGED <<tree, head, queue, revision, gen, marks, turned, build>>
    BY DEF Kill, world, store
  <1>2. left' \in Budget /\ left'.silent = left.silent
    BY <1>1, SpendsStops DEF MapInv, MapTypeOK
  <1>3. Concerns(InMemory) \in SUBSET Paths /\ <<>> \in Seq(Items)
    BY DEF Concerns, Named
  <1>4. MapTypeOK'
    BY <1>1, <1>2, <1>3, IdleTyped DEF MapInv, MapTypeOK, Silence
  <1>5. Bounded'
    <2>1. head \in Nat /\ marks \in Nat /\ \A i \in Items : queue[i].rev \in Nat
      BY DEF MapInv, MapTypeOK, Row
    <2>2. QED
      BY <1>1, <2>1 DEF MapInv, Bounded, Idle, NoClaims
  <1>6. ASSUME NEW i \in InMemory PROVE Concerns({i}) \subseteq missed'
    <2>1. Concerns({i}) \subseteq Concerns(InMemory)
      BY DEF Concerns, Named
    <2>2. QED
      BY <1>1, <2>1
  <1>7. \A p \in turned : Heeded(p)
    BY <1>1 DEF Heeded
  <1>8. QED
    BY <1>1, <1>2, <1>4, <1>5, <1>6, <1>7, EndKeeps

LEMMA ExitStep ==
  ASSUME MapInv, Separate', Exit PROVE MapInv'
  <1>1. /\ life = "stopping" /\ events = <<>> /\ ~overflowed /\ buffer = {} /\ life' = "down" /\ Silence
        /\ missed' = missed \cup Concerns(os) /\ unapplied' = 0
        /\ UNCHANGED <<tree, head, queue, revision, gen, marks, turned, job, build, left>>
    BY DEF Exit, world, store
  <1>2. job = Idle /\ job' = Idle
    BY <1>1 DEF MapInv, Turns
  <1>3. Concerns(os) \in SUBSET Paths /\ <<>> \in Seq(Items)
    BY DEF Concerns, Named
  <1>4. MapTypeOK'
    BY <1>1, <1>3 DEF MapInv, MapTypeOK, Silence
  <1>5. Bounded'
    <2>1. marks \in Nat
      BY DEF MapInv, MapTypeOK
    <2>2. QED
      BY <1>1, <2>1 DEF MapInv, Bounded
  <1>6. ASSUME NEW i \in InMemory PROVE Concerns({i}) \subseteq missed'
    <2>1. i \in os
      BY <1>1 DEF InMemory
    <2>2. Concerns({i}) \subseteq Concerns(os)
      BY <2>1 DEF Concerns, Named
    <2>3. QED
      BY <1>1, <2>2
  <1>7. \A p \in turned : Heeded(p)
    BY <1>1 DEF Heeded
  <1>8. QED
    BY <1>1, <1>2, <1>4, <1>5, <1>6, <1>7, EndKeeps

LEMMA ExitUnquietStep ==
  ASSUME MapInv, Separate', ExitUnquiet PROVE MapInv'
  <1>1. /\ life = "stopping" /\ life' = "down" /\ Silence /\ unapplied' = 0 /\ marks' = marks
        /\ UNCHANGED <<tree, head, gen, job, build>>
    BY DEF ExitUnquiet, world
  <1>2. job = Idle /\ job' = Idle
    BY <1>1 DEF MapInv, Turns
  <1>3. /\ marks \in Nat /\ left \in Budget /\ left.refusals \in Nat /\ left.starts \in Nat
        /\ left.builds \in Nat /\ <<>> \in Seq(Items) /\ Rescan \in Items
    BY DEF MapInv, MapTypeOK, Budget, Items
  <1>4. CASE Admit(Pushed({Rescan})) /\ UNCHANGED <<missed, left>>
    <2>1. Pushed({Rescan}) \in SUBSET Items /\ Rescan \in Pushed({Rescan})
      BY <1>3 DEF Pushed, MapInv, MapTypeOK
    <2>2. /\ queue' \in [Items -> Row] /\ revision' \in Nat /\ revision <= revision'
          /\ \A i \in Items : /\ queue'[i].rev \in Nat /\ queue'[i].rev <= revision'
                              /\ queue[i].rev <= queue'[i].rev
                              /\ queue'[i].rev = queue[i].rev \/ queue'[i].rev > revision
          /\ turned' \in SUBSET Paths
          /\ \A i \in Pushed({Rescan}) :
                queue'[i].rev > revision \/ \A p \in Concerns({i}) : Heeded(p)
          /\ \A p \in turned : Heeded(p)
      BY <1>4, <2>1, Admitted
    <2>3. MapTypeOK'
      BY <1>1, <1>3, <1>4, <2>2 DEF MapInv, MapTypeOK, Silence
    <2>4. Bounded'
      <3>1. \A i \in Items : build.doomed[i] \in Nat /\ build.doomed[i] <= revision
        BY DEF MapInv, MapTypeOK, Bounded, Build
      <3>2. build.mark \in Nat /\ build.mark <= revision /\ revision \in Nat
        BY DEF MapInv, MapTypeOK, Bounded, Build
      <3>3. ASSUME NEW i \in Items
            PROVE  job'.claims[i] <= queue'[i].rev /\ queue'[i].rev <= revision' /\ build'.doomed[i] <= revision'
        <4>1. job'.claims[i] = 0
          BY <1>2 DEF Idle, NoClaims
        <4>2. QED
          BY <1>1, <2>2, <3>1, <3>2, <4>1
      <3>4. build'.mark <= revision'
        BY <1>1, <2>2, <3>2
      <3>5. QED
        BY <1>1, <1>3, <3>3, <3>4 DEF MapInv, Bounded
    <2>5. \A i \in InMemory : \A p \in Concerns({i}) : Heeded(p)
      <3>1. ASSUME NEW p \in Paths PROVE Heeded(p)
        <4>1. p \in Concerns({Rescan})
          BY <3>1 DEF Concerns, Named
        <4>2. QED
          BY <2>1, <2>2, <4>1 DEF Heeded
      <3>2. \A i : Concerns({i}) \subseteq Paths
        BY DEF Concerns, Named
      <3>3. QED
        BY <3>1, <3>2
    <2>6. QED
      BY <1>1, <1>2, <1>4, <2>2, <2>3, <2>4, <2>5, EndKeeps
  <1>5. CASE Refused /\ missed' = Paths /\ UNCHANGED <<queue, revision, turned>>
    <2>1. left.refusals > 0 /\ left' = [left EXCEPT !.refusals = @ - 1]
      BY <1>5 DEF Refused
    <2>2. /\ left' \in Budget /\ left'.refusals = left.refusals - 1 /\ left'.starts = left.starts
          /\ left'.builds = left.builds /\ left'.silent = left.silent
      BY <1>3, <2>1, SpendsRefusals
    <2>3. MapTypeOK'
      BY <1>1, <1>3, <1>5, <2>2 DEF MapInv, MapTypeOK, Silence
    <2>4. Bounded'
      BY <1>1, <1>3, <1>5 DEF MapInv, Bounded
    <2>5. \A i \in InMemory : Concerns({i}) \subseteq missed'
      BY <1>5 DEF Concerns, Named
    <2>6. missed \subseteq missed'
      BY <1>5 DEF MapInv, MapTypeOK
    <2>7. \A p \in turned : Heeded(p)
      BY <1>5 DEF Heeded
    <2>8. QED
      BY <1>1, <1>2, <1>5, <2>2, <2>3, <2>4, <2>5, <2>6, <2>7, EndKeeps
  <1>6. QED
    BY <1>4, <1>5 DEF ExitUnquiet

LEMMA StartStep ==
  ASSUME MapInv, Separate', Start PROVE MapInv'
  <1>1. /\ left.starts > 0 /\ left' = [left EXCEPT !.starts = @ - 1] /\ life = "down" /\ life' = "up"
        /\ unapplied' = marks + 1 /\ marks' = marks + 1 /\ job' = [Idle EXCEPT !.stage = "boot"]
        /\ UNCHANGED <<tree, head, os, events, overflowed, buffer, collapsed, queue, revision, gen, build, missed, turned>>
    BY DEF Start, Record, world, watch, store
  <1>2. left \in Budget /\ marks \in Nat /\ left.refusals \in Nat /\ left.starts \in Nat
    BY DEF MapInv, MapTypeOK, Budget
  <1>3. /\ left' \in Budget /\ left'.starts = left.starts - 1 /\ left'.refusals = left.refusals
        /\ left'.builds = left.builds /\ left'.silent = left.silent
    BY <1>1, <1>2, SpendsStarts
  <1>4. job' \in Job /\ job'.stage = "boot" /\ job'.claims = NoClaims /\ job'.todo = {}
        /\ job'.head = 0 /\ job'.mark = 0
    <2>1. Idle \in Job
      BY IdleTyped
    <2>2. QED
      BY <1>1, <2>1 DEF Job, Idle
  <1>5. build = NoBuild
    BY <1>1, <1>4 DEF Separate, Quiet, MapInv, Turns
  <1>6. MapTypeOK'
    BY <1>1, <1>2, <1>3, <1>4 DEF MapInv, MapTypeOK
  <1>7. Bounded'
    <2>1. head \in Nat /\ \A i \in Items : queue[i].rev \in Nat
      BY DEF MapInv, MapTypeOK, Row
    <2>2. QED
      BY <1>1, <1>2, <1>4, <2>1 DEF MapInv, Bounded, NoClaims
  <1>8. Turns'
    BY <1>1, <1>5, <1>4 DEF Turns, NoBuild, NoClaims, Nothing
  <1>9. InMemory' = InMemory /\ Queued' = Queued
    BY <1>1 DEF InMemory, Queued
  <1>10. Known' = missed /\ Known = missed
    BY <1>1, <1>2 DEF Known
  <1>11. Sound'
    BY <1>1, <1>3, <1>9, <1>10 DEF MapInv, Sound, Sent, Agrees
  <1>12. SweepOK' /\ DrainOK' /\ BuildOK'
    BY <1>1, <1>5, <1>4 DEF SweepOK, DrainOK, BuildOK, NoBuild
  <1>13. QED
    BY <1>6, <1>7, <1>8, <1>11, <1>12 DEF MapInv

-----------------------------------------------------------------------------
\* A step of the daemon's loop that leaves the notices and the map as they are.
LEMMA JobKeeps ==
  ASSUME MapInv, Separate', UNCHANGED <<world, watch, revision, gen, record, build, missed>>,
         life' = life \/ (life = "up" /\ life' = "stopping"),
         queue' \in [Items -> Row], \A i \in Items : queue'[i].rev = queue[i].rev,
         left' \in Budget, left'.silent = left.silent,
         job' \in Job, job'.mark <= marks, job'.head <= head,
         \A i \in Items : job'.claims[i] <= queue[i].rev,
         Turns', SweepOK', DrainOK'
  PROVE  MapInv'
  <1> USE DEF world, watch, record
  <1>1. MapTypeOK'
    BY DEF MapInv, MapTypeOK
  <1>2. Bounded'
    BY DEF MapInv, Bounded
  <1>3. InMemory' = InMemory /\ Queued' = Queued /\ Newer' = Newer /\ Spared' = Spared /\ Known' = Known
    <2>1. InMemory' = InMemory
      BY DEF InMemory
    <2>2. Queued' = Queued /\ Newer' = Newer
      BY DEF Queued, Newer
    <2>3. \A i \in Items : Doomed(i)' <=> Doomed(i)
      BY DEF Doomed
    <2>4. Spared' = Spared
      BY <2>2, <2>3 DEF Spared, Queued
    <2>5. Known' = Known
      BY DEF Known
    <2>6. QED
      BY <2>1, <2>2, <2>4, <2>5
  <1>4. Sound'
    BY <1>3 DEF MapInv, Sound, Sent, Agrees
  <1>5. BuildOK'
    BY <1>3 DEF MapInv, BuildOK, Sent, Agrees
  <1>6. QED
    BY <1>1, <1>2, <1>4, <1>5 DEF MapInv

\* The loop lets go of its job.
LEMMA LetGo ==
  ASSUME MapInv, Separate', UNCHANGED <<world, watch, revision, gen, record, build, missed>>,
         life' = life \/ (life = "up" /\ life' = "stopping"),
         queue' \in [Items -> Row], \A i \in Items : queue'[i].rev = queue[i].rev,
         left' \in Budget, left'.silent = left.silent, job' = Idle
  PROVE  MapInv'
  <1>1. /\ job'.stage = "idle" /\ job'.mark = 0 /\ job'.head = 0 /\ job'.todo = {}
        /\ \A i \in Items : job'.claims[i] = 0
    BY DEF Idle, NoClaims
  <1>2. marks \in Nat /\ head \in Nat /\ \A i \in Items : queue[i].rev \in Nat
    BY DEF MapInv, MapTypeOK, Row
  <1>3. Turns'
    <2>1. build' = build /\ job' = Idle
      OBVIOUS
    <2>2. QED
      BY <1>1, <2>1 DEF MapInv, Turns, NoBuild, NoClaims, Nothing, Idle
  <1>4. SweepOK' /\ DrainOK'
    BY <1>1 DEF SweepOK, DrainOK
  <1>5. job' \in Job
    BY IdleTyped
  <1>6. /\ job'.mark <= marks /\ job'.head <= head
        /\ \A i \in Items : job'.claims[i] <= queue[i].rev
    BY <1>1, <1>2
  <1>7. QED
    BY <1>3, <1>4, <1>5, <1>6, JobKeeps

LEMMA StopStep ==
  ASSUME MapInv, Separate', Stop PROVE MapInv'
  <1>1. /\ left.stops > 0 /\ left' = [left EXCEPT !.stops = @ - 1] /\ life = "up" /\ life' = "stopping"
        /\ job' = Idle /\ UNCHANGED <<world, watch, revision, gen, record, build, missed>> /\ queue' = queue
    BY DEF Stop, store
  <1>2. left' \in Budget /\ left'.silent = left.silent
    BY <1>1, SpendsStops DEF MapInv, MapTypeOK
  <1>3. queue' \in [Items -> Row]
    BY <1>1 DEF MapInv, MapTypeOK
  <1>4. QED
    BY <1>1, <1>2, <1>3, LetGo

\* What a step that changes nothing but the job has to show.
LEMMA JobOnly ==
  ASSUME MapInv, Separate', UNCHANGED <<world, watch, store, record, life, build, missed, left>>,
         job' \in Job, job'.mark <= marks, job'.head <= head,
         \A i \in Items : job'.claims[i] <= queue[i].rev,
         Turns', SweepOK', DrainOK'
  PROVE  MapInv'
  <1>1. queue' = queue /\ UNCHANGED <<world, watch, revision, gen, record, build, missed>> /\ left' = left /\ life' = life
    BY DEF store
  <1>2. queue' \in [Items -> Row] /\ left' \in Budget
    BY <1>1 DEF MapInv, MapTypeOK
  <1>3. QED
    BY <1>1, <1>2, JobKeeps

LEMMA BeginSweepStep ==
  ASSUME MapInv, Separate', BeginSweep PROVE MapInv'
  <1>1. /\ life = "up"
        /\ job.stage = "boot" \/ (job.stage = "idle" /\ unapplied # 0)
        /\ job' = [Idle EXCEPT !.stage = "sweep", !.mark = unapplied, !.todo = Paths,
                              !.first = (job.stage = "boot")]
        /\ UNCHANGED <<world, watch, store, record, life, build, missed, left>>
    BY DEF BeginSweep
  <1>2. Idle \in Job /\ unapplied \in Nat /\ Paths \in SUBSET Paths /\ (job.stage = "boot") \in BOOLEAN
    BY IdleTyped DEF MapInv, MapTypeOK
  <1>3. job' \in Job
    BY <1>1, <1>2 DEF Job
  <1>4. job'.stage = "sweep" /\ job'.mark = unapplied /\ job'.todo = Paths /\ job'.claims = NoClaims /\ job'.head = 0
    BY <1>1, <1>2 DEF Job, Idle
  <1>5. build = NoBuild /\ build' = build /\ life' = life /\ unapplied' = unapplied
    <2>1. CASE job.stage = "boot"
      BY <1>1, <2>1 DEF MapInv, Turns, record
    <2>2. CASE unapplied # 0
      BY <1>1, <2>2 DEF MapInv, Separate, Quiet, Turns, record
    <2>3. QED
      BY <1>1, <2>1, <2>2
  <1>6. Turns'
    BY <1>1, <1>4, <1>5 DEF Turns, NoBuild, NoClaims, Nothing
  <1>7. SweepOK' /\ DrainOK'
    BY <1>4 DEF SweepOK, DrainOK
  <1>8. job'.mark <= marks /\ job'.head <= head /\ \A i \in Items : job'.claims[i] <= queue[i].rev
    <2>1. head \in Nat /\ \A i \in Items : queue[i].rev \in Nat
      BY DEF MapInv, MapTypeOK, Row
    <2>2. QED
      BY <1>4, <2>1 DEF MapInv, Bounded, NoClaims
  <1>9. QED
    BY <1>1, <1>3, <1>6, <1>7, <1>8, JobOnly

\* Nothing new is said and nothing claimed is let go of.
LEMMA SameSay ==
  ASSUME UNCHANGED <<world, watch, gen, record, life, missed>>, left'.silent = left.silent,
         \A i \in Items : queue'[i].rev = queue[i].rev
  PROVE  /\ InMemory' = InMemory /\ Queued' = Queued /\ Known' = Known
         /\ \A p \in Paths : Sent(p, InMemory \cup Queued, gen.head)' <=> Sent(p, InMemory \cup Queued, gen.head)
  <1> USE DEF world, watch, record
  <1>1. InMemory' = InMemory
    BY DEF InMemory
  <1>2. Queued' = Queued
    BY DEF Queued
  <1>3. Known' = Known
    BY DEF Known
  <1>4. QED
    BY <1>1, <1>2, <1>3 DEF Sent

LEMMA SameClaims ==
  ASSUME UNCHANGED <<world, watch, gen, record, life, missed>>, left'.silent = left.silent,
         \A i \in Items : queue'[i].rev = queue[i].rev,
         job'.claims = job.claims, job'.failed = job.failed, job'.head = job.head
  PROVE  \A p \in Paths : (Fresh(p)' <=> Fresh(p)) /\ (Wants(p)' <=> Wants(p))
  <1>1. InMemory' = InMemory /\ Queued' = Queued /\ Known' = Known
    BY SameSay
  <1>2. Claimed' = Claimed
    BY DEF Claimed
  <1>3. Standing' = Standing
    <2>1. \A i \in Items : Answered(i)' <=> Answered(i)
      BY <1>2 DEF Answered
    <2>2. QED
      BY <1>1, <2>1 DEF Standing, Queued
  <1>4. QED
    BY <1>1, <1>2, <1>3 DEF Fresh, Wants, Sent, world, record

LEMMA ReadStep ==
  ASSUME MapInv, Separate', NEW p \in Paths, Read(p) PROVE MapInv'
  <1>1. /\ life = "up" /\ p \in job.todo
        /\ job' = [job EXCEPT !.got[p] = IF job.stage = "collect" THEN tree[p] ELSE Found(tree[p]),
                              !.todo = @ \ {p}]
        /\ UNCHANGED <<world, watch, store, record, life, build, missed, left>>
    BY DEF Read
  <1>2. job \in Job /\ tree[p] \in Content /\ Found(tree[p]) \in Content /\ tree' = tree /\ gen' = gen /\ queue' = queue
        /\ build' = build /\ life' = life /\ unapplied' = unapplied /\ left' = left
    BY <1>1, MapConstants DEF MapInv, MapTypeOK, Found, world, store, record
  <1>3. /\ job' \in Job /\ job'.stage = job.stage /\ job'.claims = job.claims /\ job'.failed = job.failed
        /\ job'.head = job.head /\ job'.mark = job.mark /\ job'.todo = job.todo \ {p}
        /\ job'.got[p] = (IF job.stage = "collect" THEN tree[p] ELSE Found(tree[p])) /\ \A q \in Paths \ {p} : job'.got[q] = job.got[q]
    BY <1>1, <1>2 DEF Job
  <1>4. job.stage \in {"sweep", "collect", "save"} /\ build = NoBuild
    BY <1>1 DEF MapInv, Turns
  <1>5. Turns'
    BY <1>1, <1>2, <1>3, <1>4 DEF MapInv, Turns, NoBuild, NoClaims, Nothing
  <1>6. \A q \in Paths : /\ Fresh(q)' <=> Fresh(q)
                         /\ Wants(q)' <=> Wants(q)
                         /\ Sent(q, InMemory \cup Queued, gen.head)' <=> Sent(q, InMemory \cup Queued, gen.head)
    <2>1. UNCHANGED <<world, watch, gen, record, life, missed>> /\ left'.silent = left.silent
          /\ \A i \in Items : queue'[i].rev = queue[i].rev
      BY <1>1, <1>2
    <2>2. QED
      BY <1>3, <2>1, SameSay, SameClaims
  <1>7. SweepOK'
    BY <1>2, <1>3, <1>4, <1>6 DEF MapInv, SweepOK, Agrees, Found
  <1>8. DrainOK'
    <2>1. CASE job.stage = "sweep"
      BY <1>3, <2>1 DEF DrainOK
    <2>2. CASE job.stage = "collect"
      <3>1. Moved' <=> Moved
        BY <1>2, <1>3 DEF Moved
      <3>2. ASSUME NEW q \in Paths
            PROVE  /\ Wants(q)' => q \in job'.todo \/ (job'.got[q] \in Content /\ (Agrees(q, job.got[q])' \/ Fresh(q)'))
                   /\ ~Wants(q)' => /\ job'.got[q] = Unread /\ q \notin job'.todo
                                    /\ Agrees(q, gen.files[q])' \/ Fresh(q)' \/ (left'.silent /\ Moved')
        <4>1. /\ Wants(q) => q \in job.todo \/ (job.got[q] \in Content /\ (Agrees(q, job.got[q]) \/ Fresh(q)))
              /\ ~Wants(q) => /\ job.got[q] = Unread /\ q \notin job.todo
                              /\ Agrees(q, gen.files[q]) \/ Fresh(q) \/ (left.silent /\ Moved)
          BY <2>2 DEF MapInv, DrainOK
        <4>2. QED
          BY <1>1, <1>2, <1>3, <1>6, <2>2, <3>1, <4>1 DEF Agrees
      <3>3. QED
        BY <1>3, <2>2, <3>2 DEF DrainOK
    <2>3. CASE job.stage = "save"
      <3>1. ASSUME NEW q \in Paths \ job'.todo PROVE Agrees(q, Carried(q))' \/ Fresh(q)'
        <4>1. CASE q = p
          BY <1>2, <1>3, <2>3, <4>1, MapConstants DEF Carried, Agrees, Found
        <4>2. CASE q # p
          <5>1. Agrees(q, Carried(q)) \/ Fresh(q)
            BY <1>3, <2>3, <3>1, <4>2 DEF MapInv, DrainOK
          <5>2. Carried(q)' = Carried(q)
            BY <1>2, <1>3, <4>2 DEF Carried
          <5>3. QED
            BY <1>2, <1>6, <5>1, <5>2 DEF Agrees
        <4>3. QED
          BY <4>1, <4>2
      <3>2. QED
        BY <1>3, <2>3, <3>1 DEF DrainOK
    <2>4. QED
      BY <1>4, <2>1, <2>2, <2>3
  <1>9. job'.mark <= marks /\ job'.head <= head /\ \A i \in Items : job'.claims[i] <= queue[i].rev
    BY <1>3 DEF MapInv, Bounded
  <1>10. QED
    BY <1>1, <1>3, <1>5, <1>7, <1>8, <1>9, JobOnly

LEMMA CompareStep ==
  ASSUME MapInv, Separate', Compare PROVE MapInv'
  <1>1. /\ job.stage = "sweep" /\ job.todo = {}
        /\ job' = [job EXCEPT !.stage = "compared",
              !.got = [p \in Paths |-> IF job.got[p] = gen.files[p] THEN Unread ELSE job.got[p]]]
        /\ UNCHANGED <<world, watch, store, record, life, build, missed, left>>
    BY DEF Compare
  <1>2. job \in Job /\ tree \in [Paths -> Content] /\ tree' = tree /\ gen' = gen /\ queue' = queue
        /\ build' = build /\ life' = life /\ unapplied' = unapplied /\ left' = left
    BY <1>1 DEF MapInv, MapTypeOK, world, store, record
  <1>3. [p \in Paths |-> IF job.got[p] = gen.files[p] THEN Unread ELSE job.got[p]] \in [Paths -> Content \cup {Unread}]
    BY <1>2 DEF Job
  <1>4. /\ job' \in Job /\ job'.stage = "compared" /\ job'.claims = job.claims
        /\ job'.head = job.head /\ job'.mark = job.mark /\ job'.todo = {}
        /\ \A p \in Paths : job'.got[p] = IF job.got[p] = gen.files[p] THEN Unread ELSE job.got[p]
    BY <1>1, <1>2, <1>3 DEF Job
  <1>5. Turns'
    BY <1>1, <1>2, <1>4 DEF MapInv, Turns, NoBuild, NoClaims, Nothing
  <1>6. \A p \in Paths : Sent(p, InMemory \cup Queued, gen.head)' <=> Sent(p, InMemory \cup Queued, gen.head)
    <2>1. UNCHANGED <<world, watch, gen, record, life, missed>> /\ left'.silent = left.silent
          /\ \A i \in Items : queue'[i].rev = queue[i].rev
      BY <1>1, <1>2
    <2>2. QED
      BY <2>1, SameSay
  <1>7. SweepOK'
    <2>1. ASSUME unapplied = job.mark, NEW p \in Paths
          PROVE  \/ Agrees(p, gen.files[p]) \/ job'.got[p] # Unread
                 \/ Sent(p, InMemory \cup Queued, gen.head)
      <3>1. Agrees(p, job.got[p]) \/ Sent(p, InMemory \cup Queued, gen.head)
        BY <1>1, <2>1 DEF MapInv, SweepOK
      <3>2. tree[p] # Unread
        BY <1>2, MapConstants
      <3>3. QED
        BY <1>4, <3>1, <3>2 DEF Agrees
    <2>2. QED
      BY <1>2, <1>4, <1>6, <2>1 DEF SweepOK, Agrees
  <1>8. DrainOK'
    BY <1>4 DEF DrainOK
  <1>9. job'.mark <= marks /\ job'.head <= head /\ \A i \in Items : job'.claims[i] <= queue[i].rev
    BY <1>4 DEF MapInv, Bounded
  <1>10. QED
    BY <1>1, <1>4, <1>5, <1>7, <1>8, <1>9, JobOnly

LEMMA EndSweepStep ==
  ASSUME MapInv, Separate', EndSweep PROVE MapInv'
  <1>1. /\ job.stage = "compared" /\ job' = Idle
        /\ UNCHANGED <<tree, head, os, events, overflowed, buffer, collapsed, gen, life, build, missed>>
    BY DEF EndSweep, world, watch
  <1>2. life = "up" /\ build = NoBuild
    BY <1>1 DEF MapInv, Turns
  <1>3. job'.stage = "idle" /\ job'.mark = 0 /\ job'.head = 0 /\ \A i \in Items : job'.claims[i] = 0
    BY <1>1 DEF Idle, NoClaims
  <1>4. Turns' /\ SweepOK' /\ DrainOK' /\ BuildOK'
    <2>1. Turns'
      BY <1>1, <1>2 DEF Turns, Idle, NoBuild, NoClaims, Nothing
    <2>2. QED
      BY <1>1, <1>2, <1>3, <2>1 DEF SweepOK, DrainOK, BuildOK, NoBuild
  <1>5. /\ marks \in Nat /\ unapplied \in Nat /\ head \in Nat /\ left \in Budget
        /\ job' \in Job /\ revision \in Nat /\ \A i \in Items : queue[i].rev \in Nat
    BY <1>1, IdleTyped DEF MapInv, MapTypeOK, Row
  <1>6. InMemory' = InMemory
    BY <1>1 DEF InMemory
  <1>7. ASSUME Admit({p \in Paths : job.got[p] # Unread}), unapplied' = ClearedBySweep, UNCHANGED <<marks, left>>
        PROVE  MapInv'
    <2>1. PICK S \in SUBSET Items : S = {p \in Paths : job.got[p] # Unread}
      BY DEF Items
    <2>2. /\ queue' \in [Items -> Row] /\ revision' \in Nat /\ revision <= revision'
          /\ \A i \in Items : /\ queue'[i].rev \in Nat /\ queue'[i].rev <= revision'
                              /\ queue[i].rev <= queue'[i].rev
                              /\ queue'[i].rev = queue[i].rev \/ queue'[i].rev > revision
          /\ turned' \in SUBSET Paths
          /\ \A i \in S : queue'[i].rev > revision \/ \A p \in Concerns({i}) : Heeded(p)
          /\ \A p \in turned : Heeded(p)
      BY <1>7, <2>1, Admitted
    <2>3. unapplied' \in Nat /\ unapplied' <= marks
      BY <1>5, <1>7 DEF ClearedBySweep, MapInv, Bounded
    <2>4. MapTypeOK'
      BY <1>1, <1>5, <1>7, <2>2, <2>3 DEF MapInv, MapTypeOK
    <2>5. Bounded'
      <3>1. \A i \in Items : build'.doomed[i] = 0
        BY <1>1, <1>2 DEF NoBuild, NoClaims
      <3>2. build'.mark = 0
        BY <1>1, <1>2 DEF NoBuild
      <3>3. QED
        BY <1>1, <1>3, <1>5, <1>7, <2>2, <2>3, <3>1, <3>2 DEF MapInv, Bounded
    <2>6. \A i \in Items : (i \in Queued => i \in Queued') /\ (queue'[i].rev > revision => i \in Queued')
      BY <1>5, <2>2 DEF Queued
    <2>7. ASSUME NEW p \in Paths
          PROVE  /\ Heeded(p) \/ p \in S => Sent(p, InMemory \cup Queued, gen.head)'
                 /\ Sent(p, InMemory \cup Queued, gen.head) => Sent(p, InMemory \cup Queued, gen.head)'
      <3>1. p \in Items /\ Rescan \in Items /\ GitHead \in Items /\ p \in Concerns({p})
        BY DEF Items, Concerns, Named
      <3>2. Heeded(p) => Sent(p, InMemory \cup Queued, gen.head)'
        BY <2>6, <3>1 DEF Heeded, Sent
      <3>3. p \in S => Heeded(p)
        BY <2>2, <3>1 DEF Heeded
      <3>4. p \in turned => Heeded(p)
        BY <2>2
      <3>5. QED
        BY <1>1, <1>6, <1>7, <2>6, <3>1, <3>2, <3>3, <3>4 DEF Sent
    <2>8. Sound'
      <3>1. CASE unapplied = job.mark
        <4>1. ASSUME NEW p \in Paths PROVE Agrees(p, gen.files[p])' \/ Sent(p, InMemory \cup Queued, gen.head)'
          <5>1. Agrees(p, gen.files[p]) \/ job.got[p] # Unread \/ Sent(p, InMemory \cup Queued, gen.head)
            BY <1>1, <3>1 DEF MapInv, SweepOK
          <5>2. job.got[p] # Unread => Sent(p, InMemory \cup Queued, gen.head)'
            BY <2>1, <2>7
          <5>3. QED
            BY <1>1, <2>7, <5>1, <5>2 DEF Agrees
        <4>2. QED
          BY <4>1 DEF Sound
      <3>2. CASE unapplied # job.mark
        <4>1. Known' = Known
          BY <1>1, <1>7, <3>2 DEF ClearedBySweep, Known
        <4>2. QED
          BY <1>1, <2>7, <4>1 DEF MapInv, Sound, Agrees
      <3>3. QED
        BY <3>1, <3>2
    <2>9. QED
      BY <1>4, <2>4, <2>5, <2>8 DEF MapInv
  <1>8. ASSUME Refused, IF job.first THEN Record ELSE UNCHANGED record, UNCHANGED <<queue, revision>>
        PROVE  MapInv'
    <2>1. left.refusals > 0 /\ left' = [left EXCEPT !.refusals = @ - 1]
      BY <1>8 DEF Refused
    <2>2. /\ left' \in Budget /\ left'.builds = left.builds /\ left'.silent = left.silent
      BY <1>5, <2>1, SpendsRefusals
    <2>3. /\ unapplied' \in Nat /\ marks' \in Nat /\ unapplied' <= marks'
          /\ unapplied # 0 => unapplied' # 0
          /\ turned' = turned
      BY <1>5, <1>8 DEF Record, record, MapInv, Bounded
    <2>4. MapTypeOK'
      BY <1>1, <1>5, <1>8, <2>2, <2>3 DEF MapInv, MapTypeOK
    <2>5. Bounded'
      BY <1>1, <1>3, <1>5, <1>8, <2>3 DEF MapInv, Bounded
    <2>6. Queued' = Queued /\ Known \subseteq Known'
      BY <1>1, <1>8, <2>3 DEF Queued, Known
    <2>7. Sound'
      BY <1>1, <1>6, <2>2, <2>3, <2>6 DEF MapInv, Sound, Sent, Agrees
    <2>8. QED
      BY <1>4, <2>4, <2>5, <2>7 DEF MapInv
  <1>9. QED
    BY <1>7, <1>8 DEF EndSweep

LEMMA BeginDrainStep ==
  ASSUME MapInv, Separate', BeginDrain PROVE MapInv'
  <1>1. /\ life = "up" /\ build.stage = "none"
        /\ UNCHANGED <<world, watch, store, record, life, build, missed, left>>
    BY DEF BeginDrain, WriterFree
  <1>2. PICK C : job' = [Idle EXCEPT !.stage = "head",
                           !.claims = [i \in Items |-> IF i \in C THEN queue[i].rev ELSE 0]]
    BY DEF BeginDrain
  <1>3. Idle \in Job /\ \A i \in Items : queue[i].rev \in Nat
    BY IdleTyped DEF MapInv, MapTypeOK, Row
  <1>4. [i \in Items |-> IF i \in C THEN queue[i].rev ELSE 0] \in [Items -> Nat]
    BY <1>3
  <1>5. /\ job' \in Job /\ job'.stage = "head" /\ job'.got = Nothing /\ job'.failed = {} /\ job'.mark = 0 /\ job'.head = 0
        /\ job'.todo = {} /\ \A i \in Items : job'.claims[i] = IF i \in C THEN queue[i].rev ELSE 0
    BY <1>2, <1>3, <1>4 DEF Job, Idle
  <1>6. build = NoBuild /\ build' = build /\ life' = life
    BY <1>1 DEF MapInv, Turns
  <1>7. Turns'
    BY <1>1, <1>5, <1>6 DEF Turns, NoBuild, NoClaims, Nothing
  <1>8. SweepOK' /\ DrainOK'
    BY <1>5 DEF SweepOK, DrainOK, Nothing
  <1>9. job'.mark <= marks /\ job'.head <= head /\ \A i \in Items : job'.claims[i] <= queue[i].rev
    <2>1. marks \in Nat /\ head \in Nat
      BY DEF MapInv, MapTypeOK
    <2>2. QED
      BY <1>3, <1>5, <2>1
  <1>10. QED
    BY <1>1, <1>5, <1>7, <1>8, <1>9, JobOnly

\* What is queued and was not claimed stands.
LEMMA StandsOrWanted ==
  ASSUME MapInv, NEW i \in Queued PROVE i \in Standing \/ i \in Claimed \ job.failed
  BY DEF Standing, Answered

LEMMA ReadHeadStep ==
  ASSUME MapInv, Separate', ReadHead PROVE MapInv'
  <1>1. /\ job.stage = "head"
        /\ job' = [job EXCEPT !.stage = "collect", !.head = head, !.todo = Named(Claimed)]
        /\ UNCHANGED <<world, watch, store, record, life, build, missed, left>>
    BY DEF ReadHead
  <1>2. /\ job \in Job /\ head \in Nat /\ tree' = tree /\ gen' = gen /\ queue' = queue /\ head' = head
        /\ build' = build /\ life' = life /\ unapplied' = unapplied /\ left' = left
    BY <1>1 DEF MapInv, MapTypeOK, world, store, record
  <1>3. Named(Claimed) \in SUBSET Paths
    BY DEF Named
  <1>4. /\ job' \in Job /\ job'.stage = "collect" /\ job'.claims = job.claims /\ job'.failed = job.failed
        /\ job'.head = head /\ job'.mark = job.mark /\ job'.todo = Named(Claimed) /\ job'.got = job.got
    BY <1>1, <1>2, <1>3 DEF Job
  <1>5. Turns'
    BY <1>1, <1>2, <1>4 DEF MapInv, Turns, NoBuild, NoClaims, Nothing
  <1>6. InMemory' = InMemory /\ Queued' = Queued /\ Known' = Known
    <2>1. UNCHANGED <<world, watch, gen, record, life, missed>> /\ left'.silent = left.silent
          /\ \A i \in Items : queue'[i].rev = queue[i].rev
      BY <1>1, <1>2
    <2>2. QED
      BY <2>1, SameSay
  <1>7. Claimed' = Claimed /\ Standing' = Standing
    <2>1. Claimed' = Claimed
      BY <1>4 DEF Claimed
    <2>2. \A i \in Items : Answered(i)' <=> Answered(i)
      BY <1>2, <1>4, <2>1 DEF Answered
    <2>3. QED
      BY <1>6, <2>1, <2>2 DEF Standing, Queued
  <1>8. DrainOK'
    <2>1. ASSUME NEW p \in Paths, Wants(p)' PROVE p \in job'.todo
      BY <1>4, <1>7, <2>1 DEF Wants, Named
    <2>2. ASSUME NEW p \in Paths, ~Wants(p)'
          PROVE  /\ job'.got[p] = Unread
                 /\ Agrees(p, gen.files[p])' \/ Fresh(p)' \/ (left'.silent /\ Moved')
      <3>1. job'.got[p] = Unread
        BY <1>1, <1>4 DEF MapInv, DrainOK, Nothing
      <3>2. p \notin Claimed \ job.failed /\ Rescan \notin Claimed \ job.failed
        BY <1>4, <1>7, <2>2 DEF Wants
      <3>3. Agrees(p, gen.files[p]) \/ Sent(p, InMemory \cup Queued, gen.head) \/ p \in Known
        BY DEF MapInv, Sound
      <3>4. CASE p \in InMemory \cup Queued \/ Rescan \in InMemory \cup Queued
        <4>1. p \in InMemory \cup Standing \/ Rescan \in InMemory \cup Standing
          BY <3>2, <3>4, StandsOrWanted
        <4>2. QED
          BY <1>6, <1>7, <3>1, <4>1 DEF Fresh, Sent
      <3>5. CASE left.silent /\ gen.head # head
        BY <1>2, <1>4, <3>1, <3>5 DEF Moved
      <3>6. QED
        BY <1>1, <1>2, <1>6, <3>1, <3>3, <3>4, <3>5 DEF Sent, Fresh, Agrees, record
    <2>3. ASSUME NEW p \in Paths, ~Wants(p)' PROVE p \notin job'.todo
      <3>1. job.failed = {}
        BY <1>1 DEF MapInv, DrainOK
      <3>2. QED
        BY <1>4, <1>7, <2>3, <3>1 DEF Wants, Named
    <2>4. QED
      BY <1>4, <2>1, <2>2, <2>3 DEF DrainOK
  <1>9. SweepOK'
    BY <1>4 DEF SweepOK
  <1>10. job'.mark <= marks /\ job'.head <= head /\ \A i \in Items : job'.claims[i] <= queue[i].rev
    BY <1>2, <1>4 DEF MapInv, Bounded
  <1>11. QED
    BY <1>1, <1>4, <1>5, <1>8, <1>9, <1>10, JobOnly

LEMMA CollectFailsStep ==
  ASSUME MapInv, Separate', NEW i \in Items, CollectFails(i) PROVE MapInv'
  <1>1. PICK failed, wanted :
           /\ failed = job.failed \cup {i} /\ wanted = Named(Claimed \ failed)
           /\ job' = [job EXCEPT !.failed = failed, !.todo = job.todo \cap wanted,
                        !.got = [p \in Paths |-> IF p \in wanted THEN job.got[p] ELSE Unread]]
    BY DEF CollectFails
  <1>2. /\ left' = left \/ (left.faults > 0 /\ left' = [left EXCEPT !.faults = @ - 1])
        /\ job.stage = "collect" /\ i \in Claimed
        /\ UNCHANGED <<world, watch, store, record, life, build, missed>>
    BY DEF CollectFails
  <1>3. left' \in Budget /\ left'.silent = left.silent
    BY <1>2, SpendsFaults DEF MapInv, MapTypeOK
  <1>4. /\ job \in Job /\ head' = head /\ tree' = tree /\ gen' = gen /\ queue' = queue /\ revision' = revision
        /\ build' = build /\ life' = life /\ unapplied' = unapplied /\ turned' = turned
        /\ queue \in [Items -> Row]
        /\ \A j \in Items : queue[j].rev \in Nat
    BY <1>2 DEF MapInv, MapTypeOK, Row, world, store, record
  <1>5. /\ failed \in SUBSET Items /\ job.todo \cap wanted \in SUBSET Paths
        /\ [p \in Paths |-> IF p \in wanted THEN job.got[p] ELSE Unread] \in [Paths -> Content \cup {Unread}]
    BY <1>1, <1>4 DEF Job
  <1>6. /\ job' \in Job /\ job'.stage = "collect" /\ job'.claims = job.claims /\ job'.failed = job.failed \cup {i}
        /\ job'.head = job.head /\ job'.mark = job.mark /\ job'.todo = job.todo \cap wanted
        /\ \A p \in Paths : job'.got[p] = IF p \in wanted THEN job.got[p] ELSE Unread
    BY <1>1, <1>2, <1>4, <1>5 DEF Job
  <1>7. Turns'
    BY <1>2, <1>4, <1>6 DEF MapInv, Turns, NoBuild, NoClaims, Nothing
  <1>8. InMemory' = InMemory /\ Queued' = Queued /\ Known' = Known
    <2>1. UNCHANGED <<world, watch, gen, record, life, missed>> /\ \A j \in Items : queue'[j].rev = queue[j].rev
      BY <1>2, <1>4
    <2>2. QED
      BY <1>3, <2>1, SameSay
  <1>9. Claimed' = Claimed
    BY <1>6 DEF Claimed
  <1>10. Standing \subseteq Standing'
    BY <1>4, <1>6, <1>8, <1>9 DEF Standing, Answered
  <1>11. i \in Standing'
    <2>1. queue[i].rev > 0
      <3>1. job.claims[i] \in Nat /\ queue[i].rev \in Nat /\ job.claims[i] > 0 /\ job.claims[i] <= queue[i].rev
        BY <1>2, <1>4 DEF Claimed, Job, MapInv, Bounded
      <3>2. QED
        BY <3>1
    <2>2. QED
      BY <1>4, <1>6, <2>1 DEF Standing, Answered, Queued
  <1>12. \A p \in Paths : Fresh(p) => Fresh(p)'
    BY <1>3, <1>4, <1>6, <1>8, <1>10 DEF Fresh, Sent
  <1>13. \A p \in Paths : Wants(p)' <=> p \in wanted
    BY <1>1, <1>6, <1>9 DEF Wants, Named
  <1>14. Moved' <=> Moved
    BY <1>4, <1>6 DEF Moved
  <1>15. DrainOK'
    <2>1. ASSUME NEW p \in Paths
          PROVE  /\ Wants(p)' => p \in job'.todo \/ (job'.got[p] \in Content /\ (Agrees(p, job.got[p])' \/ Fresh(p)'))
                 /\ ~Wants(p)' => /\ job'.got[p] = Unread /\ p \notin job'.todo
                                  /\ Agrees(p, gen.files[p])' \/ Fresh(p)' \/ (left'.silent /\ Moved')
      <3>1. /\ Wants(p) => p \in job.todo \/ (job.got[p] \in Content /\ (Agrees(p, job.got[p]) \/ Fresh(p)))
            /\ ~Wants(p) => Agrees(p, gen.files[p]) \/ Fresh(p) \/ (left.silent /\ Moved)
        BY <1>2 DEF MapInv, DrainOK
      <3>2. CASE p \in wanted
        <4>1. Wants(p)
          BY <1>1, <3>2 DEF Wants, Named
        <4>2. QED
          BY <1>4, <1>6, <1>12, <1>13, <3>1, <3>2, <4>1 DEF Agrees
      <3>3. CASE p \notin wanted
        <4>1. Wants(p) => p = i \/ Rescan = i
          BY <1>1, <3>3 DEF Wants, Named
        <4>2. Wants(p) => Fresh(p)'
          BY <1>11, <4>1 DEF Fresh, Sent
        <4>3. QED
          BY <1>3, <1>4, <1>6, <1>12, <1>13, <1>14, <3>1, <3>3, <4>2 DEF Agrees
      <3>4. QED
        BY <3>2, <3>3
    <2>2. QED
      BY <1>6, <2>1 DEF DrainOK
  <1>16. SweepOK'
    BY <1>6 DEF SweepOK
  <1>17. job'.mark <= marks /\ job'.head <= head /\ \A j \in Items : job'.claims[j] <= queue[j].rev
    BY <1>6 DEF MapInv, Bounded
  <1>18. UNCHANGED <<world, watch, revision, gen, record, build, missed>> /\ queue' \in [Items -> Row]
    BY <1>2, <1>4
  <1>19. QED
    BY <1>3, <1>4, <1>6, <1>7, <1>15, <1>16, <1>17, <1>18, JobKeeps

LEMMA EndCollectStep ==
  ASSUME MapInv, Separate', EndCollect PROVE MapInv'
  <1>1. /\ job.stage = "collect" /\ job.todo = {} /\ Bump
        /\ UNCHANGED <<world, watch, revision, gen, record, life, build, missed, left>>
    BY DEF EndCollect
  <1>2. job \in Job /\ left' \in Budget /\ tree' = tree /\ gen' = gen /\ left' = left /\ head' = head
        /\ build' = build /\ life' = life
    BY <1>1 DEF MapInv, MapTypeOK, world
  <1>3. queue' \in [Items -> Row] /\ \A j \in Items : queue'[j].rev = queue[j].rev
    <2>1. ASSUME NEW j \in Items PROVE queue'[j] \in Row /\ queue'[j].rev = queue[j].rev
      <3>1. queue[j] \in Row
        BY DEF MapInv, MapTypeOK
      <3>2. queue'[j] = queue[j] \/ queue'[j] = [queue[j] EXCEPT !.attempts = @ + 1]
        BY <1>1 DEF Bump
      <3>3. QED
        BY <3>1, <3>2 DEF Row
    <2>2. QED
      BY <1>1, <2>1 DEF Bump
  <1>4. UNCHANGED <<world, watch, revision, gen, record, build, missed>> /\ life' = life
        /\ left'.silent = left.silent
    BY <1>1
  <1>5. CASE job' = Idle
    BY <1>2, <1>3, <1>4, <1>5, LetGo
  <1>6. ASSUME job'.stage = "save", job' \in Job, job'.claims = job.claims, job'.failed = job.failed,
               job'.head = job.head, job'.mark = job.mark,
               \A p \in Paths \ job'.todo : Agrees(p, Carried(p))' \/ Fresh(p)
        PROVE  MapInv'
    <2>1. \A p \in Paths : Fresh(p)' <=> Fresh(p)
      BY <1>3, <1>4, <1>6, SameClaims
    <2>2. DrainOK'
      BY <1>6, <2>1 DEF DrainOK
    <2>3. SweepOK'
      BY <1>6 DEF SweepOK
    <2>4. Turns'
      BY <1>1, <1>2, <1>6 DEF MapInv, Turns, NoBuild, NoClaims, Nothing
    <2>5. job'.mark <= marks /\ job'.head <= head /\ \A j \in Items : job'.claims[j] <= queue[j].rev
      BY <1>6 DEF MapInv, Bounded
    <2>6. QED
      BY <1>2, <1>3, <1>4, <1>6, <2>2, <2>3, <2>4, <2>5, JobKeeps
  <1>7. CASE job' = [job EXCEPT !.stage = "save", !.todo = Paths, !.got = Nothing]
    <2>1. Paths \in SUBSET Paths /\ Nothing \in [Paths -> Content \cup {Unread}]
      BY DEF Nothing
    <2>2. /\ job'.stage = "save" /\ job' \in Job /\ job'.claims = job.claims /\ job'.failed = job.failed
          /\ job'.head = job.head /\ job'.mark = job.mark /\ job'.todo = Paths
      BY <1>2, <1>7, <2>1 DEF Job
    <2>3. QED
      BY <1>6, <2>2
  <1>8. CASE ~Moved /\ job' = [job EXCEPT !.stage = "save"]
    <2>1. /\ job'.stage = "save" /\ job' \in Job /\ job'.claims = job.claims /\ job'.failed = job.failed
          /\ job'.head = job.head /\ job'.mark = job.mark /\ job'.got = job.got
      BY <1>2, <1>8 DEF Job
    <2>2. ASSUME NEW p \in Paths PROVE Agrees(p, Carried(p))' \/ Fresh(p)
      <3>1. Carried(p)' = Carried(p)
        BY <1>2, <2>1 DEF Carried
      <3>2. CASE Wants(p)
        <4>1. job.got[p] \in Content /\ (Agrees(p, job.got[p]) \/ Fresh(p))
          BY <1>1, <3>2 DEF MapInv, DrainOK
        <4>2. Carried(p) = job.got[p] \/ job.got[p] = Unreadable
          BY <4>1, MapConstants DEF Carried
        <4>3. QED
          BY <1>2, <3>1, <4>1, <4>2 DEF Agrees
      <3>3. CASE ~Wants(p)
        <4>1. job.got[p] = Unread /\ (Agrees(p, gen.files[p]) \/ Fresh(p))
          BY <1>1, <1>8, <3>3 DEF MapInv, DrainOK
        <4>2. Carried(p) = gen.files[p]
          BY <4>1 DEF Carried
        <4>3. QED
          BY <1>2, <3>1, <4>1, <4>2 DEF Agrees
      <3>4. QED
        BY <3>2, <3>3
    <2>3. QED
      BY <1>6, <2>1, <2>2
  <1>9. QED
    BY <1>5, <1>7, <1>8 DEF EndCollect

LEMMA SaveStep ==
  ASSUME MapInv, Separate', Save PROVE MapInv'
  <1>1. /\ job.stage = "save" /\ job.todo = {} /\ queue' = queue
        /\ UNCHANGED <<world, watch, revision, record, life, build, missed>>
    BY DEF Save
  <1>2. job \in Job /\ life = "up" /\ build = NoBuild /\ left \in Budget /\ queue \in [Items -> Row]
    BY <1>1 DEF MapInv, MapTypeOK, Turns
  <1>3. CASE left.faults > 0 /\ left' = [left EXCEPT !.faults = @ - 1] /\ job' = Idle /\ UNCHANGED gen
    <2>1. left' \in Budget /\ left'.silent = left.silent
      BY <1>2, <1>3, SpendsFaults
    <2>2. QED
      BY <1>1, <1>2, <1>3, <2>1, LetGo
  <1>4. CASE /\ gen' = [files |-> [p \in Paths |-> Carried(p)], head |-> Stamp]
             /\ job' = [job EXCEPT !.stage = "ack"] /\ left' = left
    <2>1. gen'.head = job.head /\ \A p \in Paths : gen'.files[p] = Carried(p)
      BY <1>4 DEF Stamp
    <2>2. gen' \in [files : [Paths -> Content], head : Nat]
      <3>1. [p \in Paths |-> Carried(p)] \in [Paths -> Content]
        BY <1>2 DEF Carried, Job, MapInv, MapTypeOK
      <3>2. QED
        BY <1>2, <1>4, <3>1 DEF Stamp, Job
    <2>3. /\ job' \in Job /\ job'.stage = "ack" /\ job'.claims = job.claims /\ job'.failed = job.failed
          /\ job'.head = job.head /\ job'.mark = job.mark /\ job'.todo = {}
      BY <1>1, <1>2, <1>4 DEF Job
    <2>4. /\ tree' = tree /\ head' = head /\ unapplied' = unapplied /\ marks' = marks /\ revision' = revision
          /\ life' = life /\ build' = build /\ missed' = missed /\ turned' = turned
      BY <1>1 DEF world, record
    <2>5. MapTypeOK'
      BY <1>1, <1>2, <1>4, <2>2, <2>3 DEF MapInv, MapTypeOK, world, watch, record
    <2>6. Bounded'
      BY <1>1, <2>1, <2>3, <2>4 DEF MapInv, Bounded
    <2>7. Turns'
      BY <1>2, <2>3, <2>4 DEF Turns, NoBuild, NoClaims, Nothing
    <2>8. InMemory' = InMemory /\ Queued' = Queued /\ Known' = Known /\ Standing' = Standing
      <3>1. InMemory' = InMemory
        BY <1>1 DEF InMemory, watch
      <3>2. Queued' = Queued /\ Known' = Known
        BY <1>1, <2>4 DEF Queued, Known
      <3>3. Claimed' = Claimed
        BY <2>3 DEF Claimed
      <3>4. \A i \in Items : Answered(i)' <=> Answered(i)
        BY <1>1, <2>3, <3>3 DEF Answered
      <3>5. QED
        BY <3>1, <3>2, <3>4 DEF Standing, Queued
    <2>9. \A p \in Paths : Fresh(p)' <=> Fresh(p)
      BY <1>4, <2>3, <2>4, <2>8 DEF Fresh, Sent
    <2>10. \A p \in Paths : Agrees(p, gen.files[p])' \/ Fresh(p)
      BY <1>1, <2>1, <2>4 DEF MapInv, DrainOK, Agrees
    <2>11. DrainOK'
      BY <2>1, <2>3, <2>9, <2>10 DEF DrainOK
    <2>12. Sound'
      <3>1. Standing \subseteq Queued
        BY DEF Standing
      <3>2. \A p \in Paths : Fresh(p) => Sent(p, InMemory \cup Queued, gen.head)' \/ p \in Known'
        BY <1>4, <2>1, <2>4, <2>8, <3>1 DEF Fresh, Sent
      <3>3. QED
        BY <2>10, <3>2 DEF Sound
    <2>13. SweepOK' /\ BuildOK'
      BY <1>2, <2>3, <2>4 DEF SweepOK, BuildOK, NoBuild
    <2>14. QED
      BY <2>5, <2>6, <2>7, <2>11, <2>12, <2>13 DEF MapInv
  <1>5. QED
    BY <1>3, <1>4 DEF Save

LEMMA AckStep ==
  ASSUME MapInv, Separate', Ack PROVE MapInv'
  <1>1. /\ job.stage = "ack" /\ job' = Idle
        /\ queue' = [i \in Items |-> IF Answered(i) THEN NoRow ELSE queue[i]]
        /\ UNCHANGED <<world, watch, revision, gen, record, life, build, missed, left>>
    BY DEF Ack
  <1>2. /\ life = "up" /\ build = NoBuild /\ queue \in [Items -> Row] /\ revision \in Nat /\ marks \in Nat
        /\ head \in Nat
    BY <1>1 DEF MapInv, MapTypeOK, Turns
  <1>3. /\ tree' = tree /\ head' = head /\ unapplied' = unapplied /\ marks' = marks /\ revision' = revision
        /\ life' = life /\ build' = build /\ missed' = missed /\ gen' = gen /\ left' = left
        /\ turned' = turned
    BY <1>1 DEF world, record
  <1>4. NoRow \in Row /\ NoRow.rev = 0
    BY DEF NoRow, Row
  <1>5. queue' \in [Items -> Row] /\ \A i \in Items : queue'[i].rev = IF Answered(i) THEN 0 ELSE queue[i].rev
    BY <1>1, <1>2, <1>4
  <1>6. job'.stage = "idle" /\ job'.mark = 0 /\ job'.head = 0 /\ \A i \in Items : job'.claims[i] = 0
    BY <1>1 DEF Idle, NoClaims
  <1>7. MapTypeOK'
    BY <1>1, <1>3, <1>5, IdleTyped DEF MapInv, MapTypeOK, watch
  <1>8. Bounded'
    <2>1. ASSUME NEW i \in Items PROVE job'.claims[i] <= queue'[i].rev /\ queue'[i].rev <= revision'
      <3>1. queue[i].rev \in Nat /\ queue[i].rev <= revision
        BY <1>2 DEF Row, MapInv, Bounded
      <3>2. QED
        BY <1>2, <1>3, <1>5, <1>6, <3>1
    <2>2. QED
      BY <1>2, <1>3, <1>6, <2>1 DEF MapInv, Bounded
  <1>9. Turns' /\ SweepOK' /\ DrainOK' /\ BuildOK'
    <2>1. Turns'
      BY <1>1, <1>2, <1>3 DEF Turns, Idle, NoBuild, NoClaims, Nothing
    <2>2. QED
      BY <1>2, <1>3, <1>6, <2>1 DEF SweepOK, DrainOK, BuildOK, NoBuild
  <1>10. InMemory' = InMemory /\ Known' = Known /\ Queued' = Standing
    <2>1. InMemory' = InMemory /\ Known' = Known
      BY <1>1, <1>3 DEF InMemory, Known, watch
    <2>2. Queued' = Standing
      BY <1>5 DEF Queued, Standing
    <2>3. QED
      BY <2>1, <2>2
  <1>11. Sound'
    <2>1. gen.head = job.head /\ \A p \in Paths : Agrees(p, gen.files[p]) \/ Fresh(p)
      BY <1>1 DEF MapInv, DrainOK
    <2>2. QED
      BY <1>3, <1>10, <2>1 DEF Sound, Fresh, Sent, Agrees
  <1>12. QED
    BY <1>7, <1>8, <1>9, <1>11 DEF MapInv

-----------------------------------------------------------------------------
\* While a build runs the daemon rests, and has nothing to sweep for.
LEMMA BuildAlone ==
  ASSUME MapInv, build.stage # "none" PROVE Quiet /\ job.stage = "idle" /\ job = Idle
  <1>1. build # NoBuild
    BY DEF NoBuild
  <1>2. QED
    BY <1>1 DEF MapInv, Separate, Turns

LEMMA BuildKeeps ==
  ASSUME MapInv, Separate', Quiet, job = Idle, UNCHANGED <<world, watch, revision, record, life, job, missed>>,
         left' \in Budget, left'.silent = left.silent,
         queue' \in [Items -> Row], \A i \in Items : queue'[i].rev = 0 \/ queue'[i].rev = queue[i].rev,
         gen' \in [files : [Paths -> Content], head : Nat], gen'.head <= head,
         build' \in Build, build'.mark <= revision, \A i \in Items : build'.doomed[i] <= revision,
         build'.stage = "none" => build' = NoBuild, build'.todo # {} => build'.stage = "scan",
         Sound', BuildOK'
  PROVE  MapInv'
  <1>1. /\ tree' = tree /\ head' = head /\ unapplied' = unapplied /\ marks' = marks /\ revision' = revision
        /\ life' = life /\ job' = job /\ missed' = missed
    BY DEF world, record
  <1>2. MapTypeOK'
    BY DEF MapInv, MapTypeOK, world, watch, record
  <1>3. Bounded'
    <2>1. ASSUME NEW i \in Items PROVE job'.claims[i] <= queue'[i].rev /\ queue'[i].rev <= revision'
      <3>1. job'.claims[i] = 0 /\ revision \in Nat /\ queue[i].rev <= revision /\ queue[i].rev \in Nat
        BY <1>1 DEF Idle, NoClaims, MapInv, MapTypeOK, Bounded, Row
      <3>2. QED
        BY <1>1, <3>1
    <2>2. QED
      BY <1>1, <2>1 DEF MapInv, Bounded
  <1>4. job'.stage = "idle" /\ job'.todo = {}
    BY <1>1 DEF Idle
  <1>5. Turns'
    <2>1. job' = Idle'
      BY <1>1 DEF Idle, NoClaims, Nothing
    <2>2. NoBuild' = NoBuild
      BY DEF NoBuild, NoClaims, Nothing
    <2>3. QED
      BY <1>4, <2>1, <2>2 DEF Turns
  <1>6. SweepOK' /\ DrainOK'
    BY <1>4 DEF SweepOK, DrainOK
  <1>7. QED
    BY <1>2, <1>3, <1>5, <1>6 DEF MapInv

\* The notices and the map stay, and so does what is sound.
LEMMA SoundStays ==
  ASSUME MapInv, UNCHANGED <<world, watch, gen, record, life, missed>>, left'.silent = left.silent,
         queue' = queue
  PROVE  Sound'
  <1>1. Known' = Known /\ \A p \in Paths :
           Sent(p, InMemory \cup Queued, gen.head)' <=> Sent(p, InMemory \cup Queued, gen.head)
    BY SameSay
  <1>2. QED
    BY <1>1 DEF MapInv, Sound, world, Agrees

LEMMA BeginBuildStep ==
  ASSUME MapInv, Separate', BeginBuild PROVE MapInv'
  <1>1. /\ left.builds > 0 /\ left' = [left EXCEPT !.builds = @ - 1] /\ WriterFree
        /\ build' = [NoBuild EXCEPT !.stage = "classify", !.mark = revision]
        /\ queue' = queue /\ gen' = gen
        /\ UNCHANGED <<world, watch, revision, record, life, job, missed>>
    BY DEF BeginBuild, store
  <1>2. /\ left' \in Budget /\ left'.refusals = left.refusals /\ left'.starts = left.starts
        /\ left'.silent = left.silent /\ left.builds \in Nat
    BY <1>1, SpendsBuilds DEF MapInv, MapTypeOK
  <1>3. NoBuild \in Build /\ revision \in Nat /\ queue' \in [Items -> Row]
        /\ gen' \in [files : [Paths -> Content], head : Nat] /\ gen'.head <= head
    BY <1>1, IdleTyped DEF MapInv, MapTypeOK, Bounded
  <1>4. /\ build' \in Build /\ build'.stage = "classify" /\ build'.mark = revision /\ build'.todo = {}
        /\ \A i \in Items : build'.doomed[i] = 0
    BY <1>1, <1>3 DEF Build, NoBuild, NoClaims
  <1>5. Quiet /\ job = Idle
    <2>1. Quiet'
      BY <1>4 DEF Separate
    <2>2. Quiet
      BY <1>1, <1>2, <2>1 DEF Quiet, record
    <2>3. QED
      BY <1>1, <2>2 DEF Quiet, WriterFree, MapInv, Turns
  <1>6. Sound'
    BY <1>1, <1>2, SoundStays
  <1>7. BuildOK'
    BY <1>4 DEF BuildOK
  <1>8. build'.mark <= revision /\ \A i \in Items : build'.doomed[i] <= revision
    BY <1>3, <1>4
  <1>9. QED
    BY <1>1, <1>2, <1>5, <1>3, <1>4, <1>6, <1>7, <1>8, BuildKeeps

LEMMA BuildDiesStep ==
  ASSUME MapInv, Separate', BuildDies PROVE MapInv'
  <1>1. /\ left.faults > 0 /\ left' = [left EXCEPT !.faults = @ - 1] /\ build.stage # "none"
        /\ build' = NoBuild /\ queue' = queue /\ gen' = gen
        /\ UNCHANGED <<world, watch, revision, record, life, job, missed>>
    BY DEF BuildDies, store
  <1>2. left' \in Budget /\ left'.silent = left.silent
    BY <1>1, SpendsFaults DEF MapInv, MapTypeOK
  <1>3. Quiet /\ job = Idle
    BY <1>1, BuildAlone
  <1>4. build' \in Build /\ revision \in Nat /\ queue' \in [Items -> Row]
        /\ gen' \in [files : [Paths -> Content], head : Nat] /\ gen'.head <= head
    BY <1>1, IdleTyped DEF MapInv, MapTypeOK, Bounded
  <1>5. /\ build'.stage = "none" /\ build'.mark = 0 /\ build'.todo = {}
        /\ \A i \in Items : build'.doomed[i] = 0
    BY <1>1 DEF NoBuild, NoClaims
  <1>6. Sound'
    BY <1>1, <1>2, SoundStays
  <1>7. BuildOK'
    BY <1>5 DEF BuildOK
  <1>8. build'.mark <= revision /\ \A i \in Items : build'.doomed[i] <= revision
    BY <1>4, <1>5
  <1>9. QED
    BY <1>1, <1>2, <1>3, <1>4, <1>5, <1>6, <1>7, <1>8, BuildKeeps

LEMMA ClassifyStep ==
  ASSUME MapInv, Separate', Classify PROVE MapInv'
  <1> DEFINE D == [i \in Items |-> IF i \in Paths /\ tree[i] = Absent /\ gen.files[i] = Absent
                                   THEN queue[i].rev ELSE 0]
  <1>1. /\ build.stage = "classify" /\ build' = [build EXCEPT !.stage = "drop", !.doomed = D]
        /\ queue' = queue /\ gen' = gen /\ left' = left /\ tree' = tree /\ head' = head /\ life' = life
        /\ UNCHANGED <<world, watch, revision, record, life, job, missed>>
    BY DEF Classify, store, world
  <1>2. Quiet /\ job = Idle
    BY <1>1, BuildAlone
  <1>3. /\ build \in Build /\ revision \in Nat /\ queue' \in [Items -> Row] /\ left' \in Budget
        /\ gen' \in [files : [Paths -> Content], head : Nat] /\ gen'.head <= head
        /\ \A i \in Items : queue[i].rev \in Nat /\ queue[i].rev <= revision
    BY <1>1 DEF MapInv, MapTypeOK, Bounded, Row
  <1>4. D \in [Items -> Nat] /\ \A i \in Items : D[i] <= revision
    BY <1>3
  <1>5. Rescan \in Items /\ D[Rescan] = 0 /\ \A p \in Paths :
           D[p] > 0 => tree[p] = gen.files[p]
    BY MapConstants DEF Items
  <1> HIDE DEF D
  <1>6. /\ build' \in Build /\ build'.stage = "drop" /\ build'.mark = build.mark /\ build'.todo = build.todo
        /\ build'.doomed = D
    BY <1>1, <1>3, <1>4 DEF Build
  <1>7. Sound'
    BY <1>1, SoundStays
  <1>8. ASSUME NEW p \in Paths
        PROVE  Agrees(p, gen.files[p])' \/ Sent(p, InMemory \cup Spared, gen.head)' \/ p \in Known'
    <2>1. InMemory' = InMemory /\ Queued' = Queued /\ Known' = Known
      BY <1>1, SameSay
    <2>2. Agrees(p, gen.files[p]) \/ Sent(p, InMemory \cup Queued, gen.head) \/ p \in Known
      BY DEF MapInv, Sound
    <2>3. ASSUME ~Agrees(p, gen.files[p])
          PROVE  (p \in Queued => p \in Spared') /\ (Rescan \in Queued => Rescan \in Spared')
      <3>1. p \in Items /\ ~(D[p] > 0) /\ ~(D[Rescan] > 0)
        BY <1>5, <2>3 DEF Items, Agrees
      <3>2. QED
        BY <1>6, <2>1, <3>1 DEF Spared, Doomed
    <2>4. ~left.silent
      BY <1>2 DEF Quiet
    <2>5. QED
      BY <1>1, <2>1, <2>2, <2>3, <2>4 DEF Sent, Agrees, record
  <1>9. BuildOK'
    BY <1>6, <1>8 DEF BuildOK
  <1>10. /\ build'.mark <= revision /\ \A i \in Items : build'.doomed[i] <= revision
         /\ build'.todo = {}
    BY <1>1, <1>4, <1>6 DEF MapInv, Bounded, Turns
  <1>11. QED
    BY <1>1, <1>2, <1>3, <1>6, <1>7, <1>9, <1>10, BuildKeeps

LEMMA DropStep ==
  ASSUME MapInv, Separate', Drop PROVE MapInv'
  <1>1. /\ build.stage = "drop" /\ queue' = [i \in Items |-> IF Doomed(i) THEN NoRow ELSE queue[i]]
        /\ build' = [build EXCEPT !.stage = "scan", !.doomed = NoClaims, !.todo = Paths]
        /\ gen' = gen /\ left' = left /\ tree' = tree /\ head' = head /\ life' = life
        /\ UNCHANGED <<world, watch, revision, record, life, job, missed>>
    BY DEF Drop, world
  <1>2. Quiet /\ job = Idle
    BY <1>1, BuildAlone
  <1>3. /\ build \in Build /\ revision \in Nat /\ queue \in [Items -> Row] /\ left' \in Budget
        /\ gen' \in [files : [Paths -> Content], head : Nat] /\ gen'.head <= head
        /\ NoClaims \in [Items -> Nat] /\ Paths \in SUBSET Paths /\ NoRow \in Row /\ NoRow.rev = 0
    BY <1>1 DEF MapInv, MapTypeOK, Bounded, Row, NoClaims, NoRow
  <1>4. /\ queue' \in [Items -> Row]
        /\ \A i \in Items : queue'[i].rev = IF Doomed(i) THEN 0 ELSE queue[i].rev
    BY <1>1, <1>3
  <1>5. /\ build' \in Build /\ build'.stage = "scan" /\ build'.mark = build.mark /\ build'.todo = Paths
        /\ \A i \in Items : build'.doomed[i] = 0
    BY <1>1, <1>3 DEF Build, NoClaims
  <1>6. Queued' = Spared /\ InMemory' = InMemory /\ Known' = Known
    <2>1. Queued' = Spared
      BY <1>4 DEF Queued, Spared
    <2>2. InMemory' = InMemory /\ Known' = Known
      BY <1>1 DEF InMemory, Known, watch, record
    <2>3. QED
      BY <2>1, <2>2
  <1>7. Sound'
    BY <1>1, <1>6 DEF MapInv, BuildOK, Sound, Sent, Agrees, record
  <1>8. BuildOK'
    BY <1>5 DEF BuildOK
  <1>9. build'.mark <= revision /\ \A i \in Items : build'.doomed[i] <= revision
    BY <1>3, <1>5 DEF MapInv, Bounded
  <1>10. \A i \in Items : queue'[i].rev = 0 \/ queue'[i].rev = queue[i].rev
    BY <1>4
  <1>11. QED
    BY <1>1, <1>2, <1>3, <1>4, <1>5, <1>7, <1>8, <1>9, <1>10, BuildKeeps

\* What arrived after a build began is still said.
LEMMA SameNews ==
  ASSUME UNCHANGED <<world, watch, record, life, missed, queue>>, left'.silent = left.silent,
         ~left.silent, build'.mark = build.mark
  PROVE  /\ Known' = Known
         /\ \A p \in Paths : Sent(p, InMemory \cup Newer, gen.head)' <=> Sent(p, InMemory \cup Newer, gen.head)
         /\ \A p \in Paths : Sent(p, InMemory \cup Queued, gen.head)' <=> Sent(p, InMemory \cup Queued, gen.head)
  <1>1. InMemory' = InMemory
    BY DEF InMemory, watch
  <1>2. Newer' = Newer /\ Queued' = Queued /\ Known' = Known
    BY DEF Newer, Queued, Known, record
  <1>3. QED
    BY <1>1, <1>2 DEF Sent, record

LEMMA BuildReadStep ==
  ASSUME MapInv, Separate', NEW p \in Paths, BuildRead(p) PROVE MapInv'
  <1>1. /\ p \in build.todo /\ build' = [build EXCEPT !.got[p] = Found(tree[p]), !.todo = @ \ {p}]
        /\ queue' = queue /\ gen' = gen /\ left' = left /\ tree' = tree /\ head' = head /\ life' = life
        /\ UNCHANGED <<world, watch, revision, record, life, job, missed>>
    BY DEF BuildRead, store, world
  <1>2. build.stage = "scan"
    BY <1>1 DEF MapInv, Turns
  <1>3. Quiet /\ job = Idle
    BY <1>2, BuildAlone
  <1>4. /\ build \in Build /\ revision \in Nat /\ queue' \in [Items -> Row] /\ left' \in Budget
        /\ gen' \in [files : [Paths -> Content], head : Nat] /\ gen'.head <= head /\ Found(tree[p]) \in Content
    BY <1>1, MapConstants DEF MapInv, MapTypeOK, Bounded, Found
  <1>5. /\ build' \in Build /\ build'.stage = "scan" /\ build'.mark = build.mark /\ build'.todo = build.todo \ {p}
        /\ build'.doomed = build.doomed /\ build'.got[p] = Found(tree[p])
        /\ \A q \in Paths \ {p} : build'.got[q] = build.got[q]
    BY <1>1, <1>2, <1>4 DEF Build
  <1>6. Sound'
    BY <1>1, SoundStays
  <1>7. /\ Known' = Known
        /\ \A q \in Paths : Sent(q, InMemory \cup Newer, gen.head)' <=> Sent(q, InMemory \cup Newer, gen.head)
    BY <1>1, <1>3, <1>5, SameNews DEF Quiet
  <1>8. BuildOK'
    <2>1. ASSUME NEW q \in Paths \ build'.todo
          PROVE  /\ build'.got[q] \in Content
                 /\ Agrees(q, build.got[q])' \/ Sent(q, InMemory \cup Newer, gen.head)' \/ q \in Known'
      <3>1. CASE q = p
        BY <1>1, <1>4, <1>5, <3>1 DEF Agrees, Found
      <3>2. CASE q # p
        <4>1. /\ build.got[q] \in Content
              /\ Agrees(q, build.got[q]) \/ Sent(q, InMemory \cup Newer, gen.head) \/ q \in Known
          BY <1>2, <1>5, <2>1, <3>2 DEF MapInv, BuildOK
        <4>2. QED
          BY <1>1, <1>5, <1>7, <3>2, <4>1 DEF Agrees
      <3>3. QED
        BY <3>1, <3>2
    <2>2. QED
      BY <1>5, <2>1 DEF BuildOK
  <1>9. build'.mark <= revision /\ \A i \in Items : build'.doomed[i] <= revision
    BY <1>5 DEF MapInv, Bounded
  <1>10. QED
    BY <1>1, <1>3, <1>4, <1>5, <1>6, <1>8, <1>9, BuildKeeps

LEMMA BuildSaveStep ==
  ASSUME MapInv, Separate', BuildSave PROVE MapInv'
  <1>1. /\ build.stage = "scan" /\ build.todo = {}
        /\ gen' = IF build.got = gen.files THEN gen ELSE [files |-> build.got, head |-> head]
        /\ build' = [build EXCEPT !.stage = "clear", !.same = (build.got = gen.files)]
        /\ queue' = queue /\ left' = left /\ tree' = tree /\ head' = head /\ life' = life
        /\ UNCHANGED <<world, watch, revision, record, life, job, missed>>
    BY DEF BuildSave, world
  <1>2. Quiet /\ job = Idle
    BY <1>1, BuildAlone
  <1>3. /\ build \in Build /\ revision \in Nat /\ queue' \in [Items -> Row] /\ left' \in Budget
        /\ head \in Nat /\ gen \in [files : [Paths -> Content], head : Nat] /\ gen.head <= head
        /\ (build.got = gen.files) \in BOOLEAN
    BY <1>1 DEF MapInv, MapTypeOK, Bounded
  <1>4. /\ build' \in Build /\ build'.stage = "clear" /\ build'.mark = build.mark /\ build'.todo = {}
        /\ build'.doomed = build.doomed
    BY <1>1, <1>3 DEF Build
  <1>5. /\ Known' = Known
        /\ \A p \in Paths : Sent(p, InMemory \cup Newer, gen.head)' <=> Sent(p, InMemory \cup Newer, gen.head)
    BY <1>1, <1>2, <1>4, SameNews DEF Quiet
  <1>6. \A p \in Paths : Agrees(p, build.got[p]) \/ Sent(p, InMemory \cup Newer, gen.head) \/ p \in Known
    BY <1>1 DEF MapInv, BuildOK
  <1>7. gen'.files = build.got /\ gen'.head <= head /\ gen'.head \in Nat
    BY <1>1, <1>3
  <1>8. gen' \in [files : [Paths -> Content], head : Nat]
    <2>1. build.got \in [Paths -> Content]
      BY <1>1, <1>3 DEF MapInv, BuildOK, Build
    <2>2. QED
      BY <1>1, <1>3, <2>1
  <1>9. Sound'
    <2>1. \A p \in Paths : Agrees(p, gen.files[p])' \/ Sent(p, InMemory \cup Newer, gen.head)' \/ p \in Known'
      BY <1>1, <1>5, <1>6, <1>7 DEF Agrees
    <2>2. Newer' \subseteq Queued'
      <3>1. build'.mark \in Nat /\ \A i \in Items : queue'[i].rev \in Nat
        BY <1>3, <1>4 DEF Build, Row
      <3>2. QED
        BY <3>1 DEF Newer, Queued
    <2>3. QED
      BY <2>1, <2>2 DEF Sound, Sent
  <1>10. BuildOK'
    BY <1>1, <1>4, <1>5, <1>6, <1>7 DEF BuildOK, Agrees
  <1>11. build'.mark <= revision /\ \A i \in Items : build'.doomed[i] <= revision
    BY <1>4 DEF MapInv, Bounded
  <1>12. QED
    BY <1>1, <1>2, <1>3, <1>4, <1>7, <1>8, <1>9, <1>10, <1>11, BuildKeeps

LEMMA BuildClearStep ==
  ASSUME MapInv, Separate', BuildClear PROVE MapInv'
  <1>1. /\ build.stage = "clear" /\ build' = NoBuild
        /\ queue' = [i \in Items |-> IF queue[i].rev <= build.mark THEN NoRow ELSE queue[i]]
        /\ gen' = IF build.same THEN [gen EXCEPT !.head = head] ELSE gen
        /\ left' = left /\ tree' = tree /\ head' = head /\ life' = life
        /\ UNCHANGED <<world, watch, revision, record, life, job, missed>>
    BY DEF BuildClear, world
  <1>2. Quiet /\ job = Idle
    BY <1>1, BuildAlone
  <1>3. /\ build' \in Build /\ revision \in Nat /\ queue \in [Items -> Row] /\ left' \in Budget
        /\ head \in Nat /\ gen \in [files : [Paths -> Content], head : Nat] /\ gen.head <= head
        /\ NoRow \in Row /\ NoRow.rev = 0 /\ build.mark \in Nat
    BY <1>1, IdleTyped DEF MapInv, MapTypeOK, Bounded, Row, NoRow, Build
  <1>4. /\ gen' \in [files : [Paths -> Content], head : Nat] /\ gen'.head <= head /\ gen'.files = gen.files
    BY <1>1, <1>3
  <1>5. /\ queue' \in [Items -> Row]
        /\ \A i \in Items : queue'[i].rev = IF queue[i].rev <= build.mark THEN 0 ELSE queue[i].rev
    BY <1>1, <1>3
  <1>6. /\ build'.stage = "none" /\ build'.mark = 0 /\ build'.todo = {}
        /\ \A i \in Items : build'.doomed[i] = 0
    BY <1>1 DEF NoBuild, NoClaims
  <1>7. InMemory' = InMemory /\ Known' = Known /\ Newer \subseteq Queued'
    <2>1. InMemory' = InMemory /\ Known' = Known
      BY <1>1 DEF InMemory, Known, watch, record
    <2>2. \A i \in Items : queue[i].rev \in Nat
      BY <1>3 DEF Row
    <2>3. Newer \subseteq Queued'
      BY <1>3, <1>5, <2>2 DEF Newer, Queued
    <2>4. QED
      BY <2>1, <2>3
  <1>8. Sound'
    <2>1. \A p \in Paths : Agrees(p, gen.files[p]) \/ Sent(p, InMemory \cup Newer, gen.head) \/ p \in Known
      BY <1>1 DEF MapInv, BuildOK
    <2>2. ~left.silent
      BY <1>2 DEF Quiet
    <2>3. QED
      BY <1>1, <1>4, <1>7, <2>1, <2>2 DEF Sound, Sent, Agrees, record
  <1>9. BuildOK'
    BY <1>6 DEF BuildOK
  <1>10. build'.mark <= revision /\ \A i \in Items : build'.doomed[i] <= revision
    BY <1>3, <1>6
  <1>11. \A i \in Items : queue'[i].rev = 0 \/ queue'[i].rev = queue[i].rev
    BY <1>5
  <1>12. QED
    BY <1>1, <1>2, <1>3, <1>4, <1>5, <1>6, <1>8, <1>9, <1>10, <1>11, BuildKeeps

-----------------------------------------------------------------------------
LEMMA MapStart == Init => MapInv
  <1> SUFFICES ASSUME Init PROVE MapInv
    OBVIOUS
  <1>1. /\ tree \in [Paths -> Content] /\ head = 1 /\ gen = [files |-> tree, head |-> 1]
        /\ queue = [i \in Items |-> NoRow] /\ revision = 0 /\ os = {} /\ events = <<>> /\ overflowed = FALSE
        /\ buffer = {} /\ collapsed = FALSE /\ life \in {"down", "up"} /\ unapplied = 0 /\ marks = 0
        /\ job = Idle /\ build = NoBuild /\ missed = {} /\ turned = {} /\ left \in Budgets
    BY DEF Init
  <1>2. MapTypeOK
    <2>1. NoRow \in Row /\ <<>> \in Seq(Items) /\ left \in Budget
      BY <1>1, MapConstants DEF NoRow, Row
    <2>2. gen \in [files : [Paths -> Content], head : Nat]
      BY <1>1
    <2>3. QED
      BY <1>1, <2>1, <2>2, IdleTyped DEF MapTypeOK
  <1>3. Bounded
    <2>1. /\ \A i \in Items : job.claims[i] = 0 /\ queue[i].rev = 0 /\ build.doomed[i] = 0
          /\ build.mark = 0 /\ job.mark = 0 /\ gen.head = 1 /\ job.head = 0
      BY <1>1 DEF Idle, NoBuild, NoClaims, NoRow
    <2>2. QED
      BY <1>1, <2>1 DEF Bounded
  <1>4. job.stage = "idle" /\ job.todo = {} /\ build.stage = "none" /\ build.todo = {}
    BY <1>1 DEF Idle, NoBuild
  <1>5. Separate
    BY <1>4 DEF Separate
  <1>6. Turns
    BY <1>1, <1>4 DEF Turns
  <1>7. Sound
    BY <1>1 DEF Sound, Agrees
  <1>8. SweepOK /\ DrainOK /\ BuildOK
    BY <1>4 DEF SweepOK, DrainOK, BuildOK
  <1>9. QED
    BY <1>2, <1>3, <1>5, <1>6, <1>7, <1>8 DEF MapInv

LEMMA MapStutter ==
  ASSUME MapInv, Separate', UNCHANGED vars PROVE MapInv'
  <1>1. UNCHANGED <<tree, head, os, events, overflowed, buffer, collapsed, queue, revision, gen,
                    unapplied, marks, turned, life, job, build, missed, left>>
    BY DEF vars, world, watch, store, record
  <1>2. UNCHANGED <<world, watch, store, record, life, job, build, missed>>
    BY <1>1 DEF world, watch, store, record
  <1>3. /\ os' \in SUBSET Items /\ events' \in Seq(Items) /\ overflowed' \in BOOLEAN
        /\ buffer' \in SUBSET Items /\ collapsed' \in BOOLEAN /\ left' \in Budget
    BY <1>1 DEF MapInv, MapTypeOK
  <1>4. InMemory' = InMemory
    BY <1>1 DEF InMemory
  <1>5. QED
    BY <1>1, <1>2, <1>3, <1>4, HandedOn

LEMMA MapStep == MapInv /\ Separate' /\ [Next]_vars => MapInv'
  <1> SUFFICES ASSUME MapInv, Separate', [Next]_vars PROVE MapInv'
    OBVIOUS
  <1>1. CASE OutsideStep
    BY <1>1, EditStep, CheckoutStep, OsDropsStep, StartStep, StopStep, KillStep, BeginBuildStep, BuildDiesStep
       DEF OutsideStep
  <1>2. CASE OfferStep
    BY <1>2, OfferStepKeeps DEF OfferStep
  <1>3. CASE WatcherStep
    BY <1>3, ConsumeStep, AnswerOverflowStep, FlushStep, ExitStep, ExitUnquietStep DEF WatcherStep
  <1>4. CASE DaemonStep
    BY <1>4, BeginSweepStep, CompareStep, EndSweepStep, BeginDrainStep, ReadHeadStep, EndCollectStep,
       SaveStep, AckStep, ReadStep, CollectFailsStep DEF DaemonStep
  <1>5. CASE BuildStep
    BY <1>5, ClassifyStep, DropStep, BuildSaveStep, BuildClearStep, BuildReadStep DEF BuildStep
  <1>6. CASE UNCHANGED vars
    BY <1>6, MapStutter
  <1>7. QED
    BY <1>1, <1>2, <1>3, <1>4, <1>5, <1>6 DEF Next

LEMMA InvCovers == MapInv => NoLostEdit
  <1> SUFFICES ASSUME MapInv, NEW p \in Paths, ~Agrees(p, gen.files[p]) PROVE Covered(p)
    BY DEF NoLostEdit
  <1>1. Sent(p, InMemory \cup Queued, gen.head) \/ p \in Known
    BY DEF MapInv, Sound
  <1>2. CASE p \in InMemory \cup Queued \/ Rescan \in InMemory \cup Queued
    BY <1>2 DEF Covered, Named
  <1>3. CASE GitHead \in InMemory \cup Queued /\ gen.head # head
    BY <1>3 DEF Covered
  <1>4. CASE p \in Known
    BY <1>4 DEF Covered, Known
  <1>5. CASE p \in turned
    BY <1>5 DEF Covered
  <1>6. QED
    BY <1>1, <1>2, <1>3, <1>4, <1>5 DEF Sent

\* A readable file the map has wrong is one the system still knows it has to read,
\* unless the store turned its very path away (enqueue_pending_paths_under_root), for
\* every number of edits, checkouts, drops, refusals, crashes, restarts and
\* builds, as long as no build runs while a sweep is due or under way, nor where
\* HEAD may be the only notice of a checkout (note_watch_batch, cleared_by_sweep,
\* clear_claimed_pending_paths, clear_pending_superseded).
THEOREM EditsAreNotLost == Spec /\ []Separate => []NoLostEdit
  BY MapStart, MapStep, InvCovers, PTL DEF Spec

\* Where the record is clear, every path missed earlier is right, unreadable, turned
\* away or queued by name: what cleared_by_sweep is documented to promise, and what the run map_sweep
\* refutes, holds as long as no build runs while a sweep is due or under way.
THEOREM SweepsSettleApart == Spec /\ []Separate /\ [](~left.silent) => []SweepSettles
  <1>1. MapInv /\ ~left.silent => SweepSettles
    <2> SUFFICES ASSUME MapInv, ~left.silent, life = "up", unapplied = 0, NEW p \in missed,
                        ~Agrees(p, gen.files[p])
                 PROVE  p \in Named(InMemory \cup Queued) \cup turned
      BY DEF SweepSettles
    <2>1. p \in Paths /\ Known = {}
      BY DEF MapInv, MapTypeOK, Known
    <2>2. Sent(p, InMemory \cup Queued, gen.head)
      BY <2>1 DEF MapInv, Sound
    <2>3. QED
      BY <2>1, <2>2 DEF Sent, Named
  <1>2. QED
    BY <1>1, MapStart, MapStep, PTL DEF Spec

-----------------------------------------------------------------------------
\* No budget has builds together with what brings a sweep, or with silent
\* checkouts: what keeps a build apart from them whatever the order of steps.
Apart == \A b \in Budgets :
    b.builds = 0 \/ (b.refusals = 0 /\ b.starts = 0 /\ ~b.silent)

Regime ==
    \/ left.refusals = 0 /\ left.starts = 0 /\ Quiet
    \/ left.builds = 0 /\ build = NoBuild

\* A step that starts no sweep and no build leaves the regime as it is.
LEMMA SameRegime ==
  ASSUME Regime, left.refusals \in Nat, left.starts \in Nat, left.builds \in Nat,
         left'.refusals <= left.refusals, left'.starts <= left.starts, left'.builds <= left.builds,
         left'.refusals \in Nat, left'.starts \in Nat, left'.builds \in Nat, left'.silent = left.silent,
         unapplied' = unapplied \/ unapplied' = 0 \/ left.refusals > 0 \/ left.starts > 0,
         \/ job'.stage = job.stage \/ job'.stage \notin {"boot", "sweep", "compared"}
         \/ unapplied # 0 \/ job.stage \in {"boot", "sweep", "compared"} \/ left.starts > 0,
         build' = build \/ build' = NoBuild \/ build # NoBuild \/ left.builds > 0
  PROVE  Regime'
  <1>1. CASE left.refusals = 0 /\ left.starts = 0 /\ Quiet
    BY <1>1 DEF Regime, Quiet
  <1>2. CASE left.builds = 0 /\ build = NoBuild
    <2>1. NoBuild' = NoBuild
      BY DEF NoBuild, NoClaims, Nothing
    <2>2. left'.builds = 0 /\ build' = NoBuild
      BY <1>2
    <2>3. QED
      BY <2>1, <2>2 DEF Regime
  <1>3. QED
    BY <1>1, <1>2 DEF Regime

LEMMA ApartStep == MapInv /\ Regime /\ [Next]_vars => Regime'
  <1> SUFFICES ASSUME MapInv, Regime, [Next]_vars PROVE Regime'
    OBVIOUS
  <1>1. left \in Budget /\ job \in Job /\ left.refusals \in Nat /\ left.starts \in Nat /\ left.builds \in Nat
    BY DEF MapInv, MapTypeOK, Budget
  <1> DEFINE Down == /\ left'.refusals <= left.refusals /\ left'.starts <= left.starts
                     /\ left'.builds <= left.builds /\ left'.silent = left.silent
                     /\ left'.refusals \in Nat /\ left'.starts \in Nat /\ left'.builds \in Nat
  <1>2. ASSUME \/ left' = left
               \/ left.edits > 0 /\ left' = [left EXCEPT !.edits = @ - 1]
               \/ left.checkouts > 0 /\ left' = [left EXCEPT !.checkouts = @ - 1]
               \/ left.drops > 0 /\ left' = [left EXCEPT !.drops = @ - 1]
               \/ left.refusals > 0 /\ left' = [left EXCEPT !.refusals = @ - 1]
               \/ left.faults > 0 /\ left' = [left EXCEPT !.faults = @ - 1]
               \/ left.starts > 0 /\ left' = [left EXCEPT !.starts = @ - 1]
               \/ left.stops > 0 /\ left' = [left EXCEPT !.stops = @ - 1]
               \/ left.builds > 0 /\ left' = [left EXCEPT !.builds = @ - 1]
        PROVE  Down
    <2>1. CASE left' = left
      BY <1>1, <2>1
    <2>2. CASE left.edits > 0 /\ left' = [left EXCEPT !.edits = @ - 1]
      BY <1>1, <2>2, SpendsEdits
    <2>3. CASE left.checkouts > 0 /\ left' = [left EXCEPT !.checkouts = @ - 1]
      BY <1>1, <2>3, SpendsCheckouts
    <2>4. CASE left.drops > 0 /\ left' = [left EXCEPT !.drops = @ - 1]
      BY <1>1, <2>4, SpendsDrops
    <2>5. CASE left.refusals > 0 /\ left' = [left EXCEPT !.refusals = @ - 1]
      BY <1>1, <2>5, SpendsRefusals
    <2>6. CASE left.faults > 0 /\ left' = [left EXCEPT !.faults = @ - 1]
      BY <1>1, <2>6, SpendsFaults
    <2>7. CASE left.starts > 0 /\ left' = [left EXCEPT !.starts = @ - 1]
      BY <1>1, <2>7, SpendsStarts
    <2>8. CASE left.stops > 0 /\ left' = [left EXCEPT !.stops = @ - 1]
      BY <1>1, <2>8, SpendsStops
    <2>9. CASE left.builds > 0 /\ left' = [left EXCEPT !.builds = @ - 1]
      BY <1>1, <2>9, SpendsBuilds
    <2>10. QED
      BY <1>2, <2>1, <2>2, <2>3, <2>4, <2>5, <2>6, <2>7, <2>8, <2>9
  <1>3. CASE OutsideStep
    <2>1. ASSUME NEW p \in Paths, NEW c \in Content, Edit(p, c) PROVE Regime'
      BY <1>1, <1>2, <2>1, SameRegime DEF Edit
    <2>2. ASSUME NEW files \in [Paths -> Content], NEW told \in SUBSET Paths, Checkout(files, told) PROVE Regime'
      BY <1>1, <1>2, <2>2, SameRegime DEF Checkout
    <2>3. CASE OsDrops
      BY <1>1, <1>2, <2>3, SameRegime DEF OsDrops, record
    <2>4. CASE Start
      BY <1>1, <1>2, <2>4, SameRegime DEF Start
    <2>5. CASE Stop
      <3>1. job'.stage = "idle"
        BY <2>5 DEF Stop, Idle
      <3>2. QED
        BY <1>1, <1>2, <2>5, <3>1, SameRegime DEF Stop, record
    <2>6. CASE Kill
      <3>1. job'.stage = "idle"
        BY <2>6 DEF Kill, Idle
      <3>2. QED
        BY <1>1, <1>2, <2>6, <3>1, SameRegime DEF Kill
    <2>7. CASE BeginBuild
      BY <1>1, <1>2, <2>7, SameRegime DEF BeginBuild, record
    <2>8. CASE BuildDies
      BY <1>1, <1>2, <2>8, SameRegime DEF BuildDies, record
    <2>9. QED
      BY <1>3, <2>1, <2>2, <2>3, <2>4, <2>5, <2>6, <2>7, <2>8 DEF OutsideStep
  <1>4. CASE OfferStep
    BY <1>1, <1>2, <1>4, SameRegime DEF OfferStep, Offer, record
  <1>5. CASE WatcherStep
    <2>1. CASE Consume \/ AnswerOverflow
      BY <1>1, <1>2, <2>1, SameRegime DEF Consume, AnswerOverflow, record
    <2>2. CASE Flush
      BY <1>1, <1>2, <2>2, SameRegime DEF Flush, NoteWatchBatch, Refused, record
    <2>3. CASE Exit \/ ExitUnquiet
      BY <1>1, <1>2, <2>3, SameRegime DEF Exit, ExitUnquiet, Refused
    <2>4. QED
      BY <1>5, <2>1, <2>2, <2>3 DEF WatcherStep
  <1>6. CASE DaemonStep
    <2>1. CASE BeginSweep
      BY <1>1, <1>2, <2>1, SameRegime DEF BeginSweep, record
    <2>2. CASE Compare
      BY <1>1, <1>2, <2>2, SameRegime DEF Compare, record
    <2>3. CASE EndSweep
      <3>1. job'.stage = "idle" /\ build' = build
        BY <2>3 DEF EndSweep, Idle
      <3>2. CASE unapplied' = ClearedBySweep /\ left' = left
        BY <1>1, <1>2, <3>1, <3>2, SameRegime DEF ClearedBySweep
      <3>3. CASE Refused
        BY <1>1, <1>2, <3>1, <3>3, SameRegime DEF Refused
      <3>4. QED
        BY <2>3, <3>2, <3>3 DEF EndSweep
    <2>4. CASE BeginDrain
      <3>1. job'.stage = "head"
        BY <2>4 DEF BeginDrain, Idle
      <3>2. QED
        BY <1>1, <1>2, <2>4, <3>1, SameRegime DEF BeginDrain, record
    <2>5. CASE ReadHead
      <3>1. job'.stage = "collect"
        BY <1>1, <2>5 DEF ReadHead, Job
      <3>2. QED
        BY <1>1, <1>2, <2>5, <3>1, SameRegime DEF ReadHead, record
    <2>6. CASE EndCollect
      <3>1. job'.stage \in {"idle", "save"}
        BY <1>1, <2>6 DEF EndCollect, Idle, Job
      <3>2. QED
        BY <1>1, <1>2, <2>6, <3>1, SameRegime DEF EndCollect, record
    <2>7. CASE Save
      <3>1. job'.stage \in {"idle", "ack"}
        BY <1>1, <2>7 DEF Save, Idle, Job
      <3>2. QED
        BY <1>1, <1>2, <2>7, <3>1, SameRegime DEF Save, record
    <2>8. CASE Ack
      <3>1. job'.stage = "idle"
        BY <2>8 DEF Ack, Idle
      <3>2. QED
        BY <1>1, <1>2, <2>8, <3>1, SameRegime DEF Ack, record
    <2>9. ASSUME NEW p \in Paths, Read(p) PROVE Regime'
      <3>1. job'.stage = job.stage
        BY <1>1, <2>9 DEF Read, Job
      <3>2. QED
        BY <1>1, <1>2, <2>9, <3>1, SameRegime DEF Read, record
    <2>10. ASSUME NEW i \in Items, CollectFails(i) PROVE Regime'
      <3>1. job'.stage = job.stage
        BY <1>1, <2>10 DEF CollectFails, Job
      <3>2. QED
        BY <1>1, <1>2, <2>10, <3>1, SameRegime DEF CollectFails, record
    <2>11. QED
      BY <1>6, <2>1, <2>2, <2>3, <2>4, <2>5, <2>6, <2>7, <2>8, <2>9, <2>10 DEF DaemonStep
  <1>7. CASE BuildStep
    <2>1. build # NoBuild
      <3>1. build.stage \in {"classify", "drop", "scan", "clear"} \/ build.todo # {}
        BY <1>7 DEF BuildStep, Classify, Drop, BuildSave, BuildClear, BuildRead
      <3>2. NoBuild.stage = "none" /\ NoBuild.todo = {}
        BY DEF NoBuild
      <3>3. QED
        BY <3>1, <3>2
    <2>2. left' = left /\ unapplied' = unapplied /\ job' = job
      BY <1>7 DEF BuildStep, Classify, Drop, BuildSave, BuildClear, BuildRead, record
    <2>3. QED
      BY <1>1, <1>2, <2>1, <2>2, SameRegime
  <1>8. CASE UNCHANGED vars
    BY <1>1, <1>2, <1>8, SameRegime DEF vars, record
  <1>9. QED
    BY <1>3, <1>4, <1>5, <1>6, <1>7, <1>8 DEF Next

\* NoLostEdit, with the same two exemptions, for every run of the families that the model checker explores: where
\* no budget mixes them, nothing that happens brings a build and a sweep together.
THEOREM EditsAreNotLostApart ==
  ASSUME Apart PROVE Spec => []NoLostEdit
  <1>1. Init => Regime
    <2> SUFFICES ASSUME Init PROVE Regime
      OBVIOUS
    <2>1. left \in Budgets /\ job.stage = "idle" /\ build = NoBuild /\ unapplied = 0
      BY DEF Init, Idle
    <2>2. QED
      BY <2>1 DEF Apart, Regime, Quiet
  <1>2. Regime => Separate
    BY DEF Regime, Separate, NoBuild
  <1>3. QED
    BY <1>1, <1>2, MapStart, MapStep, ApartStep, InvCovers, PTL DEF Spec
=============================================================================
