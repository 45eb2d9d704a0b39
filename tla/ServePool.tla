----------------------------- MODULE ServePool -----------------------------
(***************************************************************************)
(* The Go client's pool of `dcstore serve` processes.  A call takes one of *)
(* a few slots, borrows an idle process or starts one, writes its request  *)
(* and reads one reply.  Requests and replies are only told apart by their *)
(* order on the pipe.  Calls run at the same time and miss their deadlines *)
(* at any point; processes die, start too late for the call that wanted    *)
(* them, and keep the database file they opened while the path is made to  *)
(* name another; the client is closed under all of them.                   *)
(*                                                                         *)
(* A call is made once; a caller that asks again is another call.  A path  *)
(* never comes to name a file again that it has ceased to name.  Binaries  *)
(* without `serve` are left out.                                           *)
(***************************************************************************)
EXTENDS Integers, Sequences, FiniteSets

CONSTANTS
    Calls,
    Children, NoChild,   \* store processes
    NoFile,              \* the path names nothing; a process has opened nothing
    Slots,               \* serveMaxChildren
    MaxFiles, MaxMishaps \* bounds

ASSUME PoolConstants ==
    /\ NoChild \notin Children
    /\ NoFile \notin Nat
    /\ Slots \in Nat \ {0}
    /\ MaxFiles \in Nat /\ MaxMishaps \in Nat

VARIABLES
    used,     \* slots taken (sem)
    idle,     \* children between calls, the last one borrowed first
    shut,     \* the lifetime is cancelled
    child,    \* the processes and their pipes
    request,  \* the calls; named is a ghost, the files the path has named since
    path, files,   \* the file at the database path, and how many there were
    mishaps   \* bound: what may still go wrong with a process

poolVars == <<used, idle, shut, child, request, path, files, mishaps>>

NoReply == [to |-> "nobody", file |-> NoFile, adopted |-> FALSE]

\* A process that does not exist, not yet or no more; a new one may take its place.
Gone == [state |-> "none", id |-> NoFile, file |-> NoFile, adopted |-> FALSE,
         asked |-> <<>>, out |-> <<>>]

\* A call that has returned, with an answer or an error.
Over == [pc |-> "over", child |-> NoChild, named |-> {}, got |-> NoReply]

Mishap == mishaps > 0 /\ mishaps' = mishaps - 1

InSlot == {r \in Calls : request[r].pc \in {"borrow", "start", "wait", "put", "slot"}}

-----------------------------------------------------------------------------
(* take.                                                                   *)

\* A call whose deadline passes in the queue leaves no trace.
TakeSlot(r) ==
    /\ request[r].pc = "new"
    /\ used < Slots
    /\ used' = used + 1
    /\ request' = [request EXCEPT ![r].pc = "borrow", ![r].named = {path}]
    /\ UNCHANGED <<idle, shut, child, path, files, mishaps>>

\* Mutant: a child is never asked which file it has.
AlwaysCurrent(c) == TRUE

\* dbIsCurrent; a child that found no file takes the first one for its own.
DbIsCurrent(c) == child[c].id \in {NoFile, path}

\* Ghost: it has opened another file than the one it now takes for its own.
Adopts(c) == child[c].id = NoFile /\ child[c].file \notin {NoFile, path}

Asked(r, c) == [request[r] EXCEPT !.pc = "wait", !.child = c]

LastIdle == idle[Len(idle)]
ButLast == SubSeq(idle, 1, Len(idle) - 1)

\* The child is the call's alone from the lock on; the request follows at once.
Borrow(r) ==
    /\ request[r].pc = "borrow"
    /\ idle # <<>>
    /\ DbIsCurrent(LastIdle)
    /\ idle' = ButLast
    /\ child' = [child EXCEPT ![LastIdle].id = path,
                              ![LastIdle].adopted = @ \/ Adopts(LastIdle),
                              ![LastIdle].asked = Append(@, r)]
    /\ request' = [request EXCEPT ![r] = Asked(r, LastIdle)]
    /\ UNCHANGED <<used, shut, path, files, mishaps>>

BorrowStale(r) ==
    /\ request[r].pc = "borrow"
    /\ idle # <<>>
    /\ ~DbIsCurrent(LastIdle)
    /\ idle' = ButLast
    /\ child' = [child EXCEPT ![LastIdle] = Gone]
    /\ UNCHANGED <<used, shut, request, path, files, mishaps>>

NewChild == CHOOSE c \in Children : child[c].state = "none"

\* startChild; the file is examined before the process exists.
BeginStart(r) ==
    /\ request[r].pc = "borrow"
    /\ idle = <<>>
    /\ ~shut
    /\ \E c \in Children : child[c].state = "none"
    /\ child' = [child EXCEPT ![NewChild].state = "starting", ![NewChild].id = path]
    /\ request' = [request EXCEPT ![r].pc = "start", ![r].child = NewChild]
    /\ UNCHANGED <<used, idle, shut, path, files, mishaps>>

StartRefused(r) ==
    /\ request[r].pc = "borrow"
    /\ idle = <<>>
    /\ shut
    /\ used' = used - 1
    /\ request' = [request EXCEPT ![r] = Over]
    /\ UNCHANGED <<idle, shut, child, path, files, mishaps>>

Started(r) ==
    /\ request[r].pc = "start"
    /\ child' = [child EXCEPT ![request[r].child].state = "alive",
                              ![request[r].child].asked = <<r>>]
    /\ request' = [request EXCEPT ![r].pc = "wait"]
    /\ UNCHANGED <<used, idle, shut, path, files, mishaps>>

StartFails(r) ==
    /\ request[r].pc = "start"
    /\ Mishap
    /\ used' = used - 1
    /\ child' = [child EXCEPT ![request[r].child] = Gone]
    /\ request' = [request EXCEPT ![r] = Over]
    /\ UNCHANGED <<idle, shut, path, files>>

\* The deadline passes in the fork: the slot is freed, the child comes late.
AbandonStart(r) ==
    /\ request[r].pc = "start"
    /\ used' = used - 1
    /\ child' = [child EXCEPT ![request[r].child].state = "abandoned"]
    /\ request' = [request EXCEPT ![r] = Over]
    /\ UNCHANGED <<idle, shut, path, files, mishaps>>

EndAbandoned(c) ==
    /\ child[c].state = "abandoned"
    /\ child' = [child EXCEPT ![c] = Gone]
    /\ UNCHANGED <<used, idle, shut, request, path, files, mishaps>>

-----------------------------------------------------------------------------
(* The child: serve and serve_one.                                         *)

\* The path comes to name f.
Names(f) ==
    /\ path' = f
    /\ request' = [r \in Calls |->
                     IF r \in InSlot THEN [request[r] EXCEPT !.named = @ \cup {f}]
                     ELSE request[r]]

\* The store is opened by the first request that can; only `health` does not
\* create it.
Serve(c, health) ==
    /\ child[c].state = "alive"
    /\ child[c].asked # <<>>
    /\ LET create == child[c].file = NoFile /\ path = NoFile /\ ~health
           file == IF child[c].file # NoFile THEN child[c].file
                   ELSE IF create THEN files + 1 ELSE path
       IN /\ child' = [child EXCEPT ![c].file = file, ![c].asked = Tail(@),
                 ![c].out = Append(@, [to |-> Head(child[c].asked), file |-> file,
                                       adopted |-> child[c].adopted])]
          /\ IF create THEN Names(file) /\ files' = file
             ELSE UNCHANGED <<request, path, files>>
    /\ UNCHANGED <<used, idle, shut, mishaps>>

\* A crash, or the lifetime's end reaching it.
ChildDies(c) ==
    /\ child[c].state = "alive"
    /\ IF shut THEN UNCHANGED mishaps ELSE Mishap
    /\ child' = [child EXCEPT ![c].state = "dead"]
    /\ UNCHANGED <<used, idle, shut, request, path, files>>

-----------------------------------------------------------------------------
(* runServed, put and retire.                                              *)

Mine(r) == child[request[r].child]

ReadReply(r) ==
    /\ request[r].pc = "wait"
    /\ Mine(r).out # <<>>
    /\ child' = [child EXCEPT ![request[r].child].out = Tail(@)]
    /\ request' = [request EXCEPT ![r].pc = "put", ![r].got = Head(Mine(r).out)]
    /\ UNCHANGED <<used, idle, shut, path, files, mishaps>>

\* Mutant: the child of a call that missed its deadline goes back to the pool.
ReusedLate(r) ==
    /\ request' = [request EXCEPT ![r].pc = "put"]
    /\ UNCHANGED <<used, idle, child>>

\* retire: the child is ended, then the slot freed.
Retire(r) ==
    /\ used' = used - 1
    /\ child' = [child EXCEPT ![request[r].child] = Gone]
    /\ request' = [request EXCEPT ![r] = Over]
    /\ UNCHANGED idle

\* The stream is broken, or a reply over the cap is left on it.
Breaks(r) ==
    /\ request[r].pc = "wait"
    /\ \/ Mine(r).state = "dead" /\ Mine(r).out = <<>> /\ UNCHANGED mishaps
       \/ Mine(r).out # <<>> /\ Mishap
    /\ Retire(r)
    /\ UNCHANGED <<shut, path, files>>

\* Whether or not the request has been, or will be, carried out.
Deadline(r) ==
    /\ request[r].pc = "wait"
    /\ Retire(r)
    /\ UNCHANGED <<shut, path, files, mishaps>>

\* Mutant: the slot is freed before the child is back on the list.
SlotFirst(r) ==
    \/ /\ request[r].pc = "put"
       /\ used' = used - 1
       /\ request' = [request EXCEPT ![r].pc = "slot"]
       /\ UNCHANGED <<idle, shut, child, path, files, mishaps>>
    \/ /\ request[r].pc = "slot"
       /\ idle' = Append(idle, request[r].child)
       /\ request' = [request EXCEPT ![r] = Over]
       /\ UNCHANGED <<used, shut, child, path, files, mishaps>>

\* put: the child first, then the slot.
Put(r) ==
    \/ /\ request[r].pc = "put"
       /\ idle' = Append(idle, request[r].child)
       /\ request' = [request EXCEPT ![r].pc = "slot", ![r].child = NoChild]
       /\ UNCHANGED <<used, shut, child, path, files, mishaps>>
    \/ /\ request[r].pc = "slot"
       /\ used' = used - 1
       /\ request' = [request EXCEPT ![r] = Over]
       /\ UNCHANGED <<idle, shut, child, path, files, mishaps>>

\* closeAll of a pool in use; a child still on a call may come back later.
CloseAll ==
    /\ ~shut
    /\ shut' = TRUE
    /\ idle' = <<>>
    /\ child' = [c \in Children |->
                   IF \E n \in DOMAIN idle : idle[n] = c
                   THEN Gone ELSE child[c]]
    /\ UNCHANGED <<used, request, path, files, mishaps>>

-----------------------------------------------------------------------------
\* The database is removed, or another file put in its place.
PathMoves(gone) ==
    /\ files < MaxFiles
    /\ path # NoFile \/ ~gone
    /\ files' = files + 1
    /\ Names(IF gone THEN NoFile ELSE files + 1)
    /\ UNCHANGED <<used, idle, shut, child, mishaps>>

PoolInit ==
    /\ used = 0 /\ idle = <<>> /\ shut = FALSE
    /\ child = [c \in Children |-> Gone]
    /\ request = [r \in Calls |->
         [pc |-> "new", child |-> NoChild, named |-> {}, got |-> NoReply]]
    /\ path \in {NoFile, 1} /\ files = 1
    /\ mishaps = MaxMishaps

CallStep(r) ==
    \/ TakeSlot(r) \/ Borrow(r) \/ BorrowStale(r)
    \/ BeginStart(r) \/ StartRefused(r) \/ Started(r) \/ StartFails(r) \/ AbandonStart(r)
    \/ ReadReply(r) \/ Breaks(r) \/ Deadline(r) \/ Put(r)

PoolNext ==
    \/ \E r \in Calls : CallStep(r)
    \/ \E c \in Children : EndAbandoned(c) \/ ChildDies(c)
    \/ \E c \in Children, health \in BOOLEAN : Serve(c, health)
    \/ \E gone \in BOOLEAN : PathMoves(gone)
    \/ CloseAll

PoolSpec == PoolInit /\ [][PoolNext]_poolVars

-----------------------------------------------------------------------------
(* Properties.                                                             *)

Answered == {r \in Calls : request[r].got # NoReply}

\* "would answer the next caller with the previous caller's document": a reply
\* reaches the call that asked for it, through deadlines, deaths and reuse.
OwnReply == \A r \in Answered : request[r].got.to = r

\* An answer comes from a file that the path named while the call was under way,
\* a database replaced under a warm pool included.  The exception is the window
\* that dbIsCurrent names: a process started before there was a file, whose own
\* file was moved away before the next call looked.
FromThePath ==
    \A r \in Answered :
        request[r].got.adopted \/ request[r].got.file \in request[r].named

Owned == {c \in Children : child[c].state \in {"starting", "alive"}}

\* The semaphore bounds the processes that calls have or may borrow, although a
\* slot and a child are not held for the same time.  A process whose start nobody
\* waited for exists beside them until it is ended, and never joins the pool.  No
\* child serves two calls, and no slot is lost.
PoolBounded ==
    /\ Cardinality(Owned) <= Slots
    /\ \A c \in Children : child[c].state = "abandoned" =>
         /\ child[c].asked = <<>> /\ \A r \in Calls : request[r].child # c
         /\ \A n \in DOMAIN idle : idle[n] # c
    /\ \A q, r \in Calls :
         request[q].child = request[r].child => q = r \/ request[q].child = NoChild
    /\ \A r \in Calls, n \in DOMAIN idle : request[r].child # idle[n]
    /\ (\A r \in Calls : request[r].pc \in {"new", "over"}) => used = 0
=============================================================================
