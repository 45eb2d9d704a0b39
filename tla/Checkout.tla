------------------------------ MODULE Checkout ------------------------------
(***************************************************************************)
(* Checking a task out: LeaseService.Checkout over the store's lease and   *)
(* the board's item.  The lease is taken in one call, the item moved from  *)
(* ready to in_progress by a read and a revisioned put of later calls      *)
(* (MoveTaskStatus), and the lease given back when the move fails.         *)
(* Sessions of the same or of another client do this at the same time, a   *)
(* person edits and moves the item, calls fail before or after they took   *)
(* effect, sessions die between any two calls, and leases lapse.           *)
(*                                                                         *)
(* One task.  The lease calls are single steps: TaskLease has their inside.*)
(***************************************************************************)
EXTENDS Integers, FiniteSets

CONSTANTS
    Sessions,       \* processes that check out
    Clients,        \* the client ids they give
    NoClient,
    NoToken,
    LeaseTtl,
    MaxMoves,       \* maxStatusMoveAttempts
    MaxTokens, MaxItem, LastDay, MaxFaults   \* bounds

ASSUME CheckoutConstants ==
    /\ NoClient \notin Clients
    /\ NoToken \notin Nat
    /\ LeaseTtl \in Nat \ {0} /\ MaxMoves \in Nat \ {0}
    /\ MaxTokens \in Nat /\ MaxItem \in Nat /\ LastDay \in Nat /\ MaxFaults \in Nat

VARIABLES
    held,      \* the active lease: token, client and expiry
    issued,    \* tokens given out so far
    item,      \* the item: status, revision, and the edits its text holds
    receipts,  \* revisions at which a move was put: the request ids in use
    session,   \* what each session is doing
    day,
    faults,    \* bound: calls that may still go wrong
    edits,     \* ghost: edits people made
    parked,    \* ghost: a person moved the item to ready under the present lease
    lost       \* ghost: tokens whose holder died or whose answer was lost

checkoutVars == <<held, issued, item, receipts, session, day, faults, edits, parked, lost>>

Statuses == {"ready", "in_progress", "done"}

Rest == [pc |-> "idle", client |-> NoClient, token |-> NoToken, force |-> FALSE,
         own |-> FALSE, revision |-> 0, edits |-> 0, tries |-> 0]

Held == held.token # NoToken /\ day <= held.expires
Free == [token |-> NoToken, client |-> NoClient, expires |-> 0]

Sets(s, r) == session' = [session EXCEPT ![s] = r]

Fault == faults > 0 /\ faults' = faults - 1
NoFault == UNCHANGED faults

-----------------------------------------------------------------------------
(* Checkout.                                                               *)

Begin(s, c, force) ==
    /\ session[s].pc = "idle"
    /\ Sets(s, [Rest EXCEPT !.pc = "acquire", !.client = c, !.force = force])
    /\ UNCHANGED <<held, issued, item, receipts, day, faults, edits, parked, lost>>

\* A free, lapsed or forced lease; the answer may be lost, with the token.
AcquireOk(s, heard) ==
    /\ session[s].pc = "acquire"
    /\ item.status \in {"ready", "in_progress"}
    /\ ~Held \/ session[s].force
    /\ issued < MaxTokens
    /\ issued' = issued + 1
    /\ held' = [token |-> issued + 1, client |-> session[s].client, expires |-> day + LeaseTtl]
    /\ parked' = FALSE
    /\ IF heard
       THEN /\ Sets(s, [session[s] EXCEPT !.pc = "get", !.token = issued + 1, !.own = TRUE])
            /\ NoFault /\ UNCHANGED lost
       ELSE Sets(s, Rest) /\ Fault /\ lost' = lost \cup {issued + 1}
    /\ UNCHANGED <<item, receipts, day, edits>>

AcquireRefused(s) ==
    /\ session[s].pc = "acquire"
    /\ item.status \notin {"ready", "in_progress"}
    /\ Sets(s, Rest)
    /\ UNCHANGED <<held, issued, item, receipts, day, faults, edits, parked, lost>>

AcquireConflict(s) ==
    /\ session[s].pc = "acquire"
    /\ item.status \in {"ready", "in_progress"}
    /\ Held /\ ~session[s].force
    /\ Sets(s, [session[s] EXCEPT !.pc = "lookup"])
    /\ UNCHANGED <<held, issued, item, receipts, day, faults, edits, parked, lost>>

\* heldBy: the same client's lease is handed back, the item left as it is.
HandBack(s) ==
    /\ session[s].pc = "lookup"
    /\ IF Held /\ held.client = session[s].client
       THEN Sets(s, [session[s] EXCEPT !.pc = "working", !.token = held.token])
       ELSE Sets(s, Rest)
    /\ UNCHANGED <<held, issued, item, receipts, day, faults, edits, parked, lost>>

-----------------------------------------------------------------------------
(* MoveTaskStatus(ready, in_progress).                                     *)

\* Not from anywhere else: the item is left where it is.
Get(s) ==
    /\ session[s].pc = "get"
    /\ Sets(s, IF item.status = "ready"
               THEN [session[s] EXCEPT !.pc = "put", !.revision = item.revision,
                                       !.edits = item.edits]
               ELSE [session[s] EXCEPT !.pc = "working"])
    /\ UNCHANGED <<held, issued, item, receipts, day, faults, edits, parked, lost>>

\* Mutant: the last attempt's conflict is reported as an item not moved.
LastTryPasses(s) == [session[s] EXCEPT !.pc = "working"]

\* Kept changing: an error.
GivesUp(s) == [session[s] EXCEPT !.pc = "release"]

MayRetry(s) == session[s].tries + 1 < MaxMoves

\* Mutant: the put is not tied to the revision that was read.
WritesAnyway(s) == TRUE

ExpectedRevision(s) == session[s].revision = item.revision

\* A request id seen before is answered from its receipt, and writes nothing.
PutReplayed(s) ==
    /\ session[s].pc = "put"
    /\ session[s].revision \in receipts
    /\ Sets(s, [session[s] EXCEPT !.pc = "working"])
    /\ UNCHANGED <<held, issued, item, receipts, day, faults, edits, parked, lost>>

\* The put carries the fields that were read with the revision.
PutWrites(s, heard) ==
    /\ session[s].pc = "put"
    /\ session[s].revision \notin receipts
    /\ ExpectedRevision(s)
    /\ item' = [status |-> "in_progress", revision |-> item.revision + 1,
                edits |-> session[s].edits]
    /\ receipts' = receipts \cup {session[s].revision}
    /\ IF heard THEN Sets(s, [session[s] EXCEPT !.pc = "working"]) /\ NoFault
       ELSE Sets(s, [session[s] EXCEPT !.pc = "release"]) /\ Fault
    /\ UNCHANGED <<held, issued, day, edits, parked, lost>>

PutConflicts(s) ==
    /\ session[s].pc = "put"
    /\ session[s].revision \notin receipts
    /\ ~ExpectedRevision(s)
    /\ Sets(s, IF MayRetry(s)
               THEN [session[s] EXCEPT !.pc = "get", !.tries = @ + 1]
               ELSE GivesUp(s))
    /\ UNCHANGED <<held, issued, item, receipts, day, faults, edits, parked, lost>>

\* A get or a put that fails, with nothing written.
MoveFails(s) ==
    /\ session[s].pc \in {"get", "put"}
    /\ Fault
    /\ Sets(s, [session[s] EXCEPT !.pc = "release"])
    /\ UNCHANGED <<held, issued, item, receipts, day, edits, parked, lost>>

-----------------------------------------------------------------------------
(* Giving the lease back.                                                  *)

\* Mutant: a failed move is answered with an error and the lease kept.
KeptOnError(s) == held

\* Release ends the lease that this token holds, and no other.
Released(s) == IF held.token = session[s].token THEN Free ELSE held

\* After a failed move the answer is ignored; a release that fails is lost.
GiveBack(s) ==
    /\ session[s].pc = "release"
    /\ Sets(s, Rest)
    /\ \/ held' = Released(s) /\ NoFault /\ UNCHANGED lost
       \/ Fault /\ lost' = lost \cup {session[s].token} /\ UNCHANGED held
    /\ UNCHANGED <<issued, item, receipts, day, edits, parked>>

\* The agent is done and releases what it holds.
Finish(s) ==
    /\ session[s].pc = "working"
    /\ Sets(s, Rest)
    /\ held' = IF held.token = session[s].token THEN Free ELSE held
    /\ UNCHANGED <<issued, item, receipts, day, faults, edits, parked, lost>>

Renew(s) ==
    /\ session[s].pc = "working"
    /\ Held /\ held.token = session[s].token
    /\ held' = [held EXCEPT !.expires = day + LeaseTtl]
    /\ UNCHANGED <<issued, item, receipts, session, day, faults, edits, parked, lost>>

\* A session dies; a new one may ask for the same client.
Die(s) ==
    /\ session[s].pc # "idle"
    /\ Fault
    /\ Sets(s, Rest)
    /\ lost' = lost \cup ({session[s].token} \ {NoToken})
    /\ UNCHANGED <<held, issued, item, receipts, day, edits, parked>>

-----------------------------------------------------------------------------
\* A person edits the item, and may move it.
Person(status) ==
    /\ item.revision < MaxItem
    /\ item' = [status |-> status, revision |-> item.revision + 1, edits |-> item.edits + 1]
    /\ edits' = edits + 1
    /\ parked' = (parked \/ (status = "ready" /\ item.status # "ready"))
    /\ UNCHANGED <<held, issued, receipts, session, day, faults, lost>>

DayPasses ==
    /\ day < LastDay
    /\ day' = day + 1
    /\ UNCHANGED <<held, issued, item, receipts, session, faults, edits, parked, lost>>

CheckoutInit ==
    /\ held = Free /\ issued = 0
    /\ item = [status |-> "ready", revision |-> 1, edits |-> 0]
    /\ receipts = {}
    /\ session = [s \in Sessions |-> Rest]
    /\ day = 0
    /\ faults = MaxFaults
    /\ edits = 0 /\ parked = FALSE /\ lost = {}

SessionStep(s) ==
    \/ \E c \in Clients, force \in BOOLEAN : Begin(s, c, force)
    \/ \E heard \in BOOLEAN : AcquireOk(s, heard) \/ PutWrites(s, heard)
    \/ AcquireRefused(s) \/ AcquireConflict(s) \/ HandBack(s)
    \/ Get(s) \/ PutReplayed(s) \/ PutConflicts(s) \/ MoveFails(s)
    \/ GiveBack(s) \/ Finish(s) \/ Renew(s) \/ Die(s)

CheckoutNext ==
    \/ \E s \in Sessions : SessionStep(s)
    \/ \E status \in Statuses : Person(status)
    \/ DayPasses

CheckoutSpec == CheckoutInit /\ [][CheckoutNext]_checkoutVars

-----------------------------------------------------------------------------
(* Properties.                                                             *)

CheckoutTypeOK ==
    /\ held \in [token : Nat \cup {NoToken}, client : Clients \cup {NoClient},
                 expires : Nat]
    /\ issued \in Nat /\ receipts \subseteq Nat /\ day \in Nat /\ faults \in Nat
    /\ item \in [status : Statuses, revision : Nat, edits : Nat]
    /\ session \in [Sessions ->
         [pc : {"idle", "acquire", "lookup", "get", "put", "release", "working"},
          client : Clients \cup {NoClient}, token : Nat \cup {NoToken}, force : BOOLEAN,
          own : BOOLEAN, revision : Nat, edits : Nat, tries : 0..(MaxMoves - 1)]]
    /\ edits \in Nat /\ parked \in BOOLEAN /\ lost \subseteq Nat
    /\ \A s \in Sessions :
         session[s].pc \in {"get", "put", "release", "working"} => session[s].token \in 1..issued

\* s was told that the task is checked out, still holds it, and the item is one
\* that only a person could have put in ready.
Working(s) == session[s].pc = "working" /\ Held /\ held.token = session[s].token

Shown == item.status # "ready" \/ parked

\* "A lease on a task the board still shows as ready would be invisible work":
\* the session that took a lease works on a item that left ready, through lost
\* answers, conflicts and every order of its calls and other people's.
OwnWorkShown == \A s \in Sessions : Working(s) /\ session[s].own => Shown

\* The same of every session that works, once nobody is still moving the item.
NoInvisibleWork ==
    \A s \in Sessions :
        Working(s) => Shown \/ \E r \in Sessions : /\ session[r].token = held.token
                                                   /\ session[r].pc \in {"get", "put"}

\* An error answer leaves no lease behind: a live token is one that a session
\* still has in hand, or was lost with its holder or its answer.
NoLeaseLeft ==
    held.token # NoToken /\ held.token \notin lost =>
        \E s \in Sessions : session[s].token = held.token

\* A status move never writes over an edit it did not see: the item holds every
\* edit that people made, however reads and puts of several sessions interleave.
NoEditOverwritten == item.edits = edits
=============================================================================
