------------------------------ MODULE Notices -------------------------------
(***************************************************************************)
(* The inbox of notices and their delivery as banners.  An event of a run, *)
(* a proposal or a decision raises a notice in its own transaction.  Hosts *)
(* list the notices that may be shown, claim one, hand it to the operating *)
(* system and report; a click comes back later.  Meanwhile people read,    *)
(* dismiss and snooze, settings are switched, targets move on, answers are *)
(* lost, hosts die and compaction prunes the events.                       *)
(*                                                                         *)
(* One task and one target.  A notice's id is the sequence of its event.   *)
(***************************************************************************)
EXTENDS Integers, FiniteSetsExt

CONSTANTS
    Notifiers,    \* host processes that show banners
    FreshFor,     \* how long after its event a notice may be shown
    SnoozeFor,
    MaxEvents, LastHour, MaxLosses   \* bounds

ASSUME NoticeConstants ==
    /\ FreshFor \in Nat /\ SnoozeFor \in Nat \ {0}
    /\ MaxEvents \in Nat /\ LastHour \in Nat /\ MaxLosses \in Nat

VARIABLES
    events,    \* sequences in work_events
    subject,   \* the target and its task, as they are
    notice,    \* work_attention, by sequence
    bell,      \* work_notification_settings
    delivery,  \* work_notification_deliveries, by notice; shown is a ghost, how often
               \* the system was asked to show it
    notifier,  \* what each host is doing, and with which notice
    hour,
    losses,    \* bound: answers and hosts that may still be lost
    missed     \* ghost: notices not delivered when notifications were switched on

noticeVars ==
    <<events, subject, notice, bell, delivery, notifier, hour, losses, missed>>

Sequences == 1..MaxEvents
AtRest == [pc |-> "rest", id |-> 0]

NewRow(table, n, row) == [m \in DOMAIN table \cup {n} |-> IF m = n THEN row ELSE table[m]]

Latest == Max(events \cup {0})
NextSequence == Latest + 1

\* Every change is an event (record_change).
Records == NextSequence \in Sequences /\ events' = events \cup {NextSequence}

-----------------------------------------------------------------------------
(* The inbox.                                                              *)

\* runs.finish, runs.reconcile, enhancements.complete and recover, decisions.create.
\* source: the revision of the task that the run or proposal was made on.
Raise(source) ==
    /\ Records
    /\ subject' = [subject EXCEPT !.revision = @ + 1, !.fresh = TRUE]
    /\ notice' = NewRow(notice, NextSequence,
         [made |-> hour, target |-> subject.revision + 1, task |-> source,
          read |-> FALSE, dismissed |-> FALSE, snoozed |-> 0])
    /\ UNCHANGED <<bell, delivery, notifier, hour, losses, missed>>

\* The target or its task changes, or is deleted.
SubjectMoves ==
    /\ Records
    /\ \/ subject' = [subject EXCEPT !.revision = @ + 1]
       \/ subject' = [subject EXCEPT !.task = @ + 1, !.deleted = ~@]
    /\ UNCHANGED <<notice, bell, delivery, notifier, hour, losses, missed>>

\* A decision that expires is stale without a new revision.
SubjectLapses ==
    /\ subject.fresh
    /\ subject' = [subject EXCEPT !.fresh = FALSE]
    /\ UNCHANGED <<events, notice, bell, delivery, notifier, hour, losses, missed>>

\* read, unread, dismiss, restore, snooze, unsnooze
UpdateNotice(n) ==
    /\ Records
    /\ notice' \in {[notice EXCEPT ![n].read = ~@], [notice EXCEPT ![n].dismissed = ~@],
                    [notice EXCEPT ![n].snoozed = hour + SnoozeFor],
                    [notice EXCEPT ![n].snoozed = 0]}
    /\ UNCHANGED <<subject, bell, delivery, notifier, hour, losses, missed>>

TargetCurrent(n) ==
    /\ ~subject.deleted
    /\ subject.revision = notice[n].target /\ subject.fresh
    /\ subject.task = notice[n].task

-----------------------------------------------------------------------------
(* Settings.                                                               *)

\* Mutant: switched on again, notifications go on where they were.
KeptWatermark(enabled) == bell.after

\* Switched on, they begin after what has happened.
Watermark(enabled) == IF enabled /\ ~bell.enabled THEN Latest ELSE bell.after

PutBell(enabled, quiet, muted) ==
    /\ Records
    /\ bell' = [enabled |-> enabled, after |-> Watermark(enabled), quiet |-> quiet,
                muted |-> muted]
    /\ missed' = IF enabled /\ ~bell.enabled
                 THEN missed \cup (DOMAIN notice \ DOMAIN delivery)
                 ELSE missed
    /\ UNCHANGED <<subject, notice, delivery, notifier, hour, losses>>

-----------------------------------------------------------------------------
(* Delivery.                                                               *)

\* night: the host's local time is within the quiet hours.
Eligible(n, night) ==
    /\ bell.enabled /\ n > bell.after
    /\ notice[n].made + FreshFor >= hour
    /\ ~notice[n].read /\ ~notice[n].dismissed
    /\ notice[n].snoozed <= hour
    /\ TargetCurrent(n)
    /\ n \notin DOMAIN delivery
    /\ ~(bell.quiet /\ night)
    /\ ~bell.muted

ListPending(h, n, night) ==
    /\ notifier[h].pc = "rest"
    /\ Eligible(n, night)
    /\ notifier' = [notifier EXCEPT ![h] = [pc |-> "claim", id |-> n]]
    /\ UNCHANGED <<events, subject, notice, bell, delivery, hour, losses, missed>>

\* The answer may be lost; the host then asks again, with the same request id.
ClaimNotice(h, night, heard) ==
    /\ notifier[h].pc = "claim"
    /\ Eligible(notifier[h].id, night)
    /\ Records
    /\ delivery' = NewRow(delivery, notifier[h].id,
         [state |-> "uncertain", activated |-> FALSE, acknowledged |-> FALSE, shown |-> 0])
    /\ IF heard THEN notifier' = [notifier EXCEPT ![h].pc = "show"] /\ UNCHANGED losses
       ELSE losses > 0 /\ losses' = losses - 1 /\ UNCHANGED notifier
    /\ UNCHANGED <<subject, notice, bell, hour, missed>>

\* Claimed already, by this request or another, or not to be shown any more.
ClaimRefusedNotice(h, night) ==
    /\ notifier[h].pc = "claim"
    /\ ~Eligible(notifier[h].id, night)
    /\ notifier' = [notifier EXCEPT ![h] = AtRest]
    /\ UNCHANGED <<events, subject, notice, bell, delivery, hour, losses, missed>>

ShowBanner(h) ==
    /\ notifier[h].pc = "show"
    /\ delivery' = [delivery EXCEPT ![notifier[h].id].shown = @ + 1]
    /\ notifier' = [notifier EXCEPT ![h].pc = "report"]
    /\ UNCHANGED <<events, subject, notice, bell, hour, losses, missed>>

FinishDelivery(h, state) ==
    /\ notifier[h].pc = "report"
    /\ delivery[notifier[h].id].state = "uncertain"
    /\ Records
    /\ delivery' = [delivery EXCEPT ![notifier[h].id].state = state]
    /\ notifier' = [notifier EXCEPT ![h] = AtRest]
    /\ UNCHANGED <<subject, notice, bell, hour, losses, missed>>

\* A person clicks the banner; the first click counts.
Activate(n) ==
    /\ delivery[n].shown > 0
    /\ Records
    /\ delivery' = [delivery EXCEPT ![n].activated = TRUE]
    /\ UNCHANGED <<subject, notice, bell, notifier, hour, losses, missed>>

Acknowledge(n) ==
    /\ delivery[n].activated
    /\ Records
    /\ delivery' = [delivery EXCEPT ![n].acknowledged = TRUE]
    /\ UNCHANGED <<subject, notice, bell, notifier, hour, losses, missed>>

NotifierDies(h) ==
    /\ notifier[h] # AtRest
    /\ losses > 0 /\ losses' = losses - 1
    /\ notifier' = [notifier EXCEPT ![h] = AtRest]
    /\ UNCHANGED <<events, subject, notice, bell, delivery, hour, missed>>

-----------------------------------------------------------------------------
\* Compaction spares the newest events and the sources of notices.
Prunable == {e \in events : e # Latest /\ e \notin DOMAIN notice}

PruneEvents ==
    /\ \E e \in Prunable : events' = events \ {e}
    /\ UNCHANGED <<subject, notice, bell, delivery, notifier, hour, losses, missed>>

HourPasses ==
    /\ hour < LastHour
    /\ hour' = hour + 1
    /\ UNCHANGED <<events, subject, notice, bell, delivery, notifier, losses, missed>>

NoticeInit ==
    /\ events = {}
    /\ subject = [revision |-> 1, task |-> 1, deleted |-> FALSE, fresh |-> TRUE]
    /\ notice = [n \in {} |-> 0]
    /\ bell = [enabled |-> FALSE, after |-> 0, quiet |-> FALSE, muted |-> FALSE]
    /\ delivery = [n \in {} |-> 0]
    /\ notifier = [h \in Notifiers |-> AtRest]
    /\ hour = 0 /\ losses = MaxLosses
    /\ missed = {}

NotifierStep(h) ==
    \/ \E night \in BOOLEAN : \/ \E n \in DOMAIN notice : ListPending(h, n, night)
                              \/ \E heard \in BOOLEAN : ClaimNotice(h, night, heard)
                              \/ ClaimRefusedNotice(h, night)
    \/ ShowBanner(h)
    \/ \E state \in {"submitted", "failed"} : FinishDelivery(h, state)
    \/ NotifierDies(h)

NoticeNext ==
    \/ \E h \in Notifiers : NotifierStep(h)
    \/ \E n \in DOMAIN notice : UpdateNotice(n)
    \/ \E n \in DOMAIN delivery : Activate(n) \/ Acknowledge(n)
    \/ \E source \in 1..subject.task : Raise(source)
    \/ SubjectMoves \/ SubjectLapses
    \/ \E enabled, quiet, muted \in BOOLEAN : PutBell(enabled, quiet, muted)
    \/ PruneEvents \/ HourPasses

NoticeSpec == NoticeInit /\ [][NoticeNext]_noticeVars

-----------------------------------------------------------------------------
(* Properties.                                                             *)

\* "Prevent a historical banner flood": what had not been shown when notifications
\* were switched on is never shown after it, although the mark is taken from a
\* table that compaction prunes; and no notice is shown twice, by whichever hosts
\* listed it, through lost answers, retries and hosts that died.
BannersWanted ==
    \A n \in DOMAIN delivery : delivery[n].shown <= 1 /\ n \notin missed
=============================================================================
