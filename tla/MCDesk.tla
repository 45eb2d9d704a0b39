------------------------------- MODULE MCDesk -------------------------------
(***************************************************************************)
(* Decisions, Enhancements, Checkout, GapHistory, ServePool, Grants,       *)
(* Notices and Endpoint share no state, so one run takes the steps of one  *)
(* of them at a time: the state spaces add up.                             *)
(***************************************************************************)
EXTENDS Decisions, Enhancements, Checkout, GapHistory, ServePool, Grants, Notices, Endpoint, TLC

\* Grants: one block that a person or an agent may clear, once or for a while, under
\* a policy that lets agents clear it, and a stricter one.
Ask(by, once) == [by |-> by, once |-> once, reason |-> TRUE, ttl |-> 0, task |-> "t",
                  rules |-> {"soft"}]
DeskRequests == {Ask("agent", TRUE), Ask("human", TRUE), Ask("human", FALSE)}
DeskBlocks == {[task |-> "t", rule |-> "soft"]}
Lenient == [enabled |-> TRUE, agents |-> TRUE, reason |-> TRUE, extra |-> {},
            ceiling |-> [human |-> 2, agent |-> 1]]
DeskPermits == {Lenient, [Lenient EXCEPT !.agents = FALSE, !.ceiling.human = 1]}

VARIABLE desk   \* whose steps a behaviour takes

deskVars == <<decisionVars, enhancementVars, checkoutVars, gapVars, poolVars, grantVars,
              noticeVars, endpointVars, desk>>

DeskInit ==
    /\ DecisionInit /\ EnhancementInit /\ CheckoutInit /\ GapInit /\ PoolInit
    /\ GrantInit /\ NoticeInit /\ EndpointInit
    /\ \A t \in Cards, f \in Fields : card[t].text[f] = "x"
    /\ desk \in {"decisions", "enhancements", "checkout", "gaps", "pool", "grants", "notices",
               "endpoint"}
    /\ desk # "enhancements" => settings.enabled
    /\ desk # "pool" => path # NoFile
    /\ permit = Lenient

DeskNext ==
    /\ \/ /\ desk = "decisions" /\ DecisionNext
          /\ UNCHANGED <<enhancementVars, checkoutVars, gapVars, poolVars,
                         grantVars, noticeVars, endpointVars>>
       \/ /\ desk = "enhancements" /\ EnhancementNext
          /\ UNCHANGED <<decisionVars, checkoutVars, gapVars, poolVars,
                         grantVars, noticeVars, endpointVars>>
       \/ /\ desk = "checkout" /\ CheckoutNext
          /\ UNCHANGED <<decisionVars, enhancementVars, gapVars, poolVars,
                         grantVars, noticeVars, endpointVars>>
       \/ /\ desk = "gaps" /\ GapNext
          /\ UNCHANGED <<decisionVars, enhancementVars, checkoutVars, poolVars,
                         grantVars, noticeVars, endpointVars>>
       \/ /\ desk = "pool" /\ PoolNext
          /\ UNCHANGED <<decisionVars, enhancementVars, checkoutVars, gapVars,
                         grantVars, noticeVars, endpointVars>>
       \/ /\ desk = "grants" /\ GrantNext
          /\ UNCHANGED <<decisionVars, enhancementVars, checkoutVars, gapVars,
                         poolVars, noticeVars, endpointVars>>
       \/ /\ desk = "notices" /\ NoticeNext
          /\ UNCHANGED <<decisionVars, enhancementVars, checkoutVars, gapVars,
                         poolVars, grantVars, endpointVars>>
       \/ /\ desk = "endpoint" /\ EndpointNext
          /\ UNCHANGED <<decisionVars, enhancementVars, checkoutVars, gapVars,
                         poolVars, grantVars, noticeVars>>
    /\ UNCHANGED desk

DeskSpec == DeskInit /\ [][DeskNext]_deskVars

\* Two changes of task, repository and clock under the decisions.
SmallDecisions == board.task + board.repo + today <= 4

\* One proposal under two changes of task, settings and clock; a second one under
\* changes of settings and clock.
SmallProposals ==
    LET revision == card[CHOOSE t \in Cards : TRUE].revision IN
    /\ settings.revision + revision + clock <= 4
    /\ Cardinality({j \in Jobs : job[j].state # "none"}) <= 1 \/ revision = 1

\* Two edits of the item by people with one client, none with two; two edits, an
\* edit and a day, or two days.
SmallCheckouts ==
    /\ Cardinality({session[s].client : s \in Sessions} \ {NoClient}) <= 1 \/ edits = 0
    /\ edits + day <= 2

\* Three calls on one file, two while the file is replaced.
SmallPool == Cardinality({r \in Calls : request[r].pc # "new"}) <= 2 \/ files = 1

\* Two changes of what notices are about; quiet and mutes in the first hour,
\* while nothing is lost.
SmallInbox ==
    /\ subject.revision + subject.task + hour <= 4
    /\ bell.quiet \/ bell.muted => hour = 0 /\ losses = MaxLosses
    /\ ~(bell.quiet /\ bell.muted)

Small == SmallDecisions /\ SmallProposals /\ SmallCheckouts /\ SmallPool /\ SmallInbox

\* The same two names stand for decisions, proposals, sessions, calls, hosts and servers,
\* never two of them in one behaviour, so that the group stays small.
Symmetry == Permutations(Sessions)
=============================================================================
