--------------------------- MODULE CheckoutProofs ---------------------------
(***************************************************************************)
(* For any sessions and clients, and whatever the bounds: a checkout never *)
(* writes over an edit, leaves no lease behind an error it reported, and   *)
(* shows the work of the session that took the lease.                      *)
(***************************************************************************)
EXTENDS Checkout, TLAPS

SessionRow ==
    [pc : {"idle", "acquire", "lookup", "get", "put", "release", "working"},
     client : Clients \cup {NoClient}, token : Nat \cup {NoToken}, force : BOOLEAN,
     own : BOOLEAN, revision : Nat, edits : Nat, tries : 0..(MaxMoves - 1)]

HasToken(s) == session[s].pc \in {"get", "put", "release", "working"}

\* Before its acquire a session has nothing in hand.
EmptyHanded == \A s \in Sessions :
    session[s].pc \in {"idle", "acquire", "lookup"} =>
        session[s].token = NoToken /\ session[s].own = FALSE

\* A put that would be accepted carries the edits that are there.
ReadTrue == \A s \in Sessions : session[s].pc = "put" =>
    /\ session[s].revision <= item.revision
    /\ session[s].revision = item.revision => session[s].edits = item.edits

\* The token of the lease is one that was given out.
TokenIssued == held.token # NoToken => held.token \in 1..issued

ReceiptsPast == \A r \in receipts : r < item.revision

\* The session that took the lease in force is past its move, or its move is
\* answered by a receipt: the item has left ready since.
OwnMoved == \A s \in Sessions :
    /\ session[s].own = TRUE /\ held.token = session[s].token
    /\ \/ session[s].pc = "working"
       \/ session[s].pc = "put" /\ session[s].revision \in receipts
    => Shown

CheckoutInv ==
    /\ CheckoutTypeOK
    /\ EmptyHanded
    /\ TokenIssued
    /\ ReadTrue
    /\ ReceiptsPast
    /\ OwnMoved
    /\ NoLeaseLeft
    /\ NoEditOverwritten

-----------------------------------------------------------------------------
LEMMA RestTyped == Rest \in SessionRow
BY CheckoutConstants DEF Rest, SessionRow

LEMMA FreeTyped ==
    Free \in [token : Nat \cup {NoToken}, client : Clients \cup {NoClient}, expires : Nat]
BY DEF Free

LEMMA InitHolds == CheckoutInit => CheckoutInv
<1> SUFFICES ASSUME CheckoutInit PROVE CheckoutInv
  OBVIOUS
<1> USE DEF CheckoutInit
<1>1. CheckoutTypeOK
  <2>1. session \in [Sessions -> SessionRow] /\ \A s \in Sessions : session[s].pc = "idle"
    BY RestTyped DEF Rest
  <2>2. item \in [status : Statuses, revision : Nat, edits : Nat]
    BY DEF Statuses
  <2>3. QED
    BY <2>1, <2>2, FreeTyped, CheckoutConstants DEF CheckoutTypeOK, SessionRow
<1> USE DEF Rest, Free
<1>2. EmptyHanded /\ TokenIssued /\ ReadTrue /\ ReceiptsPast /\ OwnMoved
  BY DEF EmptyHanded, TokenIssued, ReadTrue, ReceiptsPast, OwnMoved
<1>3. NoLeaseLeft /\ NoEditOverwritten
  BY DEF NoLeaseLeft, NoEditOverwritten
<1>4. QED
  BY <1>1, <1>2, <1>3 DEF CheckoutInv

\* What one session's step does to the table of sessions.
LEMMA SetsOne ==
    ASSUME session \in [Sessions -> SessionRow], NEW s \in Sessions, NEW row \in SessionRow,
           Sets(s, row)
    PROVE  /\ session' \in [Sessions -> SessionRow]
           /\ session'[s] = row
           /\ \A q \in Sessions \ {s} : session'[q] = session[q]
BY DEF Sets

\* A step that changes its own row only keeps the invariant if the new row has
\* a right to the token it holds and to the edits it read.
LEMMA PrivateKeeps ==
    ASSUME CheckoutInv, NEW s \in Sessions, NEW row \in SessionRow, Sets(s, row),
           UNCHANGED <<held, issued, item, receipts, day, edits, parked, lost>>,
           faults' \in Nat,
           row.pc \in {"get", "put", "release", "working"} => row.token \in 1..issued,
           row.pc \in {"idle", "acquire", "lookup"} => row.token = NoToken /\ row.own = FALSE,
           row.pc = "put" => row.revision = item.revision /\ row.edits = item.edits,
           row.own = TRUE /\ row.pc = "working" => Shown \/ row.token # held.token,
           session[s].token # NoToken => row.token = session[s].token
    PROVE  CheckoutInv'
<1> USE DEF CheckoutInv
<1>0. session \in [Sessions -> SessionRow]
  BY DEF CheckoutTypeOK, SessionRow
<1>1. /\ session' \in [Sessions -> SessionRow]
      /\ session'[s] = row
      /\ \A q \in Sessions \ {s} : session'[q] = session[q]
  BY <1>0, SetsOne
<1>2. CheckoutTypeOK'
  BY <1>1 DEF CheckoutTypeOK, SessionRow
<1>3. EmptyHanded' /\ TokenIssued' /\ ReceiptsPast' /\ NoEditOverwritten'
  BY <1>1 DEF EmptyHanded, TokenIssued, ReceiptsPast, NoEditOverwritten
<1>4. ReadTrue'
  BY <1>1 DEF ReadTrue, CheckoutTypeOK
<1>5. OwnMoved'
  BY <1>1 DEF OwnMoved, ReceiptsPast, Shown, CheckoutTypeOK
<1>6. NoLeaseLeft'
  BY <1>1 DEF NoLeaseLeft
<1>7. QED
  BY <1>2, <1>3, <1>4, <1>5, <1>6

-----------------------------------------------------------------------------
\* The steps that change nothing but the session's own row and the fault budget.
LEMMA PrivateSteps ==
    ASSUME CheckoutInv, NEW s \in Sessions,
           \/ \E c \in Clients, force \in BOOLEAN : Begin(s, c, force)
           \/ AcquireRefused(s) \/ AcquireConflict(s) \/ HandBack(s) \/ Get(s)
           \/ PutReplayed(s) \/ PutConflicts(s) \/ MoveFails(s)
    PROVE  CheckoutInv'
<1>0. /\ session \in [Sessions -> SessionRow] /\ session[s] \in SessionRow
      /\ HasToken(s) => session[s].token \in 1..issued
      /\ item \in [status : Statuses, revision : Nat, edits : Nat]
      /\ faults \in Nat
      /\ Rest.pc = "idle" /\ Rest.token = NoToken /\ Rest.own = FALSE
  BY DEF CheckoutInv, CheckoutTypeOK, SessionRow, HasToken, Rest
<1>e. session[s].pc \in {"idle", "acquire", "lookup"} =>
        session[s].token = NoToken /\ session[s].own = FALSE
  BY DEF CheckoutInv, EmptyHanded
<1>1. CASE \E c \in Clients, force \in BOOLEAN : Begin(s, c, force)
  <2>1. PICK c \in Clients, force \in BOOLEAN : Begin(s, c, force)
    BY <1>1
  <2> DEFINE row == [Rest EXCEPT !.pc = "acquire", !.client = c, !.force = force]
  <2>2. row \in SessionRow /\ row.pc = "acquire" /\ row.token = NoToken /\ row.own = FALSE
    BY RestTyped DEF SessionRow, Rest
  <2>3. Sets(s, row) /\ UNCHANGED <<held, issued, item, receipts, day, faults, edits, parked, lost>>
        /\ session[s].pc = "idle"
    BY <2>1 DEF Begin
  <2> HIDE DEF row
  <2>4. QED
    BY <1>0, <1>e, <2>2, <2>3, PrivateKeeps
<1>2. CASE AcquireRefused(s)
  BY <1>0, <1>e, <1>2, RestTyped, PrivateKeeps DEF AcquireRefused
<1>3. CASE AcquireConflict(s)
  <2> DEFINE row == [session[s] EXCEPT !.pc = "lookup"]
  <2>1. row \in SessionRow /\ row.pc = "lookup" /\ row.token = session[s].token
        /\ row.own = session[s].own
    BY <1>0 DEF SessionRow
  <2>2. Sets(s, row) /\ UNCHANGED <<held, issued, item, receipts, day, faults, edits, parked, lost>>
        /\ session[s].pc = "acquire"
    BY <1>3 DEF AcquireConflict
  <2> HIDE DEF row
  <2>3. QED
    BY <1>0, <1>e, <2>1, <2>2, PrivateKeeps
<1>4. CASE HandBack(s)
  <2>0. UNCHANGED <<held, issued, item, receipts, day, faults, edits, parked, lost>>
        /\ session[s].pc = "lookup"
    BY <1>4 DEF HandBack
  <2>1. CASE Held /\ held.client = session[s].client
    <3> DEFINE row == [session[s] EXCEPT !.pc = "working", !.token = held.token]
    <3>0. held.token \in 1..issued
      BY <2>1 DEF CheckoutInv, TokenIssued, Held
    <3>n. held.token \in Nat
      BY <2>1 DEF CheckoutInv, CheckoutTypeOK, Held
    <3>1. row \in SessionRow /\ row.pc = "working" /\ row.token = held.token
          /\ row.own = session[s].own
      BY <1>0, <3>n DEF SessionRow
    <3>2. Sets(s, row)
      BY <1>4, <2>1 DEF HandBack
    <3> HIDE DEF row
    <3>3. QED
      BY <1>0, <1>e, <2>0, <3>0, <3>1, <3>2, PrivateKeeps
  <2>2. CASE ~(Held /\ held.client = session[s].client)
    <3>1. Sets(s, Rest)
      BY <1>4, <2>2 DEF HandBack
    <3>2. QED
      BY <1>0, <1>e, <2>0, <3>1, RestTyped, PrivateKeeps
  <2>3. QED
    BY <2>1, <2>2
<1>5. CASE Get(s)
  <2>0. UNCHANGED <<held, issued, item, receipts, day, faults, edits, parked, lost>>
        /\ session[s].pc = "get"
    BY <1>5 DEF Get
  <2>1. CASE item.status = "ready"
    <3> DEFINE row == [session[s] EXCEPT !.pc = "put", !.revision = item.revision,
                                         !.edits = item.edits]
    <3>1. row \in SessionRow /\ row.pc = "put" /\ row.token = session[s].token
          /\ row.revision = item.revision /\ row.edits = item.edits
      BY <1>0 DEF SessionRow
    <3>2. Sets(s, row)
      BY <1>5, <2>1 DEF Get
    <3> HIDE DEF row
    <3>3. QED
      BY <1>0, <2>0, <3>1, <3>2, PrivateKeeps DEF HasToken
  <2>2. CASE item.status # "ready"
    <3> DEFINE row == [session[s] EXCEPT !.pc = "working"]
    <3>1. row \in SessionRow /\ row.pc = "working" /\ row.token = session[s].token
      BY <1>0 DEF SessionRow
    <3>2. Sets(s, row)
      BY <1>5, <2>2 DEF Get
    <3> HIDE DEF row
    <3>3. QED
      BY <1>0, <2>0, <2>2, <3>1, <3>2, PrivateKeeps DEF HasToken, Shown
  <2>3. QED
    BY <2>1, <2>2
<1>6. CASE PutReplayed(s)
  <2> DEFINE row == [session[s] EXCEPT !.pc = "working"]
  <2>0. UNCHANGED <<held, issued, item, receipts, day, faults, edits, parked, lost>>
        /\ session[s].pc = "put" /\ session[s].revision \in receipts
    BY <1>6 DEF PutReplayed
  <2>1. row \in SessionRow /\ row.pc = "working" /\ row.token = session[s].token
        /\ row.own = session[s].own
    BY <1>0 DEF SessionRow
  <2>2. Sets(s, row)
    BY <1>6 DEF PutReplayed
  <2>3. session[s].own = TRUE => Shown \/ session[s].token # held.token
    BY <2>0 DEF CheckoutInv, OwnMoved
  <2> HIDE DEF row
  <2>4. QED
    BY <1>0, <2>0, <2>1, <2>2, <2>3, PrivateKeeps DEF HasToken
<1>7. CASE PutConflicts(s)
  <2>0. UNCHANGED <<held, issued, item, receipts, day, faults, edits, parked, lost>>
        /\ session[s].pc = "put"
    BY <1>7 DEF PutConflicts
  <2>1. CASE MayRetry(s)
    <3> DEFINE row == [session[s] EXCEPT !.pc = "get", !.tries = @ + 1]
    <3>0. session[s].tries + 1 \in 0..(MaxMoves - 1)
      <4>1. session[s].tries \in 0..(MaxMoves - 1)
        BY <1>0 DEF SessionRow
      <4>2. QED
        BY <2>1, <4>1, CheckoutConstants DEF MayRetry
    <3>1. row \in SessionRow /\ row.pc = "get" /\ row.token = session[s].token
      BY <1>0, <3>0 DEF SessionRow
    <3>2. Sets(s, row)
      BY <1>7, <2>1 DEF PutConflicts
    <3> HIDE DEF row
    <3>3. QED
      BY <1>0, <2>0, <3>1, <3>2, PrivateKeeps DEF HasToken
  <2>2. CASE ~MayRetry(s)
    <3> DEFINE row == [session[s] EXCEPT !.pc = "release"]
    <3>1. row \in SessionRow /\ row.pc = "release" /\ row.token = session[s].token
      BY <1>0 DEF SessionRow
    <3>2. Sets(s, row)
      BY <1>7, <2>2 DEF PutConflicts, GivesUp
    <3> HIDE DEF row
    <3>3. QED
      BY <1>0, <2>0, <3>1, <3>2, PrivateKeeps DEF HasToken
  <2>3. QED
    BY <2>1, <2>2
<1>8. CASE MoveFails(s)
  <2> DEFINE row == [session[s] EXCEPT !.pc = "release"]
  <2>0. UNCHANGED <<held, issued, item, receipts, day, edits, parked, lost>>
        /\ session[s].pc \in {"get", "put"} /\ faults' \in Nat
    BY <1>0, <1>8 DEF MoveFails, Fault
  <2>1. row \in SessionRow /\ row.pc = "release" /\ row.token = session[s].token
    BY <1>0 DEF SessionRow
  <2>2. Sets(s, row)
    BY <1>8 DEF MoveFails
  <2> HIDE DEF row
  <2>3. QED
    BY <1>0, <2>0, <2>1, <2>2, PrivateKeeps DEF HasToken
<1>9. QED
  BY <1>1, <1>2, <1>3, <1>4, <1>5, <1>6, <1>7, <1>8

-----------------------------------------------------------------------------
\* A step that ends the session's business: its token is given back, is not the
\* lease's, or is lost.
LEMMA EndKeeps ==
    ASSUME CheckoutInv, NEW s \in Sessions, Sets(s, Rest),
           UNCHANGED <<issued, item, receipts, day, edits, parked>>,
           faults' \in Nat, lost \subseteq lost', lost' \subseteq Nat,
           held' = held \/ held' = Free,
           held' = held => held.token # session[s].token \/ held.token \in lost'
                           \/ held.token = NoToken
    PROVE  CheckoutInv'
<1> USE DEF CheckoutInv
<1>0. session \in [Sessions -> SessionRow]
  BY DEF CheckoutTypeOK, SessionRow
<1>1. /\ session' \in [Sessions -> SessionRow]
      /\ session'[s] = Rest
      /\ \A q \in Sessions \ {s} : session'[q] = session[q]
  BY <1>0, SetsOne, RestTyped
<1>r. Rest.pc = "idle" /\ Rest.token = NoToken /\ Rest.own = FALSE /\ Free.token = NoToken
  BY DEF Rest, Free
<1>2. CheckoutTypeOK'
  BY <1>1, <1>r, FreeTyped DEF CheckoutTypeOK, SessionRow
<1>3. EmptyHanded' /\ TokenIssued' /\ ReceiptsPast' /\ NoEditOverwritten' /\ ReadTrue'
  BY <1>1, <1>r DEF EmptyHanded, TokenIssued, ReceiptsPast, NoEditOverwritten, ReadTrue
<1>4. OwnMoved'
  <2> SUFFICES ASSUME NEW q \in Sessions, session'[q].own = TRUE,
                      held'.token = session'[q].token,
                      \/ session'[q].pc = "working"
                      \/ session'[q].pc = "put" /\ session'[q].revision \in receipts
               PROVE  Shown
    BY DEF OwnMoved, Shown
  <2>1. q # s /\ session'[q] = session[q]
    BY <1>1, <1>r
  <2>2. session[q].token \in 1..issued
    BY <2>1 DEF CheckoutTypeOK
  <2>3. held' = held
    BY <1>r, <2>1, <2>2, CheckoutConstants
  <2>4. QED
    BY <2>1, <2>3 DEF OwnMoved
<1>5. NoLeaseLeft'
  <2> SUFFICES ASSUME held'.token # NoToken, held'.token \notin lost'
               PROVE  \E q \in Sessions : session'[q].token = held'.token
    BY DEF NoLeaseLeft
  <2>1. held' = held /\ held.token \notin lost
    BY <1>r
  <2>2. PICK q \in Sessions : session[q].token = held.token
    BY <2>1 DEF NoLeaseLeft
  <2>3. QED
    BY <1>1, <2>1, <2>2
<1>6. QED
  BY <1>2, <1>3, <1>4, <1>5

LEMMA EndingSteps ==
    ASSUME CheckoutInv, NEW s \in Sessions, GiveBack(s) \/ Finish(s) \/ Die(s)
    PROVE  CheckoutInv'
<1>0. /\ session[s].token \in Nat \cup {NoToken} /\ faults \in Nat /\ lost \subseteq Nat
      /\ HasToken(s) => session[s].token \in Nat
  BY DEF CheckoutInv, CheckoutTypeOK, HasToken
<1>1. ASSUME Sets(s, Rest), UNCHANGED <<issued, item, receipts, day, edits, parked>>,
             \/ held' = Released(s) /\ UNCHANGED <<faults, lost>>
             \/ UNCHANGED held /\ Fault /\ lost' = lost \cup ({session[s].token} \ {NoToken})
      PROVE  CheckoutInv'
  <2>1. faults' \in Nat /\ lost \subseteq lost' /\ lost' \subseteq Nat
    <3>1. faults' \in Nat
      BY <1>0, <1>1 DEF Fault
    <3>2. {session[s].token} \ {NoToken} \subseteq Nat
      BY <1>0
    <3>3. lost' = lost \/ lost' = lost \cup ({session[s].token} \ {NoToken})
      BY <1>1
    <3>4. QED
      BY <1>0, <3>1, <3>2, <3>3
  <2>2. held' = held \/ held' = Free
    BY <1>1 DEF Released
  <2>3. held' = held => held.token # session[s].token \/ held.token \in lost'
                        \/ held.token = NoToken
    <3>1. CASE held' = Released(s)
      BY <3>1 DEF Released, Free
    <3>2. CASE lost' = lost \cup ({session[s].token} \ {NoToken})
      BY <3>2
    <3>3. QED
      BY <1>1, <3>1, <3>2
  <2>4. QED
    BY <1>1, <2>1, <2>2, <2>3, EndKeeps
<1>2. CASE GiveBack(s)
  <2>1. session[s].token # NoToken
    BY <1>0, <1>2, CheckoutConstants DEF GiveBack, HasToken
  <2>2. QED
    BY <1>1, <1>2, <2>1 DEF GiveBack, NoFault
<1>3. CASE Finish(s)
  BY <1>1, <1>3 DEF Finish, Released
<1>4. CASE Die(s)
  BY <1>1, <1>4 DEF Die
<1>5. QED
  BY <1>2, <1>3, <1>4

-----------------------------------------------------------------------------
\* A new token belongs to nobody else, so nobody's claim to the old lease
\* carries over to the new one.
LEMMA AcquireKeeps ==
    ASSUME CheckoutInv, NEW s \in Sessions, NEW heard \in BOOLEAN, AcquireOk(s, heard)
    PROVE  CheckoutInv'
<1> USE DEF CheckoutInv
<1> DEFINE row == IF heard
                  THEN [session[s] EXCEPT !.pc = "get", !.token = issued + 1, !.own = TRUE]
                  ELSE Rest
<1>0. /\ session \in [Sessions -> SessionRow] /\ session[s] \in SessionRow
      /\ issued \in Nat /\ issued + 1 \in Nat /\ issued + 1 # NoToken
  BY CheckoutConstants DEF CheckoutTypeOK, SessionRow
<1>1. row \in SessionRow
  BY <1>0, RestTyped DEF SessionRow
<1>2. /\ heard => row.pc = "get" /\ row.token = issued + 1
      /\ ~heard => row.pc = "idle" /\ row.token = NoToken /\ row.own = FALSE
  BY <1>0 DEF SessionRow, Rest
<1>3. Sets(s, row)
  BY DEF AcquireOk
<1> HIDE DEF row
<1>4. /\ session' \in [Sessions -> SessionRow]
      /\ session'[s] = row
      /\ \A q \in Sessions \ {s} : session'[q] = session[q]
  BY <1>0, <1>1, <1>3, SetsOne
<1>5. /\ UNCHANGED <<item, receipts, day, edits>> /\ issued' = issued + 1
      /\ held' = [token |-> issued + 1, client |-> session[s].client, expires |-> day + LeaseTtl]
      /\ parked' = FALSE
      /\ lost' = lost \/ lost' = lost \cup {issued + 1}
      /\ ~heard => issued + 1 \in lost'
  BY DEF AcquireOk
<1>6. faults' \in Nat /\ lost' \subseteq Nat
  BY <1>0, <1>5 DEF AcquireOk, Fault, NoFault, CheckoutTypeOK
<1>7. held' \in [token : Nat \cup {NoToken}, client : Clients \cup {NoClient}, expires : Nat]
      /\ held'.token = issued + 1
  BY <1>0, <1>5, CheckoutConstants DEF CheckoutTypeOK, SessionRow
<1>8. \A q \in Sessions :
         session'[q].pc \in {"get", "put", "release", "working"} => session'[q].token \in 1..issued'
  BY <1>0, <1>2, <1>4, <1>5 DEF CheckoutTypeOK
<1>9. CheckoutTypeOK'
  BY <1>0, <1>4, <1>5, <1>6, <1>7, <1>8 DEF CheckoutTypeOK, SessionRow
<1>10. EmptyHanded' /\ ReceiptsPast' /\ NoEditOverwritten' /\ ReadTrue'
  BY <1>2, <1>4, <1>5 DEF EmptyHanded, ReceiptsPast, NoEditOverwritten, ReadTrue
<1>11. TokenIssued'
  BY <1>0, <1>5, <1>7 DEF TokenIssued
<1>12. OwnMoved'
  <2> SUFFICES ASSUME NEW q \in Sessions, session'[q].pc \in {"working", "put"},
                      held'.token = session'[q].token
               PROVE  FALSE
    BY DEF OwnMoved
  <2>1. q # s /\ session'[q] = session[q]
    BY <1>2, <1>4
  <2>2. session[q].token \in 1..issued
    BY <2>1 DEF CheckoutTypeOK
  <2>3. issued + 1 \in 1..issued
    BY <1>7, <2>1, <2>2 DEF CheckoutInv
  <2>4. QED
    BY <1>0, <2>3
<1>13. NoLeaseLeft'
  BY <1>2, <1>4, <1>5, <1>7 DEF NoLeaseLeft
<1>14. QED
  BY <1>9, <1>10, <1>11, <1>12, <1>13

\* A put that is accepted carries what was there, and leaves ready.
LEMMA PutKeeps ==
    ASSUME CheckoutInv, NEW s \in Sessions, NEW heard \in BOOLEAN, PutWrites(s, heard)
    PROVE  CheckoutInv'
<1> USE DEF CheckoutInv
<1> DEFINE row == IF heard THEN [session[s] EXCEPT !.pc = "working"]
                           ELSE [session[s] EXCEPT !.pc = "release"]
<1>0. /\ session \in [Sessions -> SessionRow] /\ session[s] \in SessionRow
      /\ item \in [status : Statuses, revision : Nat, edits : Nat]
      /\ session[s].pc = "put" /\ session[s].revision = item.revision
  BY DEF CheckoutTypeOK, SessionRow, PutWrites, ExpectedRevision
<1>1. row \in SessionRow /\ row.token = session[s].token /\ row.pc \in {"working", "release"}
  BY <1>0 DEF SessionRow
<1>2. Sets(s, row)
  BY DEF PutWrites
<1> HIDE DEF row
<1>3. /\ session' \in [Sessions -> SessionRow]
      /\ session'[s] = row
      /\ \A q \in Sessions \ {s} : session'[q] = session[q]
  BY <1>0, <1>1, <1>2, SetsOne
<1>4. session[s].edits = item.edits
  BY <1>0 DEF ReadTrue
<1>5. /\ UNCHANGED <<held, issued, day, edits, parked, lost>>
      /\ item' = [status |-> "in_progress", revision |-> item.revision + 1, edits |-> item.edits]
      /\ receipts' = receipts \cup {item.revision}
  BY <1>0, <1>4 DEF PutWrites
<1>6. faults' \in Nat
  BY DEF PutWrites, Fault, NoFault, CheckoutTypeOK
<1>7. /\ item' \in [status : Statuses, revision : Nat, edits : Nat]
      /\ item'.revision = item.revision + 1 /\ item'.edits = item.edits
      /\ item'.status = "in_progress"
  BY <1>0, <1>5 DEF Statuses
<1>8. CheckoutTypeOK'
  BY <1>0, <1>1, <1>3, <1>5, <1>6, <1>7 DEF CheckoutTypeOK, SessionRow
<1>9. EmptyHanded' /\ TokenIssued' /\ NoEditOverwritten'
  BY <1>1, <1>3, <1>5, <1>7 DEF EmptyHanded, TokenIssued, NoEditOverwritten
<1>10. ReceiptsPast'
  BY <1>0, <1>5, <1>7 DEF ReceiptsPast, CheckoutTypeOK
<1>11. ReadTrue'
  <2> SUFFICES ASSUME NEW q \in Sessions, session'[q].pc = "put"
               PROVE  session'[q].revision < item'.revision
    BY <1>0, <1>3, <1>7 DEF ReadTrue, SessionRow
  <2>1. session'[q] = session[q] /\ session[q].revision \in Nat
    BY <1>1, <1>3 DEF CheckoutTypeOK
  <2>2. QED
    BY <1>0, <1>7, <2>1 DEF ReadTrue
<1>12. OwnMoved'
  BY <1>7 DEF OwnMoved, Shown
<1>13. NoLeaseLeft'
  BY <1>1, <1>3, <1>5 DEF NoLeaseLeft
<1>14. QED
  BY <1>8, <1>9, <1>10, <1>11, <1>12, <1>13

LEMMA RenewKeeps ==
    ASSUME CheckoutInv, NEW s \in Sessions, Renew(s)
    PROVE  CheckoutInv'
<1> USE DEF CheckoutInv
<1>1. UNCHANGED <<issued, item, receipts, session, day, faults, edits, parked, lost>>
  BY DEF Renew
<1>2. held' \in [token : Nat \cup {NoToken}, client : Clients \cup {NoClient}, expires : Nat]
      /\ held'.token = held.token
  BY CheckoutConstants DEF Renew, CheckoutTypeOK
<1>3. CheckoutTypeOK'
  BY <1>1, <1>2 DEF CheckoutTypeOK
<1>4. EmptyHanded' /\ TokenIssued' /\ ReadTrue' /\ ReceiptsPast' /\ NoEditOverwritten'
  BY <1>1, <1>2 DEF EmptyHanded, TokenIssued, ReadTrue, ReceiptsPast, NoEditOverwritten
<1>5. OwnMoved' /\ NoLeaseLeft'
  BY <1>1, <1>2 DEF OwnMoved, NoLeaseLeft, Shown
<1>6. QED
  BY <1>3, <1>4, <1>5

LEMMA PersonKeeps ==
    ASSUME CheckoutInv, NEW status \in Statuses, Person(status)
    PROVE  CheckoutInv'
<1> USE DEF CheckoutInv
<1>1. UNCHANGED <<held, issued, receipts, session, day, faults, lost>> /\ edits' = edits + 1
  BY DEF Person
<1>2. /\ item' \in [status : Statuses, revision : Nat, edits : Nat]
      /\ item'.revision = item.revision + 1 /\ item'.edits = item.edits + 1
      /\ item'.status = status
  BY DEF Person, CheckoutTypeOK
<1>3. parked' \in BOOLEAN /\ (Shown => Shown')
  BY <1>2 DEF Person, Shown, CheckoutTypeOK
<1>4. CheckoutTypeOK'
  BY <1>1, <1>2, <1>3 DEF CheckoutTypeOK
<1>5. EmptyHanded' /\ TokenIssued' /\ NoLeaseLeft' /\ NoEditOverwritten'
  BY <1>1, <1>2 DEF EmptyHanded, TokenIssued, NoLeaseLeft, NoEditOverwritten
<1>6. ReadTrue'
  BY <1>1, <1>2 DEF ReadTrue, CheckoutTypeOK
<1>7. ReceiptsPast'
  BY <1>1, <1>2 DEF ReceiptsPast, CheckoutTypeOK
<1>8. OwnMoved'
  BY <1>1, <1>3 DEF OwnMoved
<1>9. QED
  BY <1>4, <1>5, <1>6, <1>7, <1>8

\* A day that passes, and a step that changes nothing.
LEMMA DayKeeps ==
    ASSUME CheckoutInv, DayPasses \/ UNCHANGED checkoutVars
    PROVE  CheckoutInv'
<1> USE DEF CheckoutInv
<1>1. UNCHANGED <<held, issued, item, receipts, session, faults, edits, parked, lost>>
  BY DEF DayPasses, checkoutVars
<1>2. day' \in Nat
  BY DEF DayPasses, checkoutVars, CheckoutTypeOK
<1>3. CheckoutTypeOK'
  BY <1>1, <1>2 DEF CheckoutTypeOK
<1>4. EmptyHanded' /\ TokenIssued' /\ ReadTrue' /\ ReceiptsPast' /\ NoEditOverwritten'
  BY <1>1 DEF EmptyHanded, TokenIssued, ReadTrue, ReceiptsPast, NoEditOverwritten
<1>5. OwnMoved' /\ NoLeaseLeft'
  BY <1>1 DEF OwnMoved, NoLeaseLeft, Shown
<1>6. QED
  BY <1>3, <1>4, <1>5

LEMMA StepKeeps == CheckoutInv /\ [CheckoutNext]_checkoutVars => CheckoutInv'
<1> SUFFICES ASSUME CheckoutInv, [CheckoutNext]_checkoutVars PROVE CheckoutInv'
  OBVIOUS
<1>1. ASSUME NEW s \in Sessions, SessionStep(s) PROVE CheckoutInv'
  <2>1. CASE \E heard \in BOOLEAN : AcquireOk(s, heard)
    BY <2>1, AcquireKeeps
  <2>2. CASE \E heard \in BOOLEAN : PutWrites(s, heard)
    BY <2>2, PutKeeps
  <2>3. CASE GiveBack(s) \/ Finish(s) \/ Die(s)
    BY <2>3, EndingSteps
  <2>4. CASE Renew(s)
    BY <2>4, RenewKeeps
  <2>5. CASE \/ \E c \in Clients, force \in BOOLEAN : Begin(s, c, force)
             \/ AcquireRefused(s) \/ AcquireConflict(s) \/ HandBack(s) \/ Get(s)
             \/ PutReplayed(s) \/ PutConflicts(s) \/ MoveFails(s)
    BY <2>5, PrivateSteps
  <2>6. QED
    BY <1>1, <2>1, <2>2, <2>3, <2>4, <2>5 DEF SessionStep
<1>2. ASSUME NEW status \in Statuses, Person(status) PROVE CheckoutInv'
  BY <1>2, PersonKeeps
<1>3. CASE DayPasses \/ UNCHANGED checkoutVars
  BY <1>3, DayKeeps
<1>4. QED
  BY <1>1, <1>2, <1>3 DEF CheckoutNext

\* The inductive invariant of a checkout holds in every reachable state.
THEOREM CheckoutSafe == CheckoutSpec => []CheckoutInv
BY InitHolds, StepKeeps, PTL DEF CheckoutSpec

\* Every variable keeps its type, and a session past its acquire has a token that
\* was given out.
THEOREM CheckoutTyped == CheckoutSpec => []CheckoutTypeOK
<1>1. CheckoutInv => CheckoutTypeOK
  BY DEF CheckoutInv
<1>2. QED
  BY CheckoutSafe, <1>1, PTL

\* MoveTaskStatus never writes over an edit, for any number of sessions, edits and
\* attempts.
THEOREM EditsSafe == CheckoutSpec => []NoEditOverwritten
<1>1. CheckoutInv => NoEditOverwritten
  BY DEF CheckoutInv
<1>2. QED
  BY CheckoutSafe, <1>1, PTL

\* A checkout that answers with an error has given its lease back.
THEOREM ErrorsLeaveNoLease == CheckoutSpec => []NoLeaseLeft
<1>1. CheckoutInv => NoLeaseLeft
  BY DEF CheckoutInv
<1>2. QED
  BY CheckoutSafe, <1>1, PTL

\* The session that took the lease works on an item that has left ready, or that
\* a person put back there.
THEOREM OwnWorkVisible == CheckoutSpec => []OwnWorkShown
<1>1. CheckoutInv => OwnWorkShown
  BY DEF CheckoutInv, OwnMoved, OwnWorkShown, Working
<1>2. QED
  BY CheckoutSafe, <1>1, PTL
=============================================================================
