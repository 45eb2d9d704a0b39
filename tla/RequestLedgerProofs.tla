------------------------ MODULE RequestLedgerProofs ------------------------
(***************************************************************************)
(* Proofs about RequestLedger, for any requests, records, methods in use   *)
(* and compaction policies.                                                *)
(***************************************************************************)
EXTENDS RequestLedger, TLAPS

(***************************************************************************)
(* The lifecycles.                                                         *)
(***************************************************************************)
RunMethods == {"runs.prepare", "runs.claim", "runs.finish"}

LEMMA MoveFacts ==
  ASSUME NEW m \in AllMethods, NEW move \in Moves(m)
  PROVE  /\ move[1] \in RecordStates /\ move[2] \in RecordStates \ {"none"}
         /\ (move[1] = "deleted") <=> (m = "items.restore")
         /\ m \in RunMethods => move[2] \notin {"live", "deleted"}
         /\ m \notin RunMethods => move[2] \in {"live", "deleted"}
         /\ move[2] \in Open => move[1] \in Open \cup {"none"}
         /\ m \in Claims => move[1] = "prepared" /\ move[2] = "claimed"
         /\ move[1] \in {"claimed", "ended"} => move[2] \in {"claimed", "ended"}
  <1>1. CASE m \in {"items.put", "workspaces.put"}
    BY <1>1 DEF Moves, RecordStates, RunMethods, Open, Claims
  <1>2. CASE m \in {"items.delete", "workspaces.delete"}
    BY <1>2 DEF Moves, RecordStates, RunMethods, Open, Claims
  <1>3. CASE m = "items.restore"
    BY <1>3 DEF Moves, RecordStates, RunMethods, Open, Claims
  <1>4. CASE m = "runs.prepare"
    BY <1>4 DEF Moves, RecordStates, RunMethods, Open, Claims
  <1>5. CASE m = "runs.claim"
    BY <1>5 DEF Moves, RecordStates, RunMethods, Open, Claims
  <1>6. CASE m = "runs.finish"
    BY <1>6 DEF Moves, RecordStates, RunMethods, Open, Claims
  <1>7. QED
    BY <1>1, <1>2, <1>3, <1>4, <1>5, <1>6 DEF AllMethods

LEMMA TableFacts ==
  ASSUME NEW m \in AllMethods
  PROVE  /\ RecordsOf(m) \subseteq Records
         /\ m \in RunMethods => RecordsOf(m) \subseteq RunIds
         /\ m \notin RunMethods => RecordsOf(m) \cap RunIds = {}
  <1>1. CASE m \in {"items.put", "items.delete", "items.restore"}
    BY <1>1, LedgerAssumption DEF RecordsOf, Records, RunMethods
  <1>2. CASE m \in {"workspaces.put", "workspaces.delete"}
    BY <1>2, LedgerAssumption DEF RecordsOf, Records, RunMethods
  <1>3. CASE m \in RunMethods
    BY <1>3 DEF RecordsOf, Records, RunMethods
  <1>4. QED
    BY <1>1, <1>2, <1>3 DEF AllMethods, RunMethods

(***************************************************************************)
(* The invariant.                                                          *)
(***************************************************************************)

\* Revisions stay below the record's own, and a record without a row is at 0.
RevsBelow ==
    /\ \A v \in revs : v[2] <= rec[v[1]].rev
    /\ \A r \in Records : rec[r].state = "none" => rec[r].rev = 0

\* An event says what its request asked for, and its record has not gone back.
LogTrue ==
    \A n \in DOMAIN log :
        LET asked == req[log[n].req] IN
        /\ asked # Unsent
        /\ asked.rec = log[n].rec /\ asked.method = log[n].method
        /\ asked.expected + 1 = log[n].rev
        /\ log[n].rev <= rec[log[n].rec].rev

\* A run whose claim was answered is past its claim.
GrantsSpent ==
    \A r \in RunIds : granted[r] = 0 \/ (granted[r] = 1 /\ rec[r].state \in {"claimed", "ended"})

LedgerInv ==
    /\ LedgerTypeOK
    /\ RevsBelow
    /\ LogTrue
    /\ AtMostOnce
    /\ ReceiptsReadable
    /\ GrantsSpent
    /\ RetryFinds
    /\ LogAnchored
    /\ HistoryKept

(***************************************************************************)
(* What an applied request does.                                           *)
(***************************************************************************)
Bumped(r, to, homed) ==
    [x \in Records |->
        IF x = r THEN [rev |-> rec[r].rev + 1, state |-> to]
        ELSE IF x \in homed THEN [rec[x] EXCEPT !.rev = rec[x].rev + 1]
        ELSE rec[x]]

\* Request q takes its record along move, and the tasks of homed lose their home.
Takes(q, move, homed) ==
    /\ rec[req[q].rec].state = move[1]
    /\ rec' = Bumped(req[q].rec, move[2], homed)
    /\ revs' = revs \cup {<<req[q].rec, rec[req[q].rec].rev + 1>>}
                    \cup {<<x, rec[x].rev + 1>> : x \in homed}

LiveItems == {i \in Items : rec[i].state = "live"}

LEMMA ApplyMove ==
  ASSUME LedgerTypeOK, NEW q \in Requests, Apply(q)
  PROVE  /\ req[q] \in Content /\ req[q].method \in AllMethods
         /\ req[q].rec \in RecordsOf(req[q].method) /\ req[q].rec \in Records
         /\ req[q].expected = rec[req[q].rec].rev /\ req[q].expected \in Nat
         /\ \E move \in Moves(req[q].method), homed \in SUBSET LiveItems : Takes(q, move, homed)
  <1> DEFINE m == req[q].method
             r == req[q].rec
  <1>1. req[q] # Unsent /\ req[q] \in Content
    BY DEF Apply, LedgerTypeOK
  <1>2. m \in AllMethods /\ r \in RecordsOf(m) /\ req[q].expected \in Nat
    BY <1>1 DEF Content, LedgerTypeOK
  <1>3. r \in Records
    BY <1>2, TableFacts
  <1>4. req[q].expected = Current(m, r)
    BY DEF Apply
  <1>5. PICK move \in Moves(m), homed \in Homed(m) :
          /\ rec[r].state = move[1]
          /\ rec' = [x \in Records |->
                       IF x = r THEN [rev |-> req[q].expected + 1, state |-> move[2]]
                       ELSE IF x \in homed THEN [rec[x] EXCEPT !.rev = rec[x].rev + 1]
                       ELSE rec[x]]
          /\ revs' = revs \cup {<<r, req[q].expected + 1>>} \cup {<<x, rec[x].rev + 1>> : x \in homed}
    BY DEF Apply
  <1>6. (move[1] = "deleted") <=> (m = "items.restore")
    BY <1>2, MoveFacts
  <1>7. req[q].expected = rec[r].rev
    BY <1>4, <1>5, <1>6 DEF Current
  <1>8. homed \in SUBSET LiveItems
    BY DEF Homed, LiveItems
  <1>9. rec' = Bumped(r, move[2], homed)
    BY <1>5, <1>7 DEF Bumped
  <1>10. revs' = revs \cup {<<r, rec[r].rev + 1>>} \cup {<<x, rec[x].rev + 1>> : x \in homed}
    BY <1>5, <1>7
  <1>11. Takes(q, move, homed)
    BY <1>5, <1>9, <1>10 DEF Takes
  <1>12. QED
    BY <1>1, <1>2, <1>3, <1>7, <1>8, <1>11

\* Where a record goes in an applied request: up one revision, or nowhere.
LEMMA ApplyRecord ==
  ASSUME LedgerTypeOK, NEW q \in Requests, Apply(q), NEW x \in Records
  PROVE  /\ rec'[x] \in Row
         /\ rec'[x].rev = rec[x].rev + 1 \/ rec'[x] = rec[x]
         /\ rec'[x].rev = rec[x].rev + 1 => <<x, rec'[x].rev>> \in revs'
         /\ rec'[x].state = "none" => rec'[x] = rec[x]
         /\ x \in RunIds => rec'[x].state \notin {"live", "deleted"}
         /\ x \notin RunIds => rec'[x].state \in {"none", "live", "deleted"}
         /\ rec'[x].state \in Open => rec[x].state \in Open \cup {"none"}
         /\ (x \in RunIds /\ rec[x].state \in {"claimed", "ended"})
               => rec'[x].state \in {"claimed", "ended"}
         /\ x = req[q].rec => rec'[x].rev = rec[x].rev + 1
  <1> DEFINE m == req[q].method
             r == req[q].rec
  <1>0. PICK move \in Moves(m), homed \in SUBSET LiveItems : Takes(q, move, homed)
    BY ApplyMove
  <1>1. /\ rec[r].state = move[1]
        /\ rec' = Bumped(r, move[2], homed)
        /\ revs' = revs \cup {<<r, rec[r].rev + 1>>} \cup {<<y, rec[y].rev + 1>> : y \in homed}
    BY <1>0 DEF Takes
  <1>2. m \in AllMethods /\ r \in RecordsOf(m) /\ r \in Records
    BY ApplyMove
  <1>3. /\ rec[x] \in Row /\ rec[x].rev \in Nat
        /\ x \in RunIds => rec[x].state \notin {"live", "deleted"}
        /\ x \notin RunIds => rec[x].state \in {"none", "live", "deleted"}
    BY DEF LedgerTypeOK, Row
  <1>4. CASE x = r
    <2>1. rec'[x] = [rev |-> rec[r].rev + 1, state |-> move[2]]
      BY <1>1, <1>2, <1>4 DEF Bumped
    <2>2. rec'[x].rev = rec[x].rev + 1 /\ rec'[x].state = move[2]
      BY <1>4, <2>1
    <2>3. rec'[x] \in Row
      BY <1>2, <1>3, <1>4, <2>1, MoveFacts DEF Row
    <2>4. x \in RunIds <=> m \in RunMethods
      BY <1>2, <1>4, TableFacts
    <2>5. move[2] # "none" /\ (m \in RunMethods => move[2] \notin {"live", "deleted"})
          /\ (m \notin RunMethods => move[2] \in {"live", "deleted"})
          /\ (move[2] \in Open => move[1] \in Open \cup {"none"})
          /\ (move[1] \in {"claimed", "ended"} => move[2] \in {"claimed", "ended"})
      BY <1>2, MoveFacts
    <2>6. <<x, rec'[x].rev>> \in revs'
      BY <1>1, <1>4, <2>2
    <2>7. QED
      BY <1>1, <1>4, <2>2, <2>3, <2>4, <2>5, <2>6
  <1>5. CASE x # r /\ x \in homed
    <2>1. rec'[x] = [rec[x] EXCEPT !.rev = rec[x].rev + 1]
      BY <1>1, <1>5 DEF Bumped
    <2>2. rec'[x].rev = rec[x].rev + 1 /\ rec'[x].state = rec[x].state /\ rec'[x] \in Row
      BY <1>3, <2>1 DEF Row
    <2>3. rec[x].state = "live" /\ <<x, rec'[x].rev>> \in revs'
      BY <1>1, <1>5, <2>2 DEF LiveItems
    <2>4. x \notin RunIds
      BY <1>3, <2>3
    <2>5. QED
      BY <1>5, <2>2, <2>3, <2>4 DEF Open
  <1>6. CASE x # r /\ x \notin homed
    <2>1. rec'[x] = rec[x]
      BY <1>1, <1>6 DEF Bumped
    <2>2. rec'[x].rev # rec[x].rev + 1
      BY <1>3, <2>1
    <2>3. QED
      BY <1>3, <1>6, <2>1, <2>2
  <1>7. QED
    BY <1>4, <1>5, <1>6

\* Where the log and the receipts go.
LEMMA ApplyLog ==
  ASSUME LedgerTypeOK, NEW q \in Requests, Apply(q)
  PROVE  /\ log' \in Seq(Event) /\ Len(log') = Len(log) + 1 /\ Len(log) \in Nat
         /\ DOMAIN log' = 1..(Len(log) + 1) /\ DOMAIN log = 1..Len(log)
         /\ \A n \in DOMAIN log : log'[n] = log[n]
         /\ log'[Len(log) + 1] = [req |-> q, rec |-> req[q].rec, method |-> req[q].method,
                                  rev |-> req[q].expected + 1, at |-> clock]
         /\ events' = events \cup {Len(log) + 1}
         /\ receipt' = [receipt EXCEPT ![q] = Len(log) + 1]
         /\ req' = req /\ clock' = clock
         /\ notices \subseteq notices' /\ notices' \subseteq notices \cup {Len(log) + 1}
  <1> DEFINE e == [req |-> q, rec |-> req[q].rec, method |-> req[q].method,
                   rev |-> req[q].expected + 1, at |-> clock]
  <1>1. /\ log' = Append(log, e) /\ events' = events \cup {Len(log) + 1}
        /\ receipt' = [receipt EXCEPT ![q] = Len(log) + 1]
        /\ req' = req /\ clock' = clock
        /\ notices' = notices \/ notices' = notices \cup {Len(log) + 1}
    BY DEF Apply
  <1>2. e \in Event
    <2>1. /\ req[q].method \in AllMethods /\ req[q].rec \in Records
          /\ req[q].expected + 1 \in Nat /\ clock \in Nat
      BY ApplyMove DEF LedgerTypeOK
    <2>2. QED
      BY <2>1 DEF Event
  <1>3. log \in Seq(Event)
    BY DEF LedgerTypeOK
  <1> HIDE DEF e
  <1>4. /\ log' \in Seq(Event) /\ Len(log') = Len(log) + 1 /\ Len(log) \in Nat
        /\ DOMAIN log' = 1..(Len(log) + 1) /\ DOMAIN log = 1..Len(log)
        /\ \A n \in DOMAIN log : log'[n] = log[n]
        /\ log'[Len(log) + 1] = e
    BY <1>1, <1>2, <1>3
  <1>5. QED
    BY <1>1, <1>4 DEF e

LEMMA ApplyTypes ==
  ASSUME LedgerTypeOK, NEW q \in Requests, Apply(q)
  PROVE  LedgerTypeOK'
  <1>1. \A x \in Records : /\ rec'[x] \in Row
                           /\ x \in RunIds => rec'[x].state \notin {"live", "deleted"}
                           /\ x \notin RunIds => rec'[x].state \in {"none", "live", "deleted"}
    BY ApplyRecord
  <1>2. PICK move \in Moves(req[q].method), homed \in SUBSET LiveItems : Takes(q, move, homed)
    BY ApplyMove
  <1>3. rec' \in [Records -> Row]
    BY <1>1, <1>2 DEF Takes, Bumped
  <1>4. revs' \subseteq Records \X Nat
    <2>1. \A y \in Records : rec[y].rev + 1 \in Nat
      BY DEF LedgerTypeOK, Row
    <2>2. homed \subseteq Records /\ req[q].rec \in Records
      BY ApplyMove DEF Records, LiveItems
    <2>3. QED
      BY <1>2, <2>1, <2>2 DEF LedgerTypeOK, Takes
  <1>5. granted' \in [Records -> Nat]
    <2>1. granted \in [Records -> Nat] /\ req[q].rec \in Records
      BY ApplyMove DEF LedgerTypeOK
    <2>2. granted[req[q].rec] + 1 \in Nat
      BY <2>1
    <2>3. QED
      BY <2>1, <2>2 DEF Apply, Answered
  <1>6. /\ log' \in Seq(Event) /\ events' \subseteq 1..Len(log') /\ notices' \subseteq 1..Len(log')
        /\ receipt' \in [Requests -> 0..Len(log')] /\ req' = req /\ clock' = clock
    <2>1. /\ log' \in Seq(Event) /\ Len(log') = Len(log) + 1 /\ Len(log) \in Nat
          /\ events' = events \cup {Len(log) + 1} /\ notices' \subseteq notices \cup {Len(log) + 1}
          /\ receipt' = [receipt EXCEPT ![q] = Len(log) + 1] /\ req' = req /\ clock' = clock
      BY ApplyLog
    <2>2. /\ events \subseteq 1..Len(log) /\ notices \subseteq 1..Len(log)
          /\ receipt \in [Requests -> 0..Len(log)]
      BY DEF LedgerTypeOK
    <2>3. /\ events' \subseteq 1..Len(log') /\ notices' \subseteq 1..Len(log')
      <3>1. 1..Len(log) \subseteq 1..Len(log') /\ Len(log) + 1 \in 1..Len(log')
        BY <2>1
      <3>2. QED
        BY <2>1, <2>2, <3>1
    <2>4. receipt' \in [Requests -> 0..Len(log')]
      BY <2>1, <2>2
    <2>5. QED
      BY <2>1, <2>3, <2>4
  <1>7. QED
    BY <1>1, <1>3, <1>4, <1>5, <1>6 DEF LedgerTypeOK, Records

LEMMA ApplyInv ==
  ASSUME LedgerInv, NEW q \in Requests, Apply(q)
  PROVE  LedgerInv'
  <1> DEFINE r == req[q].rec
             last == Len(log) + 1
  <1>0. LedgerTypeOK
    BY DEF LedgerInv
  <1>1. LedgerTypeOK'
    BY <1>0, ApplyTypes
  <1>2. /\ r \in Records /\ req[q].expected = rec[r].rev /\ req[q].expected \in Nat
        /\ req[q].method \in AllMethods /\ req[q] \in Content
    BY <1>0, ApplyMove
  <1>3. /\ DOMAIN log' = 1..last /\ DOMAIN log = 1..Len(log) /\ Len(log) \in Nat
        /\ Len(log') = last
        /\ \A n \in DOMAIN log : log'[n] = log[n]
        /\ log'[last].req = q /\ log'[last].rec = r /\ log'[last].method = req[q].method
        /\ log'[last].rev = req[q].expected + 1 /\ log'[last].at = clock
        /\ events' = events \cup {last} /\ receipt' = [receipt EXCEPT ![q] = last]
        /\ req' = req /\ clock' = clock
        /\ notices \subseteq notices' /\ notices' \subseteq notices \cup {last}
    <2>1. /\ DOMAIN log' = 1..last /\ DOMAIN log = 1..Len(log) /\ Len(log) \in Nat
          /\ Len(log') = last
          /\ \A n \in DOMAIN log : log'[n] = log[n]
          /\ log'[last] = [req |-> q, rec |-> r, method |-> req[q].method,
                           rev |-> req[q].expected + 1, at |-> clock]
          /\ events' = events \cup {last} /\ receipt' = [receipt EXCEPT ![q] = last]
          /\ req' = req /\ clock' = clock
          /\ notices \subseteq notices' /\ notices' \subseteq notices \cup {last}
      BY <1>0, ApplyLog
    <2>2. /\ log'[last].req = q /\ log'[last].rec = r /\ log'[last].method = req[q].method
          /\ log'[last].rev = req[q].expected + 1 /\ log'[last].at = clock
      BY <2>1
    <2>3. QED
      BY <2>1, <2>2
  <1>4. /\ rec \in [Records -> Row] /\ \A x \in Records : rec[x].rev \in Nat
        /\ log \in Seq(Event) /\ \A n \in DOMAIN log : log[n] \in Event
        /\ receipt \in [Requests -> 0..Len(log)] /\ receipt[q] = 0
        /\ events \subseteq 1..Len(log) /\ revs \subseteq Records \X Nat
    BY <1>0 DEF LedgerTypeOK, Row, Apply
  <1>5. \A x \in Records :
          /\ rec'[x].rev = rec[x].rev + 1 \/ rec'[x] = rec[x]
          /\ rec'[x].rev = rec[x].rev + 1 => <<x, rec'[x].rev>> \in revs'
          /\ rec'[x].state = "none" => rec'[x] = rec[x]
          /\ rec'[x].state \in Open => rec[x].state \in Open \cup {"none"}
          /\ (x \in RunIds /\ rec[x].state \in {"claimed", "ended"})
                => rec'[x].state \in {"claimed", "ended"}
          /\ x = r => rec'[x].rev = rec[x].rev + 1
    BY <1>0, ApplyRecord
  <1>6. \A x \in Records : rec'[x].rev \in Nat /\ rec'[x].rev >= rec[x].rev
    <2>1. SUFFICES ASSUME NEW x \in Records PROVE rec'[x].rev \in Nat /\ rec'[x].rev >= rec[x].rev
      OBVIOUS
    <2>2. rec[x].rev \in Nat
      BY <1>4
    <2>3. rec'[x].rev = rec[x].rev + 1 \/ rec'[x] = rec[x]
      BY <1>5
    <2>4. QED
      BY <2>2, <2>3
  <1>7. RevsBelow'
    <2>0. PICK move \in Moves(req[q].method), homed \in SUBSET LiveItems : Takes(q, move, homed)
      BY <1>0, ApplyMove
    <2>1. /\ rec' = Bumped(r, move[2], homed)
          /\ revs' = revs \cup {<<r, rec[r].rev + 1>>} \cup {<<y, rec[y].rev + 1>> : y \in homed}
      BY <2>0 DEF Takes
    <2>2. ASSUME NEW v \in revs PROVE v[2] <= rec'[v[1]].rev
      <3>1. v[1] \in Records /\ v[2] \in Nat /\ v[2] <= rec[v[1]].rev
        BY <1>4 DEF LedgerInv, RevsBelow
      <3>2. QED
        BY <1>4, <1>6, <3>1
    <2>3. ASSUME NEW y \in homed PROVE rec[y].rev + 1 <= rec'[y].rev
      <3>1. y \in Records
        BY DEF Records, LiveItems
      <3>2. rec'[y].rev = rec[y].rev + 1
        BY <1>4, <1>5, <2>1, <3>1 DEF Bumped, Row
      <3>3. QED
        BY <1>4, <3>1, <3>2
    <2>4. rec[r].rev + 1 <= rec'[r].rev
      <3>1. rec'[r].rev = rec[r].rev + 1 /\ rec[r].rev \in Nat
        BY <1>2, <1>4, <1>5
      <3>2. QED
        BY <3>1
    <2>5. \A v \in revs' : v[2] <= rec'[v[1]].rev
      BY <2>1, <2>2, <2>3, <2>4
    <2>6. \A x \in Records : rec'[x].state = "none" => rec'[x].rev = 0
      BY <1>5 DEF LedgerInv, RevsBelow
    <2>7. QED
      BY <2>5, <2>6 DEF RevsBelow
  <1>8. LogTrue'
    <2>1. ASSUME NEW n \in DOMAIN log
          PROVE  /\ req'[log'[n].req] # Unsent
                 /\ req'[log'[n].req].rec = log'[n].rec /\ req'[log'[n].req].method = log'[n].method
                 /\ req'[log'[n].req].expected + 1 = log'[n].rev
                 /\ log'[n].rev <= rec'[log'[n].rec].rev
      <3>1. log[n].rec \in Records /\ log[n].rev \in Nat
        BY <1>4 DEF Event
      <3>2. /\ req[log[n].req] # Unsent
            /\ req[log[n].req].rec = log[n].rec /\ req[log[n].req].method = log[n].method
            /\ req[log[n].req].expected + 1 = log[n].rev
            /\ log[n].rev <= rec[log[n].rec].rev
        BY DEF LedgerInv, LogTrue
      <3>3. log[n].rev <= rec'[log[n].rec].rev
        BY <1>4, <1>6, <3>1, <3>2
      <3>4. log'[n] = log[n] /\ req' = req
        BY <1>3
      <3>5. QED
        BY <3>2, <3>3, <3>4
    <2>2. req[q] # Unsent /\ log'[last].rev <= rec'[r].rev
      BY <1>2, <1>3, <1>4, <1>5 DEF Apply
    <2>3. \A n \in DOMAIN log' : n \in DOMAIN log \/ n = last
      BY <1>3
    <2>4. QED
      BY <1>3, <2>1, <2>2, <2>3 DEF LogTrue
  <1>9. \A n \in DOMAIN log : log[n].req # q
    <2>1. SUFFICES ASSUME NEW n \in DOMAIN log, log[n].req = q PROVE FALSE
      OBVIOUS
    <2>2. log[n].rec = r /\ req[q].expected + 1 = log[n].rev /\ log[n].rev <= rec[r].rev
      BY <2>1 DEF LedgerInv, LogTrue
    <2>3. QED
      BY <1>2, <1>4, <2>2
  <1>10. AtMostOnce'
    BY <1>3, <1>9 DEF LedgerInv, AtMostOnce
  <1>11. ReceiptsReadable'
    <2>1. ASSUME NEW p \in Requests, p # q, receipt'[p] # 0
          PROVE  receipt'[p] \in events' /\ log'[receipt'[p]].req = p
      <3>1. receipt'[p] = receipt[p]
        BY <1>3, <1>4, <2>1
      <3>2. receipt[p] \in events /\ log[receipt[p]].req = p
        BY <2>1, <3>1 DEF LedgerInv, ReceiptsReadable
      <3>3. QED
        BY <1>3, <1>4, <3>1, <3>2
    <2>2. receipt'[q] = last
      BY <1>3, <1>4
    <2>3. QED
      BY <1>3, <2>1, <2>2 DEF ReceiptsReadable
  <1>12. GrantsSpent'
    <2>1. ASSUME NEW x \in RunIds
          PROVE  granted'[x] = 0 \/ (granted'[x] = 1 /\ rec'[x].state \in {"claimed", "ended"})
      <3>0. x \in Records /\ granted \in [Records -> Nat]
        BY <1>0 DEF Records, LedgerTypeOK
      <3>1. granted[x] = 0 \/ (granted[x] = 1 /\ rec[x].state \in {"claimed", "ended"})
        BY DEF LedgerInv, GrantsSpent
      <3>2. CASE granted'[x] = granted[x]
        BY <1>5, <3>0, <3>1, <3>2
      <3>3. CASE granted'[x] # granted[x]
        <4>1. x = r /\ req[q].method \in Claims /\ granted'[x] = granted[x] + 1
          BY <3>0, <3>3 DEF Apply, Answered
        <4>0. PICK move \in Moves(req[q].method), homed \in SUBSET LiveItems : Takes(q, move, homed)
          BY <1>0, ApplyMove
        <4>2. rec[r].state = move[1] /\ rec' = Bumped(r, move[2], homed)
          BY <4>0 DEF Takes
        <4>3. rec[r].state = "prepared" /\ move[2] = "claimed"
          BY <1>2, <4>1, <4>2, MoveFacts
        <4>4. rec'[x].state = "claimed"
          BY <3>0, <4>1, <4>2, <4>3 DEF Bumped
        <4>5. QED
          BY <3>1, <4>1, <4>3, <4>4
      <3>4. QED
        BY <3>2, <3>3
    <2>2. QED
      BY <2>1 DEF GrantsSpent
  <1>13. RetryFinds'
    <2>1. ASSUME NEW n \in DOMAIN log, clock' <= log'[n].at + Hour \/ log'[n].method \in Claims
          PROVE  receipt'[log'[n].req] = n
      <3>1. log[n].req \in Requests /\ log[n].req # q
        BY <1>4, <1>9 DEF Event
      <3>2. receipt[log[n].req] = n
        BY <1>3, <2>1 DEF LedgerInv, RetryFinds
      <3>3. QED
        BY <1>3, <1>4, <3>1, <3>2
    <2>2. receipt'[log'[last].req] = last
      BY <1>3, <1>4
    <2>3. \A n \in DOMAIN log' : n \in DOMAIN log \/ n = last
      BY <1>3
    <2>4. QED
      BY <2>1, <2>2, <2>3 DEF RetryFinds
  <1>14. LogAnchored'
    BY <1>3 DEF LedgerInv, LogAnchored
  <1>15. HistoryKept'
    <2>0. revs \subseteq revs'
      BY <1>0, ApplyMove DEF Takes
    <2>1. SUFFICES ASSUME NEW x \in Records, rec'[x].rev > 0
                   PROVE  /\ <<x, rec'[x].rev>> \in revs'
                          /\ rec'[x].state \in Open => \A n \in 1..rec'[x].rev : <<x, n>> \in revs'
      BY DEF HistoryKept
    <2>2. rec[x].rev > 0 => /\ <<x, rec[x].rev>> \in revs
                            /\ rec[x].state \in Open => \A n \in 1..rec[x].rev : <<x, n>> \in revs
      BY DEF LedgerInv, HistoryKept
    <2>3. CASE rec'[x] = rec[x]
      BY <2>0, <2>1, <2>2, <2>3
    <2>4. CASE rec'[x].rev = rec[x].rev + 1
      <3>1. <<x, rec'[x].rev>> \in revs'
        BY <1>5, <2>4
      <3>2. ASSUME rec'[x].state \in Open, NEW n \in 1..rec'[x].rev PROVE <<x, n>> \in revs'
        <4>1. CASE n = rec'[x].rev
          BY <3>1, <4>1
        <4>2. CASE n # rec'[x].rev
          <5>1. n \in 1..rec[x].rev /\ rec[x].rev > 0
            BY <1>4, <2>4, <3>2, <4>2
          <5>2. rec[x].state \in Open
            <6>1. rec[x].state # "none"
              BY <5>1 DEF LedgerInv, RevsBelow
            <6>2. rec[x].state \in Open \cup {"none"}
              BY <1>5, <3>2
            <6>3. QED
              BY <6>1, <6>2
          <5>3. QED
            BY <2>0, <2>2, <5>1, <5>2
        <4>3. QED
          BY <4>1, <4>2
      <3>3. QED
        BY <3>1, <3>2
    <2>5. QED
      BY <1>5, <2>3, <2>4
  <1>16. QED
    BY <1>1, <1>7, <1>8, <1>10, <1>11, <1>12, <1>13, <1>14, <1>15 DEF LedgerInv

(***************************************************************************)
(* The other steps.                                                        *)
(***************************************************************************)
LEMMA EventTypes ==
  ASSUME LedgerTypeOK, NEW n \in DOMAIN log
  PROVE  /\ n \in 1..Len(log)
         /\ log[n].req \in Requests /\ log[n].rec \in Records /\ log[n].at \in Nat
  <1>1. log \in Seq(Event)
    BY DEF LedgerTypeOK
  <1>2. log[n] \in Event /\ n \in 1..Len(log)
    BY <1>1
  <1>3. QED
    BY <1>2 DEF Event

LEMMA ComposeInv ==
  ASSUME LedgerInv, NEW q \in Requests, NEW m \in Methods, NEW scanned \in Scanning,
         NEW r \in RecordsOf(m), NEW e \in {0, rec[r].rev}, Compose(q, m, r, e, scanned)
  PROVE  LedgerInv'
  <1> DEFINE c == [method |-> m, rec |-> r, expected |-> e,
                   scanned |-> scanned /\ m = "items.put" /\ e = 0, scan |-> Len(log)]
  <1>0. LedgerTypeOK /\ m \in AllMethods
    BY LedgerAssumption DEF LedgerInv
  <1>1. /\ req[q] = Unsent /\ req' = [req EXCEPT ![q] = c]
        /\ UNCHANGED <<rec, revs, log, events, receipt, notices, clock, granted>>
    BY DEF Compose
  <1>2. c \in Content /\ c.rec \in RecordsOf(c.method)
    <2>1. r \in Records
      BY <1>0, TableFacts
    <2>2. e \in Nat /\ Len(log) \in Nat
      BY <1>0, <2>1 DEF LedgerTypeOK, Row
    <2>3. QED
      BY <1>0, <2>1, <2>2 DEF Content
  <1> HIDE DEF c
  <1>3. \A p \in Requests : req'[p] = IF p = q THEN c ELSE req[p]
    BY <1>0, <1>1 DEF LedgerTypeOK
  <1>4. LedgerTypeOK'
    <2>1. req' \in [Requests -> Content \cup {Unsent}]
      BY <1>0, <1>1, <1>2 DEF LedgerTypeOK
    <2>2. \A p \in Requests : req'[p] # Unsent => req'[p].rec \in RecordsOf(req'[p].method)
      BY <1>0, <1>2, <1>3 DEF LedgerTypeOK
    <2>3. QED
      BY <1>0, <1>1, <2>1, <2>2 DEF LedgerTypeOK
  <1>5. LogTrue'
    <2>1. \A n \in DOMAIN log : log[n].req \in Requests /\ log[n].req # q
      <3>1. \A n \in DOMAIN log : log[n].req \in Requests
        BY <1>0, EventTypes
      <3>2. \A n \in DOMAIN log : req[log[n].req] # Unsent
        BY DEF LedgerInv, LogTrue
      <3>3. QED
        BY <1>1, <3>1, <3>2
    <2>2. \A n \in DOMAIN log : req'[log[n].req] = req[log[n].req]
      BY <1>3, <2>1
    <2>3. QED
      BY <1>1, <2>2 DEF LedgerInv, LogTrue
  <1>6. QED
    BY <1>1, <1>4, <1>5 DEF LedgerInv, RevsBelow, AtMostOnce, ReceiptsReadable, GrantsSpent,
                            RetryFinds, LogAnchored, HistoryKept

LEMMA UnchangedInv ==
  ASSUME LedgerInv, UNCHANGED vars
  PROVE  LedgerInv'
  BY DEF LedgerInv, LedgerTypeOK, RevsBelow, LogTrue, AtMostOnce, ReceiptsReadable,
         GrantsSpent, RetryFinds, LogAnchored, HistoryKept, vars

LEMMA ReplayInv ==
  ASSUME LedgerInv, NEW q \in Requests, Replay(q)
  PROVE  LedgerInv'
  <1>1. UNCHANGED vars
    BY DEF Replay, Replayable, Answered, vars
  <1>2. QED
    BY <1>1, UnchangedInv

LEMMA TickInv ==
  ASSUME LedgerInv, Tick
  PROVE  LedgerInv'
  <1>1. /\ clock' = clock + 1 /\ clock \in Nat
        /\ UNCHANGED <<req, rec, revs, log, events, receipt, notices, granted>>
    BY DEF Tick, LedgerInv, LedgerTypeOK
  <1>2. RetryFinds'
    <2>1. \A n \in DOMAIN log : log[n].at \in Nat
      BY EventTypes DEF LedgerInv
    <2>2. \A n \in DOMAIN log : clock' <= log[n].at + Hour => clock <= log[n].at + Hour
      BY <1>1, <2>1, LedgerAssumption
    <2>3. QED
      BY <1>1, <2>2 DEF LedgerInv, RetryFinds
  <1>3. clock' \in Nat
    BY <1>1
  <1>4. QED
    BY <1>1, <1>2, <1>3 DEF LedgerInv, LedgerTypeOK, RevsBelow, LogTrue, AtMostOnce,
                            ReceiptsReadable, GrantsSpent, LogAnchored, HistoryKept

\* A pass of compaction deletes only rows its rules make eligible.
LEMMA CompactInv ==
  ASSUME LedgerInv, NEW p \in Policies, Compact(p)
  PROVE  LedgerInv'
  <1> DEFINE pruned == Oldest(OldReceipts(p), p.limit)
  <1>0. LedgerTypeOK
    BY DEF LedgerInv
  <1>1. /\ receipt' = [q \in Requests |-> IF receipt[q] \in pruned THEN 0 ELSE receipt[q]]
        /\ events' = events \ Oldest(OldEvents(p, pruned), p.limit)
        /\ revs' \subseteq revs /\ revs \ revs' \subseteq OldRevisions(p)
        /\ UNCHANGED <<req, rec, log, notices, clock, granted>>
    BY DEF Compact, Some
  <1>2. pruned \subseteq OldReceipts(p) /\ Oldest(OldEvents(p, pruned), p.limit) \subseteq OldEvents(p, pruned)
    BY DEF Oldest
  <1> HIDE DEF pruned
  <1>3. /\ p.window \in Nat /\ p.keepEvents \in Nat /\ p.keepRevisions \in Nat
        /\ p.window >= Hour /\ p.keepEvents >= 1 /\ p.keepRevisions >= 1 /\ Hour \in Nat
    BY LedgerAssumption DEF Compact, Valid, Policy
  <1>4. /\ log \in Seq(Event) /\ Len(log) \in Nat /\ DOMAIN log = 1..Len(log)
        /\ \A n \in DOMAIN log : log[n].at \in Nat /\ log[n].req \in Requests
        /\ events \subseteq DOMAIN log /\ clock \in Nat
        /\ receipt \in [Requests -> 0..Len(log)]
        /\ rec \in [Records -> Row] /\ revs \subseteq Records \X Nat
        /\ \A x \in Records : rec[x].rev \in Nat
    <2>1. \A n \in DOMAIN log : log[n].at \in Nat /\ log[n].req \in Requests
      BY <1>0, EventTypes
    <2>2. log \in Seq(Event)
      BY <1>0 DEF LedgerTypeOK
    <2>3. Len(log) \in Nat /\ DOMAIN log = 1..Len(log)
      BY <2>2
    <2>4. rec \in [Records -> Row]
      BY <1>0 DEF LedgerTypeOK
    <2>5. \A x \in Records : rec[x].rev \in Nat
      BY <2>4 DEF Row
    <2>6. QED
      BY <1>0, <2>1, <2>2, <2>3, <2>4, <2>5 DEF LedgerTypeOK
  <1>5. events' \subseteq events /\ events \ events' \subseteq OldEvents(p, pruned)
    BY <1>1, <1>2
  <1>6. receipt' \in [Requests -> 0..Len(log)]
    BY <1>1, <1>4
  <1>7. LedgerTypeOK'
    BY <1>0, <1>1, <1>5, <1>6 DEF LedgerTypeOK
  <1>8. RevsBelow'
    BY <1>1 DEF LedgerInv, RevsBelow
  <1>9. ReceiptsReadable'
    <2>1. SUFFICES ASSUME NEW q \in Requests, receipt'[q] # 0
                   PROVE  receipt'[q] \in events' /\ log[receipt'[q]].req = q
      BY <1>1 DEF ReceiptsReadable
    <2>2. receipt'[q] = receipt[q] /\ receipt[q] \notin pruned
      BY <1>1, <2>1
    <2>3. receipt[q] \in events /\ log[receipt[q]].req = q
      BY <2>1, <2>2 DEF LedgerInv, ReceiptsReadable
    <2>4. receipt[q] \notin OldEvents(p, pruned)
      BY <2>2 DEF OldEvents
    <2>5. QED
      BY <1>5, <2>2, <2>3, <2>4
  <1>10. RetryFinds'
    <2>1. SUFFICES ASSUME NEW n \in DOMAIN log, clock <= log[n].at + Hour \/ log[n].method \in Claims
                   PROVE  receipt'[log[n].req] = n
      BY <1>1 DEF RetryFinds
    <2>2. receipt[log[n].req] = n /\ log[n].req \in Requests
      BY <1>4, <2>1 DEF LedgerInv, RetryFinds
    <2>3. n \notin OldReceipts(p)
      <3>1. CASE log[n].method \in Claims
        BY <3>1 DEF OldReceipts
      <3>2. CASE clock <= log[n].at + Hour
        BY <1>3, <1>4, <3>2 DEF OldReceipts, Older
      <3>3. QED
        BY <2>1, <3>1, <3>2
    <2>4. QED
      BY <1>1, <1>2, <2>2, <2>3
  <1>11. LogAnchored'
    <2>1. Len(log) \notin OldEvents(p, pruned)
      BY <1>3, <1>4 DEF OldEvents
    <2>2. notices \cap OldEvents(p, pruned) = {}
      BY DEF OldEvents
    <2>3. (log # <<>> => Len(log) \in events) /\ notices \subseteq events
      BY DEF LedgerInv, LogAnchored
    <2>4. QED
      BY <1>1, <1>5, <2>1, <2>2, <2>3 DEF LogAnchored
  <1>12. HistoryKept'
    <2>1. SUFFICES ASSUME NEW x \in Records, rec[x].rev > 0
                   PROVE  /\ <<x, rec[x].rev>> \in revs'
                          /\ rec[x].state \in Open => \A n \in 1..rec[x].rev : <<x, n>> \in revs'
      BY <1>1 DEF HistoryKept
    <2>2. /\ <<x, rec[x].rev>> \in revs
          /\ rec[x].state \in Open => \A n \in 1..rec[x].rev : <<x, n>> \in revs
      BY <2>1 DEF LedgerInv, HistoryKept
    <2>3. <<x, rec[x].rev>> \notin OldRevisions(p)
      <3>1. SUFFICES ASSUME NEW y \in revs, y[1] = x, rec[x].rev + p.keepRevisions <= y[2] PROVE FALSE
        BY DEF OldRevisions
      <3>2. y[2] \in Nat /\ y[2] <= rec[x].rev
        BY <1>4, <3>1 DEF LedgerInv, RevsBelow
      <3>3. QED
        BY <1>3, <1>4, <3>1, <3>2
    <2>4. rec[x].state \in Open => \A n \in Nat : <<x, n>> \notin OldRevisions(p)
      BY DEF OldRevisions
    <2>5. QED
      BY <1>1, <2>2, <2>3, <2>4
  <1>13. LogTrue' /\ AtMostOnce' /\ GrantsSpent'
    BY <1>1 DEF LedgerInv, LogTrue, AtMostOnce, GrantsSpent
  <1>14. QED
    BY <1>7, <1>8, <1>9, <1>10, <1>11, <1>12, <1>13 DEF LedgerInv

(***************************************************************************)
(* The theorems.                                                           *)
(***************************************************************************)
LEMMA LedgerInit ==
  ASSUME Init
  PROVE  LedgerInv
  <1>1. /\ log = <<>> /\ Len(log) = 0 /\ DOMAIN log = {} /\ log \in Seq(Event)
        /\ \A r \in Records : rec[r].rev = 0 /\ rec[r].state = "none" /\ granted[r] = 0
        /\ \A q \in Requests : req[q] = Unsent /\ receipt[q] = 0
    BY DEF Init
  <1>2. LedgerTypeOK
    BY <1>1 DEF Init, LedgerTypeOK, Row, RecordStates, Records
  <1>3. QED
    BY <1>1, <1>2 DEF Init, LedgerInv, RevsBelow, LogTrue, AtMostOnce, ReceiptsReadable,
                      GrantsSpent, RetryFinds, LogAnchored, HistoryKept, Records

LEMMA LedgerStep ==
  ASSUME LedgerInv, [Next]_vars
  PROVE  LedgerInv'
  BY ComposeInv, ApplyInv, ReplayInv, CompactInv, TickInv, UnchangedInv DEF Next

\* The invariant holds throughout.
THEOREM LedgerInductive == Spec => []LedgerInv
  BY LedgerInit, LedgerStep, PTL DEF Spec

\* Every variable keeps its type and every record the lifecycle of its table.
THEOREM LedgerTyped == Spec => []LedgerTypeOK
  <1>1. LedgerInv => LedgerTypeOK
    BY DEF LedgerInv
  <1>2. QED
    BY <1>1, LedgerInductive, PTL

\* No request takes effect twice, whatever is pruned, for any number of
\* requests, retries and records.
THEOREM EffectOnce == Spec => []AtMostOnce
  <1>1. LedgerInv => AtMostOnce
    BY DEF LedgerInv
  <1>2. QED
    BY <1>1, LedgerInductive, PTL

\* Every receipt can be replayed: the event it names is retained.
THEOREM ReceiptsAnswer == Spec => []ReceiptsReadable
  <1>1. LedgerInv => ReceiptsReadable
    BY DEF LedgerInv
  <1>2. QED
    BY <1>1, LedgerInductive, PTL

\* A retry in the window, or of a claim, finds its receipt.
THEOREM RetriesAnswered == Spec => []RetryFinds
  <1>1. LedgerInv => RetryFinds
    BY DEF LedgerInv
  <1>2. QED
    BY <1>1, LedgerInductive, PTL

\* The authority to launch a run is handed out once.
THEOREM LaunchOnce == Spec => []ClaimOnce
  <1>1. LedgerInv => ClaimOnce
    BY DEF LedgerInv, GrantsSpent, ClaimOnce
  <1>2. QED
    BY <1>1, LedgerInductive, PTL

\* No pass of compaction, with any valid policy, removes the newest event, the
\* source of a notice or a current revision.
THEOREM LogKept == Spec => []LogAnchored
  <1>1. LedgerInv => LogAnchored
    BY DEF LedgerInv
  <1>2. QED
    BY <1>1, LedgerInductive, PTL

\* No pass of compaction removes the history of a live run.
THEOREM LiveHistoryKept == Spec => []HistoryKept
  <1>1. LedgerInv => HistoryKept
    BY DEF LedgerInv
  <1>2. QED
    BY <1>1, LedgerInductive, PTL

=============================================================================
