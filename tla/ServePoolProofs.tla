--------------------------- MODULE ServePoolProofs ---------------------------
(***************************************************************************)
(* Who has which process, and what is on its pipes: for every number of    *)
(* calls, processes, slots and mishaps, a reply reaches the call that      *)
(* asked for it, it is of a file the path named during the call, and the   *)
(* pool stays bounded and loses no slot.                                   *)
(***************************************************************************)
EXTENDS ServePool, FunctionTheorems, FiniteSetTheorems, SequenceTheorems, TLAPS

File == Nat \cup {NoFile}
ReplyType == [to : Calls \cup {"nobody"}, file : File, adopted : BOOLEAN]
Process == [state : {"none", "starting", "alive", "dead", "abandoned"},
            id : File, file : File, adopted : BOOLEAN,
            asked : Seq(Calls), out : Seq(ReplyType)]
Progress == [pc : {"new", "borrow", "start", "wait", "put", "slot", "over"},
             child : Children \cup {NoChild}, named : SUBSET File, got : ReplyType]

PoolTypeOK ==
    /\ used \in Int /\ idle \in Seq(Children) /\ shut \in BOOLEAN
    /\ child \in [Children -> Process]
    /\ request \in [Calls -> Progress]
    /\ files \in Nat /\ path \in 1..files \cup {NoFile}
    /\ mishaps \in Int

Idles == {idle[n] : n \in DOMAIN idle}
HasChild(r) == request[r].pc \in {"start", "wait", "put"}

\* Nothing is on the pipes of c.
Still(c) == child[c].asked = <<>> /\ child[c].out = <<>>

\* On the pipes of the child of a call is its request or its reply, alone.
InTurn(r) ==
    \/ Mine(r).asked = <<r>> /\ Mine(r).out = <<>>
    \/ /\ Mine(r).asked = <<>>
       /\ \E m \in ReplyType : /\ Mine(r).out = <<m>> /\ m.to = r
                               /\ m.adopted \/ m.file \in request[r].named

CallOK(r) ==
    /\ HasChild(r) => request[r].child \in Children /\ request[r].child \notin Idles
    /\ ~HasChild(r) => request[r].child = NoChild
    /\ request[r].pc = "start" => Mine(r).state = "starting"
    /\ request[r].pc \in {"wait", "put"} => Mine(r).state \in {"alive", "dead"}
    /\ request[r].pc = "put" => Still(request[r].child)
    /\ request[r].pc = "wait" =>
          InTurn(r) /\ (Mine(r).adopted \/ Mine(r).file \in request[r].named \cup {NoFile})
    /\ request[r].pc \in {"put", "slot"} =>
          /\ request[r].got.to = r
          /\ request[r].got.adopted \/ request[r].got.file \in request[r].named
    /\ request[r].pc \notin {"put", "slot"} => request[r].got = NoReply
    /\ r \in InSlot => path \in request[r].named

\* A process whose file was the path's when it was examined has no other, as long
\* as the path has not changed: no number comes twice.
ChildOK(c) ==
    /\ child[c].state = "none" => child[c] = Gone
    /\ child[c].state \in {"starting", "abandoned"} => Still(c) /\ child[c].file = NoFile
    /\ c \in Idles => child[c].state \in {"alive", "dead"} /\ Still(c)
    /\ child[c].id \in 1..files \cup {NoFile}
    /\ child[c].id # NoFile /\ child[c].id = path =>
          child[c].adopted \/ child[c].file \in {NoFile, path}

\* Nobody shares a process, and an owned one has an owner.
Owners ==
    /\ \A m, n \in DOMAIN idle : idle[m] = idle[n] => m = n
    /\ \A q, r \in Calls :
          HasChild(q) /\ HasChild(r) /\ request[q].child = request[r].child => q = r
    /\ \A c \in Owned : c \in Idles \/ \E r \in Calls : HasChild(r) /\ request[r].child = c

SlotsCounted == IsFiniteSet(InSlot) /\ Cardinality(InSlot) = used /\ used <= Slots

OwnedBound == IsFiniteSet(Owned) /\ Cardinality(Owned) <= Slots

PoolInv ==
    /\ PoolTypeOK /\ Owners /\ SlotsCounted /\ OwnedBound
    /\ \A r \in Calls : CallOK(r)
    /\ \A c \in Children : ChildOK(c)

LEMMA OneSeq ==
  ASSUME NEW x
  PROVE  /\ Append(<<>>, x) = <<x>> /\ <<x>> # <<>>
         /\ Head(<<x>>) = x /\ Tail(<<x>>) = <<>>
  OBVIOUS

LEMMA LastOfIdle ==
  ASSUME PoolTypeOK, idle # <<>>
  PROVE  LastIdle \in Children /\ LastIdle \in Idles /\ ButLast \in Seq(Children)
  <1>1. Len(idle) \in Nat \ {0} /\ DOMAIN idle = 1..Len(idle)
    BY EmptySeq, LenProperties DEF PoolTypeOK
  <1>2. Len(idle) \in 1..Len(idle)
    BY <1>1
  <1>3. \A i \in 1..(Len(idle) - 1) : idle[i] \in Children
    BY <1>1, ElementOfSeq DEF PoolTypeOK
  <1>4. ButLast \in Seq(Children)
    BY <1>1, <1>3, SubSeqProperties DEF ButLast
  <1>5. QED
    BY <1>1, <1>2, <1>4, ElementOfSeq DEF PoolTypeOK, Idles, LastIdle

LEMMA UpTo ==
  ASSUME NEW k \in Nat, k >= 1
  PROVE  /\ k \in 1..k
         /\ \A i \in 1..k : i \in 1..(k - 1) \/ i = k
         /\ \A i \in 1..(k - 1) : i \in 1..k /\ i # k
  OBVIOUS

LEMMA WithoutLast ==
  ASSUME PoolTypeOK, Owners, idle # <<>>, idle' = ButLast
  PROVE  /\ Idles' = Idles \ {LastIdle}
         /\ \A m, n \in DOMAIN idle' : idle'[m] = idle'[n] => m = n
  <1> DEFINE k == Len(idle)
  <1>0. k \in Nat \ {0}
    BY EmptySeq DEF PoolTypeOK
  <1>1. k \in Nat /\ k >= 1 /\ DOMAIN idle = 1..k
    BY <1>0, LenProperties DEF PoolTypeOK
  <1>2. /\ k \in 1..k
        /\ \A i \in 1..k : i \in 1..(k - 1) \/ i = k
        /\ \A i \in 1..(k - 1) : i \in 1..k /\ i # k
    BY <1>1, UpTo
  <1>3. \A i \in 1..(k - 1) : idle[i] \in Children
    BY <1>2, ElementOfSeq DEF PoolTypeOK
  <1>4. /\ idle' \in Seq(Children) /\ Len(idle') = k - 1
        /\ \A i \in 1..(k - 1) : idle'[i] = idle[i]
    <2>1. /\ SubSeq(idle, 1, k - 1) \in Seq(Children)
          /\ Len(SubSeq(idle, 1, k - 1)) = IF 1 <= k - 1 THEN (k - 1) - 1 + 1 ELSE 0
          /\ \A i \in 1..((k - 1) - 1 + 1) : SubSeq(idle, 1, k - 1)[i] = idle[1 + i - 1]
      BY <1>1, <1>3, SubSeqProperties
    <2>2. QED
      BY <1>1, <2>1 DEF ButLast
  <1>5. DOMAIN idle' = 1..(k - 1)
    BY <1>4, LenProperties
  <1> HIDE DEF k
  <1>6. LastIdle = idle[k]
    BY DEF LastIdle, k
  <1>7. \A i \in 1..k : idle[i] = LastIdle => i = k
    BY <1>1, <1>2, <1>6 DEF Owners
  <1>8. Idles' = Idles \ {LastIdle}
    <2>1. ASSUME NEW x \in Idles' PROVE x \in Idles \ {LastIdle}
      <3>1. PICK i \in 1..(k - 1) : x = idle'[i]
        BY <1>5 DEF Idles
      <3>2. i \in 1..k /\ i # k /\ x = idle[i]
        BY <1>2, <1>4, <3>1
      <3>3. QED
        BY <1>1, <1>7, <3>2 DEF Idles
    <2>2. ASSUME NEW x \in Idles \ {LastIdle} PROVE x \in Idles'
      <3>1. PICK i \in 1..k : x = idle[i]
        BY <1>1 DEF Idles
      <3>2. i \in 1..(k - 1) /\ x = idle'[i]
        BY <1>2, <1>4, <1>6, <3>1
      <3>3. QED
        BY <1>5, <3>2 DEF Idles
    <2>3. QED
      BY <2>1, <2>2
  <1>9. \A m, n \in DOMAIN idle' : idle'[m] = idle'[n] => m = n
    BY <1>1, <1>2, <1>4, <1>5 DEF Owners
  <1>10. QED
    BY <1>8, <1>9

LEMMA WithOneMore ==
  ASSUME PoolTypeOK, Owners, NEW c \in Children \ Idles, idle' = Append(idle, c)
  PROVE  /\ idle' \in Seq(Children)
         /\ Idles' = Idles \cup {c}
         /\ \A m, n \in DOMAIN idle' : idle'[m] = idle'[n] => m = n
  <1>1. Len(idle) \in Nat /\ DOMAIN idle = 1..Len(idle)
    BY LenProperties DEF PoolTypeOK
  <1>2. /\ idle' \in Seq(Children) /\ Len(idle') = Len(idle) + 1
        /\ \A i \in 1..Len(idle) : idle'[i] = idle[i]
        /\ idle'[Len(idle) + 1] = c
    BY AppendProperties DEF PoolTypeOK
  <1>3. DOMAIN idle' = 1..(Len(idle) + 1)
    BY <1>2, LenProperties
  <1>4. \A i \in 1..(Len(idle) + 1) : i \in 1..Len(idle) \/ i = Len(idle) + 1
    BY <1>1
  <1>5. \A i \in 1..Len(idle) : i \in 1..(Len(idle) + 1)
    BY <1>1
  <1>6. Len(idle) + 1 \in 1..(Len(idle) + 1)
    BY <1>1
  <1>7. \A i \in 1..Len(idle) : idle[i] # c
    BY <1>1 DEF Idles
  <1>8. Idles' = Idles \cup {c}
    BY <1>1, <1>2, <1>3, <1>4, <1>5, <1>6 DEF Idles
  <1>9. QED
    BY <1>1, <1>2, <1>3, <1>4, <1>7, <1>8 DEF Owners

\* What a step leaves alone, T and c being the calls and the child it touches.
Aside(T, c) ==
    /\ path' = path /\ files' = files
    /\ \A q \in Calls \ T : request'[q] = request[q]
    /\ \A d \in Children \ {c} : child'[d] = child[d]
    /\ Idles' \ {c} = Idles \ {c}
    /\ \A q, r \in T : q = r
    /\ \A q \in T : /\ HasChild(q) => request[q].child = c
                    /\ HasChild(q)' => request'[q].child = c
    /\ \A q \in Calls \ T : HasChild(q) => request[q].child # c
    /\ c \in Owned' => c \in Idles' \/ \E q \in T : HasChild(q)'

LEMMA AsideKeeps ==
  ASSUME PoolInv, NEW T \in SUBSET Calls, NEW c, Aside(T, c),
         \A m, n \in DOMAIN idle' : idle'[m] = idle'[n] => m = n
  PROVE  /\ Owners'
         /\ \A q \in Calls \ T : CallOK(q)'
         /\ \A d \in Children \ {c} : ChildOK(d)'
  <1>1. ASSUME NEW q \in Calls \ T PROVE CallOK(q)'
    <2>1. CallOK(q) /\ request'[q] = request[q]
      BY DEF PoolInv, Aside
    <2>2. HasChild(q) => /\ request[q].child \in Children /\ request[q].child # c
                         /\ child'[request[q].child] = child[request[q].child]
                         /\ request[q].child \notin Idles'
      BY <2>1 DEF CallOK, Aside
    <2>3. HasChild(q) => Mine(q)' = Mine(q) /\ (Still(request[q].child))' = Still(request[q].child)
      BY <2>1, <2>2 DEF Mine, Still
    <2>4. request[q].pc = "wait" => InTurn(q)' = InTurn(q)
      BY <2>1, <2>3 DEF InTurn, HasChild
    <2>5. q \in InSlot' <=> q \in InSlot
      BY <2>1 DEF InSlot
    <2>6. path' = path
      BY DEF Aside
    <2>7. HasChild(q)' = HasChild(q)
      BY <2>1 DEF HasChild
    <2>8. QED
      BY <2>1, <2>2, <2>3, <2>4, <2>5, <2>6, <2>7 DEF CallOK, HasChild
  <1>2. ASSUME NEW d \in Children \ {c} PROVE ChildOK(d)'
    <2>1. ChildOK(d) /\ child'[d] = child[d] /\ path' = path /\ files' = files
      BY DEF PoolInv, Aside
    <2>2. d \in Idles' <=> d \in Idles
      BY DEF Aside
    <2>3. QED
      BY <2>1, <2>2 DEF ChildOK, Still
  <1>3. ASSUME NEW q \in Calls, NEW r \in Calls, HasChild(q)', HasChild(r)',
               request'[q].child = request'[r].child
        PROVE  q = r
    BY <1>3 DEF Aside, PoolInv, Owners, HasChild
  <1>4. ASSUME NEW d \in Owned'
        PROVE  d \in Idles' \/ \E r \in Calls : HasChild(r)' /\ request'[r].child = d
    <2>1. CASE d = c
      BY <2>1, <1>4 DEF Aside
    <2>2. CASE d # c
      <3>1. d \in Owned /\ (d \in Idles <=> d \in Idles')
        BY <2>2, <1>4 DEF Aside, Owned
      <3>2. CASE d \in Idles
        BY <3>1, <3>2
      <3>3. CASE \E r \in Calls : HasChild(r) /\ request[r].child = d
        BY <2>2, <3>3 DEF Aside, HasChild
      <3>4. QED
        BY <3>1, <3>2, <3>3 DEF PoolInv, Owners
    <2>3. QED
      BY <2>1, <2>2
  <1>5. QED
    BY <1>1, <1>2, <1>3, <1>4 DEF Owners

LEMMA SlotTaken ==
  ASSUME SlotsCounted, NEW r, r \notin InSlot, InSlot' = InSlot \cup {r},
         used < Slots, used' = used + 1
  PROVE  SlotsCounted'
  <1>1. /\ IsFiniteSet(InSlot \cup {r})
        /\ Cardinality(InSlot \cup {r}) = Cardinality(InSlot) + 1
    BY FS_AddElement DEF SlotsCounted
  <1>2. used \in Nat
    BY FS_CardinalityType DEF SlotsCounted
  <1>3. QED
    BY <1>1, <1>2, PoolConstants DEF SlotsCounted

LEMMA SlotFreed ==
  ASSUME SlotsCounted, NEW r \in InSlot, InSlot' = InSlot \ {r}, used' = used - 1
  PROVE  SlotsCounted'
  <1>1. /\ IsFiniteSet(InSlot \ {r})
        /\ Cardinality(InSlot \ {r}) = Cardinality(InSlot) - 1
    BY FS_RemoveElement DEF SlotsCounted
  <1>2. used \in Nat
    BY FS_CardinalityType DEF SlotsCounted
  <1>3. QED
    BY <1>1, <1>2, PoolConstants DEF SlotsCounted

LEMMA SlotKept ==
  ASSUME SlotsCounted, InSlot' = InSlot, used' = used
  PROVE  SlotsCounted'
  BY DEF SlotsCounted

LEMMA OwnedFewer ==
  ASSUME OwnedBound, Owned' \subseteq Owned
  PROVE  OwnedBound'
  <1>1. IsFiniteSet(Owned') /\ Cardinality(Owned') <= Cardinality(Owned)
    BY FS_Subset DEF OwnedBound
  <1>2. Cardinality(Owned') \in Nat /\ Cardinality(Owned) \in Nat
    BY <1>1, FS_CardinalityType DEF OwnedBound
  <1>3. QED
    BY <1>1, <1>2, PoolConstants DEF OwnedBound

\* Without idle children there are no more of them than slots.
LEMMA OwnedInSlots ==
  ASSUME PoolTypeOK', Owners', SlotsCounted', idle' = <<>>
  PROVE  OwnedBound'
  <1> DEFINE Busy == {r \in InSlot' : HasChild(r)' /\ request'[r].child \in Owned'}
             Has == [r \in Busy |-> request'[r].child]
  <1>1. IsFiniteSet(Busy) /\ Cardinality(Busy) <= Cardinality(InSlot')
    BY FS_Subset DEF SlotsCounted
  <1>2. Idles' = {}
    BY DEF Idles
  <1>3. \A c \in Owned' : \E r \in Busy : Has[r] = c
    <2> SUFFICES ASSUME NEW c \in Owned' PROVE \E r \in Busy : Has[r] = c
      OBVIOUS
    <2>1. PICK r \in Calls : HasChild(r)' /\ request'[r].child = c
      BY <1>2 DEF Owners
    <2>2. r \in Busy
      BY <2>1 DEF InSlot, HasChild
    <2>3. QED
      BY <2>1, <2>2
  <1>4. Has \in Surjection(Busy, Owned')
    BY <1>3, Fun_IsSurj
  <1>5. IsFiniteSet(Owned') /\ Cardinality(Owned') <= Cardinality(Busy)
    BY <1>1, <1>4, FS_Surjection
  <1>6. Cardinality(Owned') \in Nat /\ Cardinality(Busy) \in Nat /\ Cardinality(InSlot') \in Nat
    BY <1>1, <1>5, FS_CardinalityType DEF SlotsCounted
  <1>7. QED
    BY <1>1, <1>5, <1>6, PoolConstants DEF OwnedBound, SlotsCounted

LEMMA TouchedOK ==
  ASSUME PoolInv, PoolTypeOK', NEW T \in SUBSET Calls, NEW c, Aside(T, c),
         \A m, n \in DOMAIN idle' : idle'[m] = idle'[n] => m = n,
         SlotsCounted', OwnedBound',
         \A q \in T : CallOK(q)', c \in Children => ChildOK(c)'
  PROVE  PoolInv'
  <1>1. /\ Owners'
        /\ \A q \in Calls \ T : CallOK(q)'
        /\ \A d \in Children \ {c} : ChildOK(d)'
    BY AsideKeeps
  <1>2. QED
    BY <1>1 DEF PoolInv

LEMMA CallTouched ==
  ASSUME PoolInv, PoolTypeOK', NEW r \in Calls, NEW c, Aside({r}, c),
         \A m, n \in DOMAIN idle' : idle'[m] = idle'[n] => m = n,
         SlotsCounted', OwnedBound', CallOK(r)', c \in Children => ChildOK(c)'
  PROVE  PoolInv'
  <1>1. {r} \in SUBSET Calls /\ \A q \in {r} : CallOK(q)'
    OBVIOUS
  <1>2. QED
    BY <1>1, TouchedOK

LEMMA ChildTouched ==
  ASSUME PoolInv, PoolTypeOK', NEW c, Aside({}, c),
         \A m, n \in DOMAIN idle' : idle'[m] = idle'[n] => m = n,
         SlotsCounted', OwnedBound', c \in Children => ChildOK(c)'
  PROVE  PoolInv'
  <1>1. {} \in SUBSET Calls /\ \A q \in {} : CallOK(q)'
    OBVIOUS
  <1>2. QED
    BY <1>1, TouchedOK

LEMMA TakeSlotStep ==
  ASSUME PoolInv, NEW r \in Calls, TakeSlot(r)
  PROVE  PoolInv'
  <1> USE DEF TakeSlot
  <1>1. CallOK(r) /\ request[r] \in Progress /\ path \in File
    BY DEF PoolInv, PoolTypeOK, File
  <1>2. request'[r] = [request[r] EXCEPT !.pc = "borrow", !.named = {path}]
    BY DEF PoolInv, PoolTypeOK
  <1>3. \A q \in Calls \ {r} : request'[q] = request[q]
    BY DEF PoolInv, PoolTypeOK
  <1>4. request'[r] \in Progress
    <2>1. {path} \in SUBSET File
      BY <1>1
    <2>2. request[r] \in Progress /\ request'[r] = [request[r] EXCEPT !.pc = "borrow", !.named = {path}]
      BY <1>1, <1>2
    <2> HIDE DEF TakeSlot
    <2>3. QED
      BY <2>1, <2>2 DEF Progress
  <1>5. PoolTypeOK'
    BY <1>4 DEF PoolInv, PoolTypeOK
  <1>6. request'[r].pc = "borrow" /\ request'[r].named = {path}
        /\ request'[r].child = NoChild /\ request'[r].got = NoReply
    BY <1>1, <1>2 DEF Progress, CallOK, HasChild
  <1>7. Idles' = Idles /\ Owned' = Owned
    BY DEF Idles, Owned
  <1>8. Aside({r}, NoChild)
    BY <1>3, <1>6, <1>7, PoolConstants DEF Aside, HasChild, Owned, PoolInv, CallOK
  <1>9. CallOK(r)'
    BY <1>6 DEF CallOK, HasChild, InSlot
  <1>10. SlotsCounted'
    <2>1. r \notin InSlot /\ InSlot' = InSlot \cup {r}
      BY <1>3, <1>6 DEF InSlot
    <2>2. QED
      BY <2>1, SlotTaken DEF PoolInv
  <1>11. OwnedBound'
    BY <1>7, OwnedFewer DEF PoolInv
  <1>13. \A m, n \in DOMAIN idle' : idle'[m] = idle'[n] => m = n
    BY DEF PoolInv, Owners
  <1>12. QED
    BY <1>5, <1>8, <1>9, <1>10, <1>11, <1>13, CallTouched, PoolConstants

LEMMA BorrowStep ==
  ASSUME PoolInv, NEW r \in Calls, Borrow(r)
  PROVE  PoolInv'
  <1>0. PICK c : c = LastIdle
    OBVIOUS
  <1> USE DEF Borrow
  <1>1. /\ CallOK(r) /\ request[r] \in Progress /\ path \in File
        /\ c \in Children /\ c \in Idles /\ child[c] \in Process /\ ChildOK(c)
        /\ idle' \in Seq(Children) /\ DbIsCurrent(c)
    BY <1>0, LastOfIdle DEF PoolInv, PoolTypeOK, File
  <1>2. /\ Idles' = Idles \ {c}
        /\ \A m, n \in DOMAIN idle' : idle'[m] = idle'[n] => m = n
    BY <1>0, WithoutLast DEF PoolInv
  <1>3. /\ request' = [request EXCEPT ![r] = Asked(r, c)]
        /\ child' = [child EXCEPT ![c].id = path, ![c].adopted = @ \/ Adopts(c),
                                  ![c].asked = Append(@, r)]
        /\ UNCHANGED <<used, shut, path, files, mishaps>> /\ request[r].pc = "borrow"
    BY <1>0
  <1> USE DEF Asked
  <1> HIDE DEF Borrow
  <1>4. /\ request'[r] = [request[r] EXCEPT !.pc = "wait", !.child = c]
        /\ \A q \in Calls \ {r} : request'[q] = request[q]
    BY <1>3 DEF PoolInv, PoolTypeOK
  <1>5. child[c].asked = <<>> /\ child[c].out = <<>> /\ child[c].state \in {"alive", "dead"}
    BY <1>1 DEF ChildOK, Still
  <1>6. /\ child'[c] = [child[c] EXCEPT !.id = path,
                             !.adopted = child[c].adopted \/ Adopts(c), !.asked = <<r>>]
        /\ \A d \in Children \ {c} : child'[d] = child[d]
    BY <1>1, <1>3, <1>5, OneSeq DEF PoolInv, PoolTypeOK
  <1>7. <<r>> \in Seq(Calls)
    OBVIOUS
  <1>8. request'[r] \in Progress /\ child'[c] \in Process
    BY <1>1, <1>4, <1>6, <1>7 DEF Progress, Process
  <1>9. PoolTypeOK'
    BY <1>1, <1>3, <1>8 DEF PoolInv, PoolTypeOK
  <1>10. /\ request'[r].pc = "wait" /\ request'[r].child = c
         /\ request'[r].named = request[r].named /\ request'[r].got = request[r].got
         /\ child'[c].id = path /\ child'[c].asked = <<r>> /\ child'[c].out = <<>>
         /\ child'[c].state = child[c].state
         /\ child'[c].file = child[c].file
         /\ child'[c].adopted = (child[c].adopted \/ Adopts(c))
    BY <1>1, <1>4, <1>5, <1>6 DEF Progress, Process
  <1>11. Aside({r}, c)
    BY <1>1, <1>2, <1>3, <1>4, <1>6, <1>10 DEF Aside, HasChild, PoolInv, CallOK
  <1>12. child'[c].adopted \/ child[c].file \in {NoFile, path}
    BY <1>1, <1>10 DEF ChildOK, DbIsCurrent, Adopts
  <1>13. CallOK(r)'
    <2>1. path \in request[r].named /\ request[r].got = NoReply
      BY <1>1, <1>3 DEF CallOK, InSlot
    <2>2. InTurn(r)'
      BY <1>10 DEF InTurn, Mine
    <2>3. Mine(r)' = child'[c]
      BY <1>10 DEF Mine
    <2>4. /\ Mine(r)'.state \in {"alive", "dead"}
          /\ Mine(r)'.adopted \/ Mine(r)'.file \in request'[r].named \cup {NoFile}
      BY <1>5, <1>10, <1>12, <2>1, <2>3
    <2>5. path' \in request'[r].named /\ c \in Children /\ c \notin Idles'
      BY <1>1, <1>2, <1>3, <1>10, <2>1
    <2>6. QED
      BY <1>10, <2>1, <2>2, <2>4, <2>5 DEF CallOK, HasChild
  <1>14. ChildOK(c)'
    BY <1>1, <1>2, <1>3, <1>5, <1>10, <1>12 DEF ChildOK, PoolInv, PoolTypeOK
  <1>15. SlotsCounted'
    <2>1. InSlot' = InSlot
      BY <1>3, <1>4, <1>10 DEF InSlot
    <2>2. QED
      BY <1>3, <2>1, SlotKept DEF PoolInv
  <1>16. OwnedBound'
    <2>1. Owned' \subseteq Owned
      BY <1>6, <1>10 DEF Owned
    <2>2. QED
      BY <2>1, OwnedFewer DEF PoolInv
  <1>17. QED
    BY <1>2, <1>9, <1>11, <1>13, <1>14, <1>15, <1>16, CallTouched

LEMMA BorrowStaleStep ==
  ASSUME PoolInv, NEW r \in Calls, BorrowStale(r)
  PROVE  PoolInv'
  <1>0. PICK c : c = LastIdle
    OBVIOUS
  <1> USE DEF BorrowStale
  <1>1. c \in Children /\ c \in Idles /\ idle' \in Seq(Children)
    BY <1>0, LastOfIdle DEF PoolInv
  <1>2. /\ Idles' = Idles \ {c}
        /\ \A m, n \in DOMAIN idle' : idle'[m] = idle'[n] => m = n
    BY <1>0, WithoutLast DEF PoolInv
  <1>3. /\ child' = [child EXCEPT ![c] = Gone]
        /\ UNCHANGED <<used, shut, request, path, files, mishaps>>
    BY <1>0
  <1> HIDE DEF BorrowStale
  <1>4. child'[c] = Gone /\ \A d \in Children \ {c} : child'[d] = child[d]
    BY <1>1, <1>3 DEF PoolInv, PoolTypeOK
  <1>5. Gone \in Process
    BY DEF Gone, Process, File
  <1>6. PoolTypeOK'
    BY <1>1, <1>3, <1>5 DEF PoolInv, PoolTypeOK
  <1>7. c \notin Owned' /\ Owned' \subseteq Owned
    BY <1>4 DEF Owned, Gone
  <1>8. Aside({}, c)
    BY <1>1, <1>2, <1>3, <1>4, <1>7 DEF Aside, PoolInv, CallOK
  <1>9. ChildOK(c)'
    BY <1>2, <1>4 DEF ChildOK, Gone
  <1>10. InSlot' = InSlot
    BY <1>3 DEF InSlot
  <1>11. SlotsCounted' /\ OwnedBound'
    BY <1>3, <1>7, <1>10, SlotKept, OwnedFewer DEF PoolInv
  <1>12. QED
    BY <1>2, <1>6, <1>8, <1>9, <1>11, ChildTouched

\* The last step of a call, whatever becomes of its child.
LEMMA CallEnds ==
  ASSUME PoolInv, NEW r \in InSlot, NEW c, c = request[r].child,
         used' = used - 1, request' = [request EXCEPT ![r] = Over],
         UNCHANGED <<idle, shut, path, files>>, mishaps' \in Int,
         child' \in [Children -> Process],
         \A d \in Children \ {c} : child'[d] = child[d],
         c \in Children => c \notin Owned' /\ ChildOK(c)'
  PROVE  PoolInv'
  <1>1. r \in Calls /\ CallOK(r) /\ request[r] \in Progress
    BY DEF InSlot, PoolInv, PoolTypeOK
  <1>2. request'[r] = Over /\ \A q \in Calls \ {r} : request'[q] = request[q]
    BY <1>1 DEF PoolInv, PoolTypeOK
  <1>3. Over \in Progress
    BY DEF Over, Progress, NoReply, ReplyType, File
  <1>4. PoolTypeOK'
    BY <1>1, <1>3 DEF PoolInv, PoolTypeOK
  <1>5. Idles' = Idles /\ Owned' \subseteq Owned /\ c \notin Owned'
    BY DEF Idles, Owned
  <1>6. \A q \in Calls \ {r} : HasChild(q) => request[q].child # c
    BY <1>1, PoolConstants DEF PoolInv, Owners, CallOK
  <1>7. Aside({r}, c)
    BY <1>2, <1>5, <1>6 DEF Aside, HasChild, Over
  <1>8. CallOK(r)'
    BY <1>2 DEF CallOK, Over, HasChild, InSlot
  <1>9. InSlot' = InSlot \ {r}
    BY <1>1, <1>2 DEF InSlot, Over
  <1>10. SlotsCounted' /\ OwnedBound'
    BY <1>5, <1>9, SlotFreed, OwnedFewer DEF PoolInv
  <1>11. \A m, n \in DOMAIN idle' : idle'[m] = idle'[n] => m = n
    BY DEF PoolInv, Owners
  <1>12. QED
    BY <1>1, <1>4, <1>7, <1>8, <1>10, <1>11, CallTouched

LEMMA GoneOK ==
  ASSUME PoolInv, NEW c \in Children, c \notin Idles', child' = [child EXCEPT ![c] = Gone]
  PROVE  /\ child' \in [Children -> Process]
         /\ \A d \in Children \ {c} : child'[d] = child[d]
         /\ c \notin Owned' /\ ChildOK(c)'
  <1>1. Gone \in Process
    BY DEF Gone, Process, File
  <1>2. child'[c] = Gone /\ child' \in [Children -> Process]
        /\ \A d \in Children \ {c} : child'[d] = child[d]
    BY <1>1 DEF PoolInv, PoolTypeOK
  <1>3. QED
    BY <1>2 DEF ChildOK, Owned, Gone

LEMMA StartRefusedStep ==
  ASSUME PoolInv, NEW r \in Calls, StartRefused(r) \/ (request[r].pc = "slot" /\ Put(r))
  PROVE  PoolInv'
  <1>1. /\ r \in InSlot /\ request[r].pc \in {"borrow", "slot"}
        /\ used' = used - 1 /\ request' = [request EXCEPT ![r] = Over]
        /\ UNCHANGED <<idle, shut, path, files>> /\ mishaps' \in Int /\ child' = child
    BY DEF StartRefused, Put, InSlot, PoolInv, PoolTypeOK
  <1>2. request[r].child = NoChild
    BY <1>1 DEF PoolInv, CallOK, HasChild
  <1>3. child' \in [Children -> Process]
    BY <1>1 DEF PoolInv, PoolTypeOK
  <1>4. QED
    BY <1>1, <1>2, <1>3, CallEnds, PoolConstants

LEMMA RetireStep ==
  ASSUME PoolInv, NEW r \in Calls, StartFails(r) \/ Breaks(r) \/ Deadline(r)
  PROVE  PoolInv'
  <1>1. /\ r \in InSlot /\ HasChild(r)
        /\ used' = used - 1 /\ request' = [request EXCEPT ![r] = Over]
        /\ UNCHANGED <<idle, shut, path, files>> /\ mishaps' \in Int
        /\ child' = [child EXCEPT ![request[r].child] = Gone]
    BY DEF StartFails, Breaks, Deadline, Retire, Mishap, InSlot, HasChild, PoolInv, PoolTypeOK
  <1>2. PICK c \in Children : c = request[r].child /\ c \notin Idles
    BY <1>1 DEF PoolInv, CallOK
  <1>3. c \notin Idles'
    BY <1>1, <1>2 DEF Idles
  <1>4. /\ child' \in [Children -> Process]
        /\ \A d \in Children \ {c} : child'[d] = child[d]
        /\ c \notin Owned' /\ ChildOK(c)'
    BY <1>1, <1>2, <1>3, GoneOK
  <1>5. QED
    BY <1>1, <1>2, <1>4, CallEnds

LEMMA AbandonStartStep ==
  ASSUME PoolInv, NEW r \in Calls, AbandonStart(r)
  PROVE  PoolInv'
  <1> USE DEF AbandonStart
  <1>1. r \in InSlot /\ HasChild(r) /\ mishaps' \in Int
    BY DEF InSlot, HasChild, PoolInv, PoolTypeOK
  <1>2. PICK c \in Children : c = request[r].child /\ c \notin Idles
    BY <1>1 DEF PoolInv, CallOK
  <1>3. child[c] \in Process /\ ChildOK(c) /\ child[c].state = "starting"
    BY <1>2 DEF PoolInv, PoolTypeOK, CallOK, Mine
  <1>4. /\ child'[c] = [child[c] EXCEPT !.state = "abandoned"]
        /\ \A d \in Children \ {c} : child'[d] = child[d]
    BY <1>2 DEF PoolInv, PoolTypeOK
  <1>5. child'[c] \in Process /\ child'[c].state = "abandoned"
        /\ child'[c].id = child[c].id /\ child'[c].file = child[c].file
        /\ child'[c].asked = child[c].asked /\ child'[c].out = child[c].out
    BY <1>3, <1>4 DEF Process
  <1>6. child' \in [Children -> Process]
    BY <1>2, <1>5 DEF PoolInv, PoolTypeOK
  <1>7. c \notin Idles' /\ c \notin Owned'
    BY <1>2, <1>5 DEF Idles, Owned
  <1>8. ChildOK(c)'
    BY <1>3, <1>5, <1>7 DEF ChildOK, Still
  <1>9. QED
    BY <1>1, <1>2, <1>4, <1>6, <1>7, <1>8, CallEnds

LEMMA BeginStartStep ==
  ASSUME PoolInv, NEW r \in Calls, BeginStart(r)
  PROVE  PoolInv'
  <1>1. PICK c \in Children : c = NewChild /\ child[c].state = "none"
    BY DEF BeginStart, NewChild
  <1>2. /\ request[r].pc = "borrow" /\ idle = <<>>
        /\ child' = [child EXCEPT ![c].state = "starting", ![c].id = path]
        /\ request' = [request EXCEPT ![r].pc = "start", ![r].child = c]
        /\ UNCHANGED <<used, idle, shut, path, files, mishaps>>
    BY <1>1 DEF BeginStart
  <1>3. /\ request'[r] = [request[r] EXCEPT !.pc = "start", !.child = c]
        /\ \A q \in Calls \ {r} : request'[q] = request[q]
    BY <1>2 DEF PoolInv, PoolTypeOK
  <1>4. child[c] = Gone /\ Gone \in Process /\ path \in File /\ c \notin Idles
    BY <1>1, <1>2 DEF PoolInv, PoolTypeOK, ChildOK, Gone, Process, File, Idles
  <1>5. /\ child'[c] = [Gone EXCEPT !.state = "starting", !.id = path]
        /\ \A d \in Children \ {c} : child'[d] = child[d]
    BY <1>1, <1>2, <1>4 DEF PoolInv, PoolTypeOK
  <1>6. CallOK(r) /\ request[r] \in Progress
    BY DEF PoolInv, PoolTypeOK
  <1>7. request'[r] \in Progress
    BY <1>3, <1>6 DEF Progress
  <1>8. child'[c] \in Process
    BY <1>4, <1>5 DEF Process
  <1>9. PoolTypeOK'
    BY <1>1, <1>2, <1>7, <1>8 DEF PoolInv, PoolTypeOK
  <1>10. /\ request'[r].pc = "start" /\ request'[r].child = c
         /\ request'[r].named = request[r].named /\ request'[r].got = request[r].got
    BY <1>3, <1>6 DEF Progress
  <1>11. /\ child'[c].state = "starting" /\ child'[c].id = path
         /\ child'[c].file = NoFile
         /\ child'[c].asked = <<>> /\ child'[c].out = <<>>
    BY <1>5 DEF Gone
  <1>12. Idles' = {}
    BY <1>2 DEF Idles
  <1>13. \A q \in Calls : HasChild(q) => request[q].child # c
    BY <1>1 DEF PoolInv, CallOK, HasChild, Mine
  <1>14. Aside({r}, c)
    <2>1. HasChild(r)' /\ ~HasChild(r) /\ Idles = {}
      BY <1>2, <1>10 DEF HasChild, Idles
    <2>2. QED
      BY <1>2, <1>3, <1>5, <1>10, <1>12, <1>13, <2>1 DEF Aside
  <1>15. CallOK(r)'
    <2>1. path \in request[r].named /\ request[r].got = NoReply
      BY <1>2, <1>6 DEF CallOK, InSlot
    <2>2. Mine(r)'.state = "starting"
      BY <1>10, <1>11 DEF Mine
    <2>3. path' \in request'[r].named /\ request'[r].got = NoReply
      BY <1>2, <1>10, <2>1
    <2>4. QED
      BY <1>1, <1>10, <1>12, <2>2, <2>3 DEF CallOK, HasChild
  <1>16. ChildOK(c)'
    BY <1>2, <1>11, <1>12 DEF ChildOK, Still, PoolInv, PoolTypeOK
  <1>17. SlotsCounted'
    <2>1. InSlot' = InSlot
      BY <1>2, <1>3, <1>10 DEF InSlot
    <2>2. QED
      BY <1>2, <2>1, SlotKept DEF PoolInv
  <1>18. \A m, n \in DOMAIN idle' : idle'[m] = idle'[n] => m = n
    BY <1>2 DEF PoolInv, Owners
  <1>19. Owners'
    BY <1>14, <1>18, AsideKeeps
  <1>20. OwnedBound'
    BY <1>2, <1>9, <1>17, <1>19, OwnedInSlots
  <1>21. QED
    BY <1>9, <1>14, <1>15, <1>16, <1>17, <1>18, <1>20, CallTouched

LEMMA StartedStep ==
  ASSUME PoolInv, NEW r \in Calls, Started(r)
  PROVE  PoolInv'
  <1>1. request[r].pc = "start" /\ HasChild(r) /\ CallOK(r) /\ request[r] \in Progress
    BY DEF Started, HasChild, PoolInv, PoolTypeOK
  <1>2. PICK c \in Children : c = request[r].child
    BY <1>1 DEF CallOK
  <1>3. /\ child' = [child EXCEPT ![c].state = "alive", ![c].asked = <<r>>]
        /\ request' = [request EXCEPT ![r].pc = "wait"]
        /\ UNCHANGED <<used, idle, shut, path, files, mishaps>>
    BY <1>2 DEF Started
  <1>4. /\ child[c] \in Process /\ ChildOK(c) /\ child[c].state = "starting"
        /\ c \notin Idles /\ Still(c) /\ child[c].file = NoFile
    BY <1>1, <1>2 DEF PoolInv, PoolTypeOK, CallOK, ChildOK, Mine
  <1>5. /\ request'[r] = [request[r] EXCEPT !.pc = "wait"]
        /\ \A q \in Calls \ {r} : request'[q] = request[q]
        /\ child'[c] = [child[c] EXCEPT !.state = "alive", !.asked = <<r>>]
        /\ \A d \in Children \ {c} : child'[d] = child[d]
    BY <1>3 DEF PoolInv, PoolTypeOK
  <1>6. <<r>> \in Seq(Calls)
    OBVIOUS
  <1>7. request'[r] \in Progress /\ child'[c] \in Process
    BY <1>1, <1>4, <1>5, <1>6 DEF Progress, Process
  <1>8. PoolTypeOK'
    BY <1>3, <1>7 DEF PoolInv, PoolTypeOK
  <1>9. /\ request'[r].pc = "wait" /\ request'[r].child = c
        /\ request'[r].named = request[r].named /\ request'[r].got = request[r].got
        /\ child'[c].state = "alive" /\ child'[c].asked = <<r>> /\ child'[c].out = <<>>
        /\ child'[c].id = child[c].id /\ child'[c].adopted = child[c].adopted
        /\ child'[c].file = NoFile
    BY <1>1, <1>2, <1>4, <1>5 DEF Progress, Process, Still
  <1>10. Idles' = Idles /\ HasChild(r)'
    BY <1>3, <1>9 DEF Idles, HasChild
  <1>11. \A q \in Calls \ {r} : HasChild(q) => request[q].child # c
    BY <1>1, <1>2 DEF PoolInv, Owners
  <1>12. Aside({r}, c)
    BY <1>2, <1>3, <1>5, <1>9, <1>10, <1>11 DEF Aside
  <1>13. CallOK(r)'
    <2>1. path' \in request'[r].named /\ request'[r].got = NoReply
      BY <1>1, <1>3, <1>9 DEF CallOK, InSlot
    <2>2. Mine(r)' = child'[c]
      BY <1>9 DEF Mine
    <2>3. InTurn(r)' /\ Mine(r)'.state = "alive" /\ Mine(r)'.file = NoFile
      BY <1>9, <2>2 DEF InTurn
    <2>4. QED
      BY <1>4, <1>9, <1>10, <2>1, <2>3 DEF CallOK, HasChild
  <1>14. ChildOK(c)'
    BY <1>3, <1>4, <1>9, <1>10 DEF ChildOK
  <1>15. InSlot' = InSlot
    <2>1. r \in InSlot' /\ r \in InSlot
      BY <1>1, <1>9 DEF InSlot
    <2>2. \A q \in Calls \ {r} : q \in InSlot' <=> q \in InSlot
      BY <1>5 DEF InSlot
    <2>3. QED
      BY <2>1, <2>2 DEF InSlot
  <1>16. Owned' \subseteq Owned
    BY <1>4, <1>5 DEF Owned
  <1>17. SlotsCounted' /\ OwnedBound'
    BY <1>3, <1>15, <1>16, SlotKept, OwnedFewer DEF PoolInv
  <1>18. \A m, n \in DOMAIN idle' : idle'[m] = idle'[n] => m = n
    BY <1>3 DEF PoolInv, Owners
  <1>19. QED
    BY <1>8, <1>12, <1>13, <1>14, <1>17, <1>18, CallTouched

LEMMA ReadReplyStep ==
  ASSUME PoolInv, NEW r \in Calls, ReadReply(r)
  PROVE  PoolInv'
  <1>1. request[r].pc = "wait" /\ HasChild(r) /\ CallOK(r) /\ request[r] \in Progress
    BY DEF ReadReply, HasChild, PoolInv, PoolTypeOK
  <1>2. PICK c \in Children : c = request[r].child
    BY <1>1 DEF CallOK
  <1>3. /\ child' = [child EXCEPT ![c].out = Tail(@)] /\ child[c].out # <<>>
        /\ request' = [request EXCEPT ![r].pc = "put", ![r].got = Head(child[c].out)]
        /\ UNCHANGED <<used, idle, shut, path, files, mishaps>>
    BY <1>2 DEF ReadReply, Mine
  <1>4. /\ child[c] \in Process /\ ChildOK(c) /\ child[c].state \in {"alive", "dead"}
        /\ c \notin Idles
    BY <1>1, <1>2 DEF PoolInv, PoolTypeOK, CallOK, Mine
  <1>5. PICK m \in ReplyType : /\ child[c].asked = <<>> /\ child[c].out = <<m>> /\ m.to = r
                               /\ m.adopted \/ m.file \in request[r].named
    BY <1>1, <1>2, <1>3 DEF CallOK, InTurn, Mine
  <1>6. /\ request'[r] = [request[r] EXCEPT !.pc = "put", !.got = m]
        /\ \A q \in Calls \ {r} : request'[q] = request[q]
        /\ child'[c] = [child[c] EXCEPT !.out = <<>>]
        /\ \A d \in Children \ {c} : child'[d] = child[d]
    BY <1>3, <1>5, OneSeq DEF PoolInv, PoolTypeOK
  <1>7. request'[r] \in Progress /\ child'[c] \in Process
    <2>1. <<>> \in Seq(ReplyType)
      OBVIOUS
    <2>2. request'[r] \in Progress
      BY <1>1, <1>5, <1>6 DEF Progress
    <2>3. child'[c] \in Process
      BY <1>4, <1>6, <2>1 DEF Process
    <2>4. QED
      BY <2>2, <2>3
  <1>8. PoolTypeOK'
    <2>1. request' \in [Calls -> Progress]
      BY <1>3, <1>6, <1>7 DEF PoolInv, PoolTypeOK
    <2>2. child' \in [Children -> Process]
      BY <1>3, <1>6, <1>7 DEF PoolInv, PoolTypeOK
    <2>3. QED
      BY <1>3, <2>1, <2>2 DEF PoolInv, PoolTypeOK
  <1>9. /\ request'[r].pc = "put" /\ request'[r].child = c
        /\ request'[r].named = request[r].named /\ request'[r].got = m
        /\ child'[c].state = child[c].state /\ child'[c].asked = <<>> /\ child'[c].out = <<>>
        /\ child'[c].id = child[c].id /\ child'[c].adopted = child[c].adopted
        /\ child'[c].file = child[c].file
    BY <1>1, <1>2, <1>4, <1>5, <1>6 DEF Progress, Process
  <1>10. Idles' = Idles /\ HasChild(r)'
    BY <1>3, <1>9 DEF Idles, HasChild
  <1>11. \A q \in Calls \ {r} : HasChild(q) => request[q].child # c
    BY <1>1, <1>2 DEF PoolInv, Owners
  <1>12. Aside({r}, c)
    BY <1>2, <1>3, <1>6, <1>9, <1>10, <1>11 DEF Aside
  <1>13. CallOK(r)'
    <2>1. path' \in request'[r].named
      BY <1>1, <1>3, <1>9 DEF CallOK, InSlot
    <2>2. Mine(r)'.state \in {"alive", "dead"} /\ (Still(request[r].child))'
      BY <1>4, <1>9 DEF Mine, Still
    <2>3. request'[r].got.to = r
          /\ (request'[r].got.adopted \/ request'[r].got.file \in request'[r].named)
      BY <1>5, <1>9
    <2>4. QED
      BY <1>4, <1>9, <1>10, <2>1, <2>2, <2>3 DEF CallOK, HasChild
  <1>14. ChildOK(c)'
    BY <1>3, <1>4, <1>9, <1>10 DEF ChildOK
  <1>15. InSlot' = InSlot
    BY <1>1, <1>6, <1>9 DEF InSlot
  <1>16. Owned' \subseteq Owned
    BY <1>6, <1>9 DEF Owned
  <1>17. SlotsCounted' /\ OwnedBound'
    BY <1>3, <1>15, <1>16, SlotKept, OwnedFewer DEF PoolInv
  <1>18. \A k, n \in DOMAIN idle' : idle'[k] = idle'[n] => k = n
    BY <1>3 DEF PoolInv, Owners
  <1>19. QED
    BY <1>8, <1>12, <1>13, <1>14, <1>17, <1>18, CallTouched

LEMMA PutStep ==
  ASSUME PoolInv, NEW r \in Calls, request[r].pc = "put", Put(r)
  PROVE  PoolInv'
  <1>1. HasChild(r) /\ CallOK(r) /\ request[r] \in Progress
    BY DEF HasChild, PoolInv, PoolTypeOK
  <1>2. PICK c \in Children : c = request[r].child
    BY <1>1 DEF CallOK
  <1>3. /\ idle' = Append(idle, c)
        /\ request' = [request EXCEPT ![r].pc = "slot", ![r].child = NoChild]
        /\ UNCHANGED <<used, shut, child, path, files, mishaps>>
    BY <1>2 DEF Put
  <1>4. /\ child[c] \in Process /\ ChildOK(c) /\ child[c].state \in {"alive", "dead"}
        /\ c \notin Idles /\ Still(c)
    BY <1>1, <1>2 DEF PoolInv, PoolTypeOK, CallOK, Mine
  <1>5. /\ idle' \in Seq(Children) /\ Idles' = Idles \cup {c}
        /\ \A k, n \in DOMAIN idle' : idle'[k] = idle'[n] => k = n
    BY <1>3, <1>4, WithOneMore DEF PoolInv
  <1>6. /\ request'[r] = [request[r] EXCEPT !.pc = "slot", !.child = NoChild]
        /\ \A q \in Calls \ {r} : request'[q] = request[q]
    BY <1>3 DEF PoolInv, PoolTypeOK
  <1>7. request'[r] \in Progress
    BY <1>1, <1>6 DEF Progress
  <1>8. PoolTypeOK'
    BY <1>3, <1>5, <1>7 DEF PoolInv, PoolTypeOK
  <1>9. /\ request'[r].pc = "slot" /\ request'[r].child = NoChild
        /\ request'[r].named = request[r].named /\ request'[r].got = request[r].got
    BY <1>1, <1>6 DEF Progress
  <1>10. \A q \in Calls \ {r} : HasChild(q) => request[q].child # c
    BY <1>1, <1>2 DEF PoolInv, Owners
  <1>11. Aside({r}, c)
    <2>1. ~HasChild(r)' /\ c \in Idles'
      BY <1>5, <1>9 DEF HasChild
    <2>2. QED
      BY <1>2, <1>3, <1>5, <1>6, <1>10, <2>1 DEF Aside
  <1>12. CallOK(r)'
    BY <1>1, <1>3, <1>9 DEF CallOK, HasChild, InSlot
  <1>13. ChildOK(c)'
    BY <1>3, <1>4 DEF ChildOK, Still
  <1>14. InSlot' = InSlot /\ Owned' = Owned
    BY <1>3, <1>6, <1>9 DEF InSlot, Owned
  <1>15. SlotsCounted' /\ OwnedBound'
    BY <1>3, <1>14, SlotKept, OwnedFewer DEF PoolInv
  <1>16. QED
    BY <1>5, <1>8, <1>11, <1>12, <1>13, <1>15, CallTouched

LEMMA EndAbandonedStep ==
  ASSUME PoolInv, NEW c \in Children, EndAbandoned(c)
  PROVE  PoolInv'
  <1> USE DEF EndAbandoned
  <1>1. c \notin Idles /\ Idles' = Idles /\ \A q \in Calls : HasChild(q) => request[q].child # c
    BY DEF Idles, PoolInv, ChildOK, CallOK, HasChild, Mine
  <1>2. /\ child' \in [Children -> Process]
        /\ \A d \in Children \ {c} : child'[d] = child[d]
        /\ c \notin Owned' /\ ChildOK(c)'
    BY <1>1, GoneOK
  <1>3. PoolTypeOK'
    BY <1>2 DEF PoolInv, PoolTypeOK
  <1>4. Aside({}, c)
    BY <1>1, <1>2 DEF Aside
  <1>5. InSlot' = InSlot /\ Owned' \subseteq Owned
    BY <1>2 DEF InSlot, Owned
  <1>6. SlotsCounted' /\ OwnedBound'
    BY <1>5, SlotKept, OwnedFewer DEF PoolInv
  <1>7. \A k, n \in DOMAIN idle' : idle'[k] = idle'[n] => k = n
    BY DEF PoolInv, Owners
  <1>8. QED
    BY <1>2, <1>3, <1>4, <1>6, <1>7, ChildTouched

LEMMA ChildDiesStep ==
  ASSUME PoolInv, NEW c \in Children, ChildDies(c)
  PROVE  PoolInv'
  <1> DEFINE T == {q \in Calls : HasChild(q) /\ request[q].child = c}
  <1>1. /\ child[c].state = "alive" /\ child' = [child EXCEPT ![c].state = "dead"]
        /\ mishaps' \in Int /\ UNCHANGED <<used, idle, shut, request, path, files>>
    BY DEF ChildDies, Mishap, PoolInv, PoolTypeOK
  <1>2. /\ child'[c] = [child[c] EXCEPT !.state = "dead"]
        /\ \A d \in Children \ {c} : child'[d] = child[d]
        /\ child[c] \in Process /\ ChildOK(c)
    BY <1>1 DEF PoolInv, PoolTypeOK
  <1>3. /\ child'[c] \in Process /\ child'[c].state = "dead"
        /\ child'[c].asked = child[c].asked /\ child'[c].out = child[c].out
        /\ child'[c].id = child[c].id /\ child'[c].adopted = child[c].adopted
        /\ child'[c].file = child[c].file
    BY <1>2 DEF Process
  <1>4. PoolTypeOK'
    BY <1>1, <1>3 DEF PoolInv, PoolTypeOK
  <1>5. Idles' = Idles /\ InSlot' = InSlot /\ Owned' \subseteq Owned /\ c \notin Owned'
    BY <1>1, <1>2, <1>3 DEF Idles, InSlot, Owned
  <1>6. Aside(T, c)
    <2>1. \A q, r \in T : q = r
      BY DEF PoolInv, Owners
    <2>2. QED
      BY <1>1, <1>2, <1>5, <2>1 DEF Aside
  <1>7. ChildOK(c)'
    BY <1>1, <1>2, <1>3, <1>5 DEF ChildOK, Still
  <1>8. ASSUME NEW q \in T PROVE CallOK(q)'
    <2>1. /\ CallOK(q) /\ HasChild(q) /\ request'[q] = request[q] /\ request[q].child = c
          /\ Mine(q) = child[c] /\ Mine(q)' = child'[c] /\ path' = path
      BY <1>1 DEF PoolInv, Mine
    <2>2. request[q].pc \in {"wait", "put"}
      BY <1>1, <2>1 DEF CallOK, HasChild
    <2>3. Mine(q)'.state = "dead" /\ Mine(q)'.adopted = Mine(q).adopted
          /\ Mine(q)'.file = Mine(q).file
          /\ InTurn(q)' = InTurn(q) /\ (Still(request[q].child))' = Still(request[q].child)
      BY <1>3, <2>1 DEF InTurn, Still
    <2>4. QED
      BY <1>5, <2>1, <2>2, <2>3 DEF CallOK, HasChild
  <1>9. SlotsCounted' /\ OwnedBound'
    BY <1>1, <1>5, SlotKept, OwnedFewer DEF PoolInv
  <1>10. \A k, n \in DOMAIN idle' : idle'[k] = idle'[n] => k = n
    BY <1>1 DEF PoolInv, Owners
  <1>11. T \in SUBSET Calls
    OBVIOUS
  <1> HIDE DEF T
  <1>12. QED
    BY <1>4, <1>6, <1>7, <1>8, <1>9, <1>10, <1>11, TouchedOK

\* The one who waits for what a child is about to answer.
LEMMA Waiting ==
  ASSUME PoolInv, NEW c \in Children, child[c].state = "alive", child[c].asked # <<>>
  PROVE  \E r \in Calls : /\ request[r].pc = "wait" /\ request[r].child = c /\ c \notin Idles
                          /\ child[c].asked = <<r>> /\ child[c].out = <<>>
                          /\ child[c].adopted \/ child[c].file \in request[r].named \cup {NoFile}
                          /\ path \in request[r].named /\ request[r].got = NoReply
  <1>1. c \in Owned /\ c \notin Idles
    BY DEF Owned, PoolInv, ChildOK, Still
  <1>2. PICK r \in Calls : HasChild(r) /\ request[r].child = c
    BY <1>1 DEF PoolInv, Owners
  <1>3. request[r].pc = "wait" /\ CallOK(r) /\ Mine(r) = child[c]
    BY <1>2 DEF PoolInv, CallOK, HasChild, Mine, Still
  <1>4. QED
    BY <1>1, <1>2, <1>3 DEF CallOK, InTurn, InSlot

LEMMA AnswersStep ==
  ASSUME PoolInv, NEW c \in Children, NEW health \in BOOLEAN, Serve(c, health),
         ~(child[c].file = NoFile /\ path = NoFile /\ ~health)
  PROVE  PoolInv'
  <1>1. PICK r \in Calls :
              /\ request[r].pc = "wait" /\ request[r].child = c /\ c \notin Idles
              /\ child[c].asked = <<r>> /\ child[c].out = <<>>
              /\ child[c].adopted \/ child[c].file \in request[r].named \cup {NoFile}
              /\ path \in request[r].named /\ request[r].got = NoReply
    BY Waiting DEF Serve
  <1>2. PICK f : f = IF child[c].file # NoFile THEN child[c].file ELSE path
    OBVIOUS
  <1>3. PICK m : m = [to |-> r, file |-> f, adopted |-> child[c].adopted]
    OBVIOUS
  <1>4. /\ child[c].state = "alive"
        /\ child' = [child EXCEPT ![c].file = f, ![c].asked = <<>>, ![c].out = <<m>>]
        /\ UNCHANGED <<used, idle, shut, request, path, files, mishaps>>
    <2>1. Head(child[c].asked) = r /\ Tail(child[c].asked) = <<>> /\ Append(child[c].out, m) = <<m>>
      BY <1>1, OneSeq
    <2>2. /\ child' = [child EXCEPT ![c].file = f, ![c].asked = Tail(@), ![c].out = Append(@, m)]
          /\ UNCHANGED <<used, idle, shut, request, path, files, mishaps>>
      BY <1>2, <1>3, <2>1 DEF Serve
    <2>3. QED
      BY <2>1, <2>2 DEF Serve, PoolInv, PoolTypeOK
  <1>5. child[c] \in Process /\ ChildOK(c) /\ CallOK(r) /\ path \in File
    BY DEF PoolInv, PoolTypeOK, File
  <1>6. f \in File /\ m \in ReplyType /\ (m.adopted \/ m.file \in request[r].named) /\ m.to = r
    BY <1>1, <1>2, <1>3, <1>5 DEF Process, ReplyType
  <1>7. /\ child'[c] = [child[c] EXCEPT !.file = f, !.asked = <<>>, !.out = <<m>>]
        /\ \A d \in Children \ {c} : child'[d] = child[d]
    BY <1>4 DEF PoolInv, PoolTypeOK
  <1>8. <<>> \in Seq(Calls) /\ <<m>> \in Seq(ReplyType)
    BY <1>6
  <1>9. /\ child'[c] \in Process /\ child'[c].state = "alive"
        /\ child'[c].asked = <<>> /\ child'[c].out = <<m>>
        /\ child'[c].id = child[c].id /\ child'[c].adopted = child[c].adopted
        /\ child'[c].file = f
    <2>1. child'[c] \in Process
      BY <1>5, <1>6, <1>7, <1>8 DEF Process
    <2>2. child'[c].state = child[c].state /\ child'[c].id = child[c].id
          /\ child'[c].adopted = child[c].adopted
      BY <1>5, <1>7 DEF Process
    <2>3. child'[c].file = f
      BY <1>5, <1>7 DEF Process
    <2>4. child'[c].asked = <<>>
      BY <1>5, <1>7 DEF Process
    <2>5. child'[c].out = <<m>>
      BY <1>5, <1>7 DEF Process
    <2>6. QED
      BY <1>4, <2>1, <2>2, <2>3, <2>4, <2>5
  <1>10. PoolTypeOK'
    BY <1>4, <1>9 DEF PoolInv, PoolTypeOK
  <1>11. Idles' = Idles /\ InSlot' = InSlot /\ Owned' \subseteq Owned /\ HasChild(r)' /\ HasChild(r)
    <2>1. Idles' = Idles /\ InSlot' = InSlot /\ HasChild(r)' /\ HasChild(r)
      BY <1>1, <1>4 DEF Idles, InSlot, HasChild
    <2>2. Owned' \subseteq Owned
      BY <1>4, <1>7 DEF Owned
    <2>3. QED
      BY <2>1, <2>2
  <1>12. \A q \in Calls \ {r} : HasChild(q) => request[q].child # c
    BY <1>1, <1>11 DEF PoolInv, Owners
  <1>13. Aside({r}, c)
    BY <1>1, <1>4, <1>7, <1>11, <1>12 DEF Aside
  <1>14. ChildOK(c)'
    BY <1>1, <1>2, <1>4, <1>5, <1>9, <1>11 DEF ChildOK
  <1>15. CallOK(r)'
    <2>1. /\ request'[r] = request[r] /\ Mine(r)' = child'[c] /\ path' = path
      BY <1>1, <1>4 DEF Mine
    <2>2. InTurn(r)'
      BY <1>6, <1>9, <2>1 DEF InTurn
    <2>3. Mine(r)'.adopted \/ Mine(r)'.file \in request'[r].named
      BY <1>3, <1>6, <1>9, <2>1
    <2>4. QED
      BY <1>1, <1>9, <1>11, <2>1, <2>2, <2>3 DEF CallOK, HasChild
  <1>16. SlotsCounted' /\ OwnedBound'
    BY <1>4, <1>11, SlotKept, OwnedFewer DEF PoolInv
  <1>17. \A k, n \in DOMAIN idle' : idle'[k] = idle'[n] => k = n
    BY <1>4 DEF PoolInv, Owners
  <1>18. QED
    BY <1>10, <1>13, <1>14, <1>15, <1>16, <1>17, CallTouched

\* The path comes to name f; c is the child that brought it about, if one did.
LEMMA Renamed ==
  ASSUME PoolInv, NEW f \in {NoFile, files + 1}, files' = files + 1, Names(f),
         idle' = idle, NEW c, \A d \in Children \ {c} : child'[d] = child[d]
  PROVE  /\ request' \in [Calls -> Progress] /\ files' \in Nat
         /\ path' = f /\ path' \in 1..files' \cup {NoFile}
         /\ InSlot' = InSlot /\ Idles' = Idles
         /\ \A q \in Calls : /\ request'[q].pc = request[q].pc
                             /\ request'[q].child = request[q].child
                             /\ request'[q].got = request[q].got
                             /\ request[q].named \subseteq request'[q].named
                             /\ q \in InSlot => path' \in request'[q].named
         /\ \A q \in Calls : ~(HasChild(q) /\ request[q].child = c) => CallOK(q)'
         /\ \A d \in Children \ {c} : ChildOK(d)'
  <1>1. files \in Nat /\ files + 1 \in Nat /\ f \in File /\ request \in [Calls -> Progress]
        /\ files + 1 \in 1..(files + 1)
    BY DEF PoolInv, PoolTypeOK, File
  <1>2. path' = f /\ files' \in Nat /\ path' \in 1..files' \cup {NoFile}
    BY <1>1 DEF Names
  <1>3. ASSUME NEW q \in Calls
        PROVE  /\ request'[q] \in Progress
               /\ request'[q].pc = request[q].pc
               /\ request'[q].child = request[q].child
               /\ request'[q].got = request[q].got
               /\ request[q].named \subseteq request'[q].named
               /\ q \in InSlot => path' \in request'[q].named
    <2>1. request[q] \in Progress
      BY <1>1
    <2>2. CASE q \in InSlot
      <3>1. request'[q] = [request[q] EXCEPT !.named = @ \cup {f}]
        BY <2>2 DEF Names
      <3>2. request[q].named \cup {f} \in SUBSET File
        BY <1>1, <2>1 DEF Progress
      <3>3. QED
        BY <1>2, <2>1, <3>1, <3>2 DEF Progress
    <2>3. CASE q \notin InSlot
      BY <2>1, <2>3 DEF Names
    <2>4. QED
      BY <2>2, <2>3
  <1>4. request' \in [Calls -> Progress]
    BY <1>3 DEF Names
  <1>5. InSlot' = InSlot /\ Idles' = Idles
    BY <1>3 DEF InSlot, Idles
  <1>6. ASSUME NEW q \in Calls, ~(HasChild(q) /\ request[q].child = c) PROVE CallOK(q)'
    <2>1. CallOK(q) /\ HasChild(q)' = HasChild(q) /\ (q \in InSlot' <=> q \in InSlot)
      BY <1>3, <1>5 DEF PoolInv, HasChild
    <2>2. HasChild(q) => Mine(q)' = Mine(q) /\ request[q].child \in Children
                         /\ (Still(request[q].child))' = Still(request[q].child)
      BY <1>3, <1>6, <2>1 DEF Mine, Still, CallOK
    <2>3. request[q].pc = "wait" => InTurn(q)'
      BY <1>3, <2>1, <2>2 DEF InTurn, HasChild, CallOK
    <2>4. request[q].pc = "wait" =>
             Mine(q)'.adopted \/ Mine(q)'.file \in request'[q].named \cup {NoFile}
      BY <1>3, <2>1, <2>2 DEF HasChild, CallOK
    <2>5. QED
      BY <1>3, <1>5, <2>1, <2>2, <2>3, <2>4 DEF CallOK, HasChild
  <1>7. ASSUME NEW d \in Children \ {c} PROVE ChildOK(d)'
    <2>1. ChildOK(d) /\ child'[d] = child[d]
      BY DEF PoolInv
    <2>2. child[d].id \in 1..files' \cup {NoFile} /\ (child[d].id = f => child[d].id = NoFile)
      BY <1>1, <2>1, PoolConstants DEF ChildOK
    <2>3. QED
      BY <1>2, <1>5, <2>1, <2>2 DEF ChildOK, Still
  <1>8. QED
    BY <1>2, <1>3, <1>4, <1>5, <1>6, <1>7

LEMMA PathMovesStep ==
  ASSUME PoolInv, NEW gone \in BOOLEAN, PathMoves(gone)
  PROVE  PoolInv'
  <1>1. PICK f \in {NoFile, files + 1} : Names(f)
    BY DEF PathMoves
  <1>2. /\ request' \in [Calls -> Progress] /\ files' \in Nat
        /\ path' \in 1..files' \cup {NoFile}
        /\ InSlot' = InSlot /\ Idles' = Idles
        /\ \A q \in Calls : request'[q].pc = request[q].pc /\ request'[q].child = request[q].child
        /\ \A q \in Calls : ~(HasChild(q) /\ request[q].child = NoChild) => CallOK(q)'
        /\ \A d \in Children \ {NoChild} : ChildOK(d)'
    BY <1>1, Renamed DEF PathMoves
  <1>3. PoolTypeOK'
    BY <1>2 DEF PathMoves, PoolInv, PoolTypeOK
  <1>4. \A q \in Calls : CallOK(q)'
    BY <1>2, PoolConstants DEF PoolInv, CallOK
  <1>5. \A d \in Children : ChildOK(d)'
    BY <1>2, PoolConstants
  <1>6. Owned' = Owned /\ \A q \in Calls : HasChild(q)' = HasChild(q)
    BY <1>2 DEF PathMoves, Owned, HasChild
  <1>7. Owners'
    BY <1>2, <1>6 DEF PathMoves, PoolInv, Owners
  <1>8. SlotsCounted' /\ OwnedBound'
    BY <1>2, <1>6, SlotKept, OwnedFewer DEF PathMoves, PoolInv
  <1>9. QED
    BY <1>3, <1>4, <1>5, <1>7, <1>8 DEF PoolInv

LEMMA CreatesStep ==
  ASSUME PoolInv, NEW c \in Children, NEW health \in BOOLEAN, Serve(c, health),
         child[c].file = NoFile /\ path = NoFile /\ ~health
  PROVE  PoolInv'
  <1>1. PICK r \in Calls :
              /\ request[r].pc = "wait" /\ request[r].child = c /\ c \notin Idles
              /\ child[c].asked = <<r>> /\ child[c].out = <<>>
              /\ path \in request[r].named /\ request[r].got = NoReply
    BY Waiting DEF Serve
  <1>2. PICK f : f = files + 1
    OBVIOUS
  <1>3. PICK m : m = [to |-> r, file |-> f, adopted |-> child[c].adopted]
    OBVIOUS
  <1>4. /\ child' = [child EXCEPT ![c].file = f, ![c].asked = <<>>, ![c].out = <<m>>]
        /\ Names(f) /\ files' = f /\ UNCHANGED <<used, idle, shut, mishaps>>
        /\ child[c].state = "alive"
    <2>1. Head(child[c].asked) = r /\ Tail(child[c].asked) = <<>> /\ Append(child[c].out, m) = <<m>>
      BY <1>1, OneSeq
    <2>2. /\ child' = [child EXCEPT ![c].file = f, ![c].asked = Tail(@), ![c].out = Append(@, m)]
          /\ Names(f) /\ files' = f
      BY <1>2, <1>3, <2>1 DEF Serve
    <2>3. QED
      BY <2>1, <2>2 DEF Serve, PoolInv, PoolTypeOK
  <1>5. child[c] \in Process /\ ChildOK(c) /\ files \in Nat /\ f \in File /\ f \in Nat
    BY <1>2 DEF PoolInv, PoolTypeOK, File
  <1>6. m \in ReplyType /\ m.file = f /\ m.to = r
    BY <1>3, <1>5 DEF Process, ReplyType
  <1>7. /\ child'[c] = [child[c] EXCEPT !.file = f, !.asked = <<>>, !.out = <<m>>]
        /\ \A d \in Children \ {c} : child'[d] = child[d]
    BY <1>4 DEF PoolInv, PoolTypeOK
  <1>8. <<>> \in Seq(Calls) /\ <<m>> \in Seq(ReplyType)
    BY <1>6
  <1>9. /\ child'[c] \in Process /\ child'[c].state = "alive"
        /\ child'[c].asked = <<>> /\ child'[c].out = <<m>>
        /\ child'[c].id = child[c].id /\ child'[c].adopted = child[c].adopted
        /\ child'[c].file = f
    <2>1. child'[c] \in Process
      BY <1>5, <1>6, <1>7, <1>8 DEF Process
    <2>2. child'[c].state = child[c].state /\ child'[c].id = child[c].id
          /\ child'[c].adopted = child[c].adopted
      BY <1>5, <1>7 DEF Process
    <2>3. child'[c].file = f
      BY <1>5, <1>7 DEF Process
    <2>4. child'[c].asked = <<>>
      BY <1>5, <1>7 DEF Process
    <2>5. child'[c].out = <<m>>
      BY <1>5, <1>7 DEF Process
    <2>6. QED
      BY <1>4, <2>1, <2>2, <2>3, <2>4, <2>5
  <1>10. /\ request' \in [Calls -> Progress] /\ files' \in Nat
         /\ path' = f /\ path' \in 1..files' \cup {NoFile}
         /\ InSlot' = InSlot /\ Idles' = Idles
         /\ \A q \in Calls : /\ request'[q].pc = request[q].pc
                             /\ request'[q].child = request[q].child
                             /\ request'[q].got = request[q].got
                             /\ q \in InSlot => path' \in request'[q].named
         /\ \A q \in Calls : ~(HasChild(q) /\ request[q].child = c) => CallOK(q)'
         /\ \A d \in Children \ {c} : ChildOK(d)'
    BY <1>2, <1>4, <1>7, Renamed
  <1>11. PoolTypeOK'
    BY <1>4, <1>9, <1>10 DEF PoolInv, PoolTypeOK
  <1>12. CallOK(r)'
    <2>1. Mine(r)' = child'[c] /\ f \in request'[r].named
      BY <1>1, <1>10 DEF Mine, InSlot
    <2>2. InTurn(r)'
      BY <1>6, <1>9, <2>1 DEF InTurn
    <2>3. request'[r].pc = "wait" /\ request'[r].child = c /\ request'[r].got = NoReply
      BY <1>1, <1>10
    <2>4. QED
      BY <1>1, <1>9, <1>10, <2>1, <2>2, <2>3 DEF CallOK, HasChild
  <1>13. \A q \in Calls : CallOK(q)'
    <2>1. \A q \in Calls : HasChild(q) /\ request[q].child = c => q = r
      BY <1>1 DEF PoolInv, Owners, HasChild
    <2>2. QED
      BY <1>10, <1>12, <2>1
  <1>14. ChildOK(c)'
    <2>1. child[c].id # f /\ child[c].id \in 1..files' \cup {NoFile}
      BY <1>2, <1>4, <1>5, PoolConstants DEF ChildOK
    <2>2. QED
      BY <1>1, <1>4, <1>5, <1>9, <1>10, <2>1 DEF ChildOK
  <1>15. Owned' = Owned /\ \A q \in Calls : HasChild(q)' = HasChild(q)
    <2>1. Owned' = Owned
      BY <1>4, <1>7, <1>9 DEF Owned
    <2>2. QED
      BY <2>1, <1>10 DEF HasChild
  <1>16. Owners'
    BY <1>4, <1>10, <1>15 DEF PoolInv, Owners
  <1>17. SlotsCounted' /\ OwnedBound'
    BY <1>4, <1>10, <1>15, SlotKept, OwnedFewer DEF PoolInv
  <1>18. \A d \in Children : ChildOK(d)'
    BY <1>10, <1>14
  <1>19. QED
    BY <1>11, <1>13, <1>16, <1>17, <1>18 DEF PoolInv

LEMMA CloseAllStep ==
  ASSUME PoolInv, CloseAll
  PROVE  PoolInv'
  <1>1. /\ idle' = <<>> /\ shut' = TRUE /\ UNCHANGED <<used, request, path, files, mishaps>>
        /\ child' = [c \in Children |-> IF c \in Idles THEN Gone ELSE child[c]]
    BY DEF CloseAll, Idles
  <1>2. Idles' = {} /\ DOMAIN idle' = {}
    BY <1>1 DEF Idles
  <1>3. Gone \in Process
    BY DEF Gone, Process, File
  <1>4. PoolTypeOK'
    BY <1>1, <1>3 DEF PoolInv, PoolTypeOK
  <1>5. ASSUME NEW q \in Calls PROVE CallOK(q)'
    <2>1. CallOK(q) /\ request'[q] = request[q] /\ path' = path
      BY <1>1 DEF PoolInv
    <2>2. HasChild(q) => /\ request[q].child \in Children
                         /\ child'[request[q].child] = child[request[q].child]
      BY <1>1, <2>1 DEF CallOK
    <2>3. HasChild(q) => Mine(q)' = Mine(q) /\ (Still(request[q].child))' = Still(request[q].child)
      BY <2>1, <2>2 DEF Mine, Still
    <2>4. request[q].pc = "wait" => InTurn(q)' = InTurn(q)
      BY <2>1, <2>3 DEF InTurn, HasChild
    <2>5. HasChild(q)' = HasChild(q) /\ (q \in InSlot' <=> q \in InSlot)
      BY <2>1 DEF HasChild, InSlot
    <2>6. QED
      BY <1>2, <2>1, <2>2, <2>3, <2>4, <2>5 DEF CallOK, HasChild
  <1>6. ASSUME NEW c \in Children PROVE ChildOK(c)'
    <2>1. ChildOK(c) /\ child'[c] = IF c \in Idles THEN Gone ELSE child[c]
      BY <1>1 DEF PoolInv
    <2>2. CASE c \in Idles
      BY <1>2, <2>1, <2>2 DEF ChildOK, Gone
    <2>3. CASE c \notin Idles
      BY <1>1, <1>2, <2>1, <2>3 DEF ChildOK, Still
    <2>4. QED
      BY <2>2, <2>3
  <1>7. Owned' \subseteq Owned \ Idles
    BY <1>1 DEF Owned, Gone
  <1>8. Owners'
    <2>1. \A q \in Calls : HasChild(q)' = HasChild(q) /\ request'[q] = request[q]
      BY <1>1 DEF HasChild
    <2>2. QED
      BY <1>2, <1>7, <2>1 DEF PoolInv, Owners
  <1>9. InSlot' = InSlot
    BY <1>1 DEF InSlot
  <1>10. SlotsCounted' /\ OwnedBound'
    BY <1>1, <1>7, <1>9, SlotKept, OwnedFewer DEF PoolInv
  <1>11. QED
    BY <1>4, <1>5, <1>6, <1>8, <1>10 DEF PoolInv

LEMMA PoolStart == PoolInit => PoolInv
  <1> SUFFICES ASSUME PoolInit PROVE PoolInv
    OBVIOUS
  <1>1. Gone \in Process /\ Over \in Progress
    BY DEF Gone, Over, Process, Progress, NoReply, ReplyType, File
  <1>2. [Over EXCEPT !.pc = "new"] \in Progress
        /\ [Over EXCEPT !.pc = "new"] =
              [pc |-> "new", child |-> NoChild, named |-> {}, got |-> NoReply]
    BY <1>1 DEF Over, Progress
  <1>3. PoolTypeOK
    <2>1. idle \in Seq(Children) /\ child \in [Children -> Process] /\ request \in [Calls -> Progress]
      BY <1>1, <1>2 DEF PoolInit
    <2>2. files \in Nat /\ path \in 1..files \cup {NoFile}
      BY DEF PoolInit
    <2>3. shut \in BOOLEAN
      BY DEF PoolInit
    <2>4. used \in Int /\ mishaps \in Int
      BY PoolConstants DEF PoolInit
    <2>5. QED
      BY <2>1, <2>2, <2>3, <2>4 DEF PoolTypeOK
  <1>4. Idles = {} /\ InSlot = {} /\ Owned = {} /\ DOMAIN idle = {}
    BY DEF PoolInit, Idles, InSlot, Owned, Gone
  <1>5. Owners
    BY <1>4 DEF PoolInit, Owners, HasChild
  <1>6. SlotsCounted /\ OwnedBound
    BY <1>4, FS_EmptySet, PoolConstants DEF PoolInit, SlotsCounted, OwnedBound
  <1>7. \A r \in Calls : CallOK(r)
    BY <1>4 DEF PoolInit, CallOK, HasChild
  <1>8. \A c \in Children : ChildOK(c)
    BY <1>4 DEF PoolInit, ChildOK, Gone
  <1>9. QED
    BY <1>3, <1>5, <1>6, <1>7, <1>8 DEF PoolInv

LEMMA PoolStutter == PoolInv /\ UNCHANGED poolVars => PoolInv'
  <1> SUFFICES ASSUME PoolInv, UNCHANGED poolVars PROVE PoolInv'
    OBVIOUS
  <1> USE DEF poolVars
  <1>1. PoolTypeOK' /\ Idles' = Idles /\ InSlot' = InSlot /\ Owned' = Owned
    BY DEF PoolInv, PoolTypeOK, Idles, InSlot, Owned
  <1>2. Aside({}, NoChild)
    BY <1>1, PoolConstants DEF Aside, Owned, PoolInv, CallOK
  <1>3. SlotsCounted' /\ OwnedBound'
    BY <1>1, SlotKept, OwnedFewer DEF PoolInv
  <1>4. \A k, n \in DOMAIN idle' : idle'[k] = idle'[n] => k = n
    BY DEF PoolInv, Owners
  <1>5. QED
    BY <1>1, <1>2, <1>3, <1>4, ChildTouched, PoolConstants

LEMMA PoolStep == PoolInv /\ [PoolNext]_poolVars => PoolInv'
  <1> SUFFICES ASSUME PoolInv, [PoolNext]_poolVars PROVE PoolInv'
    OBVIOUS
  <1>1. ASSUME NEW r \in Calls, CallStep(r) PROVE PoolInv'
    <2>1. CASE TakeSlot(r) \/ Borrow(r) \/ BorrowStale(r)
      BY <2>1, TakeSlotStep, BorrowStep, BorrowStaleStep
    <2>2. CASE BeginStart(r) \/ StartRefused(r) \/ Started(r)
      BY <2>2, BeginStartStep, StartRefusedStep, StartedStep
    <2>3. CASE StartFails(r) \/ Breaks(r) \/ Deadline(r)
      BY <2>3, RetireStep
    <2>4. CASE AbandonStart(r) \/ ReadReply(r)
      BY <2>4, AbandonStartStep, ReadReplyStep
    <2>5. CASE Put(r)
      <3>1. request[r].pc \in {"put", "slot"}
        BY <2>5 DEF Put
      <3>2. QED
        BY <2>5, <3>1, PutStep, StartRefusedStep
    <2>6. QED
      BY <1>1, <2>1, <2>2, <2>3, <2>4, <2>5 DEF CallStep
  <1>2. ASSUME NEW c \in Children, EndAbandoned(c) \/ ChildDies(c) PROVE PoolInv'
    BY <1>2, EndAbandonedStep, ChildDiesStep
  <1>3. ASSUME NEW c \in Children, NEW health \in BOOLEAN, Serve(c, health) PROVE PoolInv'
    BY <1>3, AnswersStep, CreatesStep
  <1>4. ASSUME NEW gone \in BOOLEAN, PathMoves(gone) PROVE PoolInv'
    BY <1>4, PathMovesStep
  <1>5. QED
    BY <1>1, <1>2, <1>3, <1>4, CloseAllStep, PoolStutter DEF PoolNext

LEMMA PoolGoverned == PoolSpec => []PoolInv
  BY PoolStart, PoolStep, PTL DEF PoolSpec

\* A reply reaches the call that asked for it, whatever the numbers of calls,
\* processes, slots and mishaps (runServed, put, retire).
THEOREM RepliesReachTheirCalls == PoolSpec => []OwnReply
  <1>1. PoolInv => OwnReply
    BY DEF PoolInv, OwnReply, Answered, CallOK
  <1>2. QED
    BY <1>1, PoolGoverned, PTL

\* An answer is from a file that the path named during the call, or from a process
\* that took another file for its own than the one it has open (dbIsCurrent).
THEOREM AnswersAreFromThePath == PoolSpec => []FromThePath
  <1>1. PoolInv => FromThePath
    BY DEF PoolInv, FromThePath, Answered, CallOK
  <1>2. QED
    BY <1>1, PoolGoverned, PTL

\* No more processes with a user or idle than slots, a start that nobody waited
\* for kept out of the pool, no process with two users, and no slot lost
\* (serveMaxChildren, take, put and retire).
THEOREM PoolStaysBounded == PoolSpec => []PoolBounded
  <1>1. PoolInv => PoolBounded
    <2> SUFFICES ASSUME PoolInv PROVE PoolBounded
      OBVIOUS
    <2>1. Cardinality(Owned) <= Slots
      BY DEF PoolInv, OwnedBound
    <2>2. ASSUME NEW q \in Calls, NEW r \in Calls, request[q].child = request[r].child
          PROVE  q = r \/ request[q].child = NoChild
      BY <2>2, PoolConstants DEF PoolInv, Owners, CallOK
    <2>3. ASSUME NEW r \in Calls, NEW n \in DOMAIN idle PROVE request[r].child # idle[n]
      <3>1. idle[n] \in Idles /\ idle[n] \in Children
        BY DEF Idles, PoolInv, PoolTypeOK
      <3>2. QED
        BY <3>1, PoolConstants DEF PoolInv, CallOK
    <2>4. ASSUME \A r \in Calls : request[r].pc \in {"new", "over"} PROVE used = 0
      <3>1. InSlot = {}
        BY <2>4 DEF InSlot
      <3>2. QED
        BY <3>1, FS_EmptySet DEF PoolInv, SlotsCounted
    <2>5. ASSUME NEW c \in Children, child[c].state = "abandoned"
          PROVE  /\ child[c].asked = <<>> /\ \A r \in Calls : request[r].child # c
                 /\ \A n \in DOMAIN idle : idle[n] # c
      <3>1. ChildOK(c) /\ c \notin Idles
        BY <2>5 DEF PoolInv, ChildOK
      <3>2. \A r \in Calls : request[r].child # c
        BY <2>5, PoolConstants DEF PoolInv, CallOK, HasChild, Mine
      <3>3. QED
        BY <2>5, <3>1, <3>2 DEF ChildOK, Still, Idles
    <2>6. QED
      BY <2>1, <2>2, <2>3, <2>4, <2>5 DEF PoolBounded
  <1>2. QED
    BY <1>1, PoolGoverned, PTL
==============================================================================
