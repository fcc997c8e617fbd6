--------------------------- MODULE FsccIsrProofs ----------------------------
(***************************************************************************)
(* Proofs about FsccIsr, for every set of interrupt sources and masks, and *)
(* for any number of overlapping executions of isr_alert_worker.           *)
(***************************************************************************)
EXTENDS FsccIsr, SequenceTheorems, TLAPS

\* Requests wait in the order of their numbers, and only requests that were made.
QueueInv ==
  /\ Len(masks) <= MaxRequests
  /\ \A i \in 1..Len(isr_queue) : isr_queue[i] \in 1..Len(masks)
  /\ \A i, j \in 1..Len(isr_queue) : i < j => isr_queue[i] < isr_queue[j]

\* What a worker found it found among the requests made.
FoundInv ==
  \A w \in Workers :
    /\ alert[w].prev <= Len(masks) /\ alert[w].tag <= Len(masks)
    /\ alert[w].pc = "clear" => alert[w].prev = 0
    /\ alert[w].pc = "retrieve" => /\ alert[w].tag # 0
                                   /\ alert[w].value \cap masks[alert[w].tag] # {}

\* Of the requests that wait, those up to the one looked at last do not match.
SearchedInv ==
  \A w \in Workers : alert[w].pc = "find" =>
    \A j \in 1..Len(isr_queue) :
      isr_queue[j] <= alert[w].prev => alert[w].value \cap masks[isr_queue[j]] = {}

Completions == [id : Nat \ {0}, matches : SUBSET Bits]

\* The completed requests were made.
CompletedInv ==
  /\ completed \in Seq(Completions)
  /\ \A i \in 1..Len(completed) : completed[i].id \in 1..Len(masks)

\* The inductive invariant.
IndInv == TypeOK /\ QueueInv /\ FoundInv /\ SearchedInv /\ CompletedInv /\ CompletedOnce

-----------------------------------------------------------------------------
(* Lemmas about the queue.                                                 *)

\* The bound on requests as a fact of arithmetic.
LEMMA MaxInNat == MaxRequests \in Nat /\ 1..MaxRequests \subseteq Nat
BY IsrAssumption

\* A sequence without its j-th element.
LEMMA RemoveProperties ==
  ASSUME NEW S, NEW q \in Seq(S), NEW j \in 1..Len(q)
  PROVE  /\ RemoveAt(q, j) \in Seq(S) /\ Len(RemoveAt(q, j)) = Len(q) - 1
         /\ \A i \in 1..(Len(q) - 1) : RemoveAt(q, j)[i] = IF i < j THEN q[i] ELSE q[i + 1]
<1> DEFINE r == RemoveAt(q, j)
           a == SubSeq(q, 1, j - 1)
           b == SubSeq(q, j + 1, Len(q))
<1>0. Len(q) \in Nat /\ \A i \in 1..Len(q) : q[i] \in S
  BY ElementOfSeq, LenProperties
<1>1. /\ a \in Seq(S) /\ Len(a) = j - 1
      /\ \A i \in 1..(j - 1) : a[i] = q[i]
  BY <1>0, SubSeqProperties
<1>2. /\ b \in Seq(S) /\ Len(b) = Len(q) - j
      /\ \A i \in 1..(Len(q) - j) : b[i] = q[j + i]
  BY <1>0, SubSeqProperties
<1> HIDE DEF a, b, r
<1>3. /\ r \in Seq(S) /\ Len(r) = Len(a) + Len(b)
      /\ \A i \in 1..(Len(a) + Len(b)) : r[i] = IF i <= Len(a) THEN a[i] ELSE b[i - Len(a)]
  BY <1>1, <1>2, ConcatProperties DEF a, b, r, RemoveAt
<1>4. Len(a) + Len(b) = Len(q) - 1
  BY <1>0, <1>1, <1>2
<1>5. ASSUME NEW i \in 1..(Len(q) - 1)
      PROVE  r[i] = IF i < j THEN q[i] ELSE q[i + 1]
  <2>1. r[i] = IF i <= Len(a) THEN a[i] ELSE b[i - Len(a)]
    BY <1>3, <1>4
  <2>2. CASE i < j
    <3>1. i \in 1..(j - 1) /\ i <= j - 1
      BY <1>0, <2>2
    <3> QED BY <1>1, <2>1, <2>2, <3>1
  <2>3. CASE ~(i < j)
    <3>1. i - (j - 1) \in 1..(Len(q) - j) /\ j + (i - (j - 1)) = i + 1 /\ ~(i <= j - 1)
      BY <1>0, <2>3
    <3>2. r[i] = b[i - (j - 1)]
      BY <1>1, <2>1, <3>1
    <3>3. b[i - (j - 1)] = q[j + (i - (j - 1))]
      BY <1>2, <3>1
    <3> QED BY <2>3, <3>1, <3>2, <3>3
  <2> QED BY <2>2, <2>3
<1> QED BY <1>3, <1>4, <1>5 DEF r

\* A waiting request is at its place.
LEMMA PlaceProperties ==
  ASSUME NEW id, Queued(id)
  PROVE  Place(id) \in 1..Len(isr_queue) /\ isr_queue[Place(id)] = id
BY DEF Queued, Place

\* Taking a request out leaves the others, in their order.
LEMMA WithoutProperties ==
  ASSUME TypeOK, QueueInv, NEW id, Queued(id), NEW r, r = Without(id)
  PROVE  /\ r \in Seq(1..MaxRequests)
         /\ \A i \in 1..Len(r) :
              /\ r[i] # id
              /\ \E j \in 1..Len(isr_queue) : r[i] = isr_queue[j]
         /\ \A i, j \in 1..Len(r) : i < j => r[i] < r[j]
<1> DEFINE q == isr_queue
           p == Place(id)
<1>1. q \in Seq(1..MaxRequests) /\ p \in 1..Len(q) /\ q[p] = id /\ Len(q) \in Nat
  BY PlaceProperties, LenProperties DEF TypeOK
<1>0. r = RemoveAt(q, p)
  BY DEF Without
<1>3. \A i \in 1..Len(q) : q[i] \in Nat
  BY <1>1, ElementOfSeq, MaxInNat
<1>4. \A i, j \in 1..Len(q) : i < j => q[i] < q[j]
  BY DEF QueueInv
<1> HIDE DEF q, p
<1>2. /\ r \in Seq(1..MaxRequests) /\ Len(r) = Len(q) - 1
      /\ \A i \in 1..(Len(q) - 1) : r[i] = IF i < p THEN q[i] ELSE q[i + 1]
  BY <1>0, <1>1, RemoveProperties
<1>5. ASSUME NEW i \in 1..Len(r)
      PROVE  r[i] # id /\ \E j \in 1..Len(q) : r[i] = q[j]
  <2>1. CASE i < p
    <3>1. i \in 1..Len(q) /\ r[i] = q[i] /\ i \in 1..(Len(q) - 1)
      BY <1>1, <1>2, <2>1
    <3> QED BY <1>1, <1>3, <1>4, <2>1, <3>1
  <2>2. CASE ~(i < p)
    <3>1. i + 1 \in 1..Len(q) /\ p < i + 1 /\ r[i] = q[i + 1]
      BY <1>1, <1>2, <2>2
    <3> QED BY <1>1, <1>3, <1>4, <3>1
  <2> QED BY <2>1, <2>2
<1>6. \A i, j \in 1..Len(r) : i < j => r[i] < r[j]
  <2> SUFFICES ASSUME NEW i \in 1..Len(r), NEW j \in 1..Len(r), i < j
               PROVE  r[i] < r[j]
    OBVIOUS
  <2>1. /\ r[i] = IF i < p THEN q[i] ELSE q[i + 1]
        /\ r[j] = IF j < p THEN q[j] ELSE q[j + 1]
        /\ {i, i + 1, j, j + 1} \subseteq 1..Len(q)
    BY <1>1, <1>2
  <2> QED BY <1>1, <1>4, <2>1
<1> QED BY <1>2, <1>5, <1>6 DEF q

\* The requests behind the one looked at last: when there are none, all requests
\* were looked at; otherwise the first of them is the next one in the order.
LEMMA BehindProperties ==
  ASSUME TypeOK, QueueInv, NEW w \in Workers,
         alert[w].prev # 0 => Queued(alert[w].prev)
  PROVE  /\ Behind(w) = <<>> =>
              \A j \in 1..Len(isr_queue) : isr_queue[j] <= alert[w].prev
         /\ Behind(w) # <<>> =>
              \E j \in 1..Len(isr_queue) :
                /\ Head(Behind(w)) = isr_queue[j]
                /\ \A i \in 1..Len(isr_queue) :
                     isr_queue[i] <= isr_queue[j] => i = j \/ isr_queue[i] <= alert[w].prev
<1> DEFINE q == isr_queue
           b == Behind(w)
           v == alert[w].prev
<1>1. q \in Seq(1..MaxRequests) /\ Len(q) \in Nat /\ v \in Nat
  BY LenProperties, MaxInNat DEF TypeOK, AlertState
<1>2. \A i \in 1..Len(q) : q[i] \in Nat
  BY <1>1, ElementOfSeq, MaxInNat
<1>3. \A i, j \in 1..Len(q) : i < j => q[i] < q[j]
  BY DEF QueueInv
<1>4. CASE v = 0
  <2>1. b = q
    BY <1>4 DEF Behind
  <2> HIDE DEF b, q
  <2>2. CASE b = <<>>
    BY <2>1, <2>2 DEF b, q
  <2>3. CASE b # <<>>
    <3>1. 1 \in 1..Len(q) /\ Head(b) = q[1]
      BY <1>1, <2>1, <2>3, EmptySeq
    <3>2. \A i \in 1..Len(q) : q[i] <= q[1] => i = 1
      BY <1>1, <1>2, <1>3, <3>1
    <3> QED BY <2>3, <3>1, <3>2 DEF b, q
  <2> QED BY <2>2, <2>3
<1>5. CASE v # 0
  <2> DEFINE p == Place(v)
  <2>1. p \in 1..Len(q) /\ q[p] = v
    BY <1>5, PlaceProperties
  <2>2. b = SubSeq(q, p + 1, Len(q))
    BY <1>5 DEF Behind
  <2>3. /\ b \in Seq(1..MaxRequests) /\ Len(b) = Len(q) - p
        /\ \A i \in 1..(Len(q) - p) : b[i] = q[p + i]
    <3>1. ASSUME NEW i \in (p + 1)..Len(q)
          PROVE  q[i] \in 1..MaxRequests
      <4>1. i \in 1..Len(q)
        BY <1>1, <2>1
      <4> QED BY <1>1, <4>1, ElementOfSeq
    <3>2. p + 1 \in Int /\ Len(q) \in Int
      BY <1>1, <2>1
    <3> DEFINE D == 1..MaxRequests
    <3> HIDE DEF q, p, D
    <3>3. /\ b \in Seq(D)
          /\ Len(b) = IF p + 1 <= Len(q) THEN Len(q) - (p + 1) + 1 ELSE 0
          /\ \A i \in 1..(Len(q) - (p + 1) + 1) : b[i] = q[p + 1 + i - 1]
      BY <2>2, <3>1, <3>2, SubSeqProperties DEF D
    <3>4. /\ Len(q) - (p + 1) + 1 = Len(q) - p
          /\ ~(p + 1 <= Len(q)) => Len(q) - p = 0
          /\ \A i \in 1..(Len(q) - p) : p + 1 + i - 1 = p + i
      BY <1>1, <2>1
    <3>5. \A i \in 1..(Len(q) - p) : b[i] = q[p + i]
      BY <3>3, <3>4
    <3> QED BY <3>3, <3>4, <3>5 DEF D
  <2> HIDE DEF b, q, p, v
  <2>4. CASE b = <<>>
    <3>1. p = Len(q)
      BY <1>1, <2>1, <2>3, <2>4
    <3>2. \A j \in 1..Len(q) : q[j] <= v
      BY <1>1, <1>2, <1>3, <2>1, <3>1
    <3> QED BY <2>4, <3>2 DEF b, q, v
  <2>5. CASE b # <<>>
    <3>1. Len(b) >= 1 /\ Head(b) = b[1]
      BY <2>3, <2>5, EmptySeq
    <3>2. p + 1 \in 1..Len(q) /\ Head(b) = q[p + 1]
      BY <1>1, <2>1, <2>3, <3>1
    <3>3. ASSUME NEW i \in 1..Len(q), q[i] <= q[p + 1]
          PROVE  i = p + 1 \/ q[i] <= v
      <4>1. CASE i > p + 1
        BY <1>1, <1>2, <1>3, <3>2, <3>3, <4>1
      <4>2. CASE i < p
        BY <1>1, <1>2, <1>3, <2>1, <3>2, <4>2
      <4>3. CASE i = p
        BY <1>1, <1>2, <2>1, <4>3
      <4> QED BY <1>1, <2>1, <4>1, <4>2, <4>3
    <3> QED BY <2>5, <3>2, <3>3 DEF b, q, v
  <2> QED BY <2>4, <2>5
<1> QED BY <1>4, <1>5

-----------------------------------------------------------------------------
(* Types of a worker's locals.                                             *)

\* A worker at rest, and one that has just taken the bits.
LEMMA IdleType ==
  /\ IdleAlert \in AlertState
  /\ \A v \in SUBSET Bits : [IdleAlert EXCEPT !.pc = "clear", !.value = v] \in AlertState
<1>1. 0 \in 0..MaxRequests /\ {} \in SUBSET Bits
  BY IsrAssumption
<1> DEFINE M == 0..MaxRequests
           B == SUBSET Bits
<1> HIDE DEF M, B
<1>2. IdleAlert \in [pc : {"idle", "clear", "find", "retrieve"}, value : B, prev : M, tag : M]
  BY <1>1 DEF IdleAlert, M, B
<1>3. \A v \in B : [IdleAlert EXCEPT !.pc = "clear", !.value = v]
                   \in [pc : {"idle", "clear", "find", "retrieve"}, value : B, prev : M, tag : M]
  BY <1>1 DEF IdleAlert, M
<1> QED BY <1>2, <1>3 DEF AlertState, B, M

\* What one worker's step leaves is a function of the same type.
LEMMA AlertType ==
  ASSUME TypeOK, NEW w \in Workers, NEW a \in AlertState,
         alert' = [alert EXCEPT ![w] = a]
  PROVE  /\ alert' \in [Workers -> AlertState]
         /\ alert'[w] = a /\ \A u \in Workers \ {w} : alert'[u] = alert[u]
BY DEF TypeOK

-----------------------------------------------------------------------------
(* The invariant is inductive.                                             *)

\* The driver starts with nothing waiting and nothing completed.
LEMMA InitIndInv == Init => IndInv
<1> SUFFICES ASSUME Init PROVE IndInv
  OBVIOUS
<1>1. TypeOK
  <2>1. alert \in [Workers -> AlertState]
    BY IdleType DEF Init
  <2>2. raises \in 0..MaxRaises /\ masks \in Seq(SUBSET Bits) /\ isr_queue \in Seq(1..MaxRequests)
    BY IsrAssumption, EmptySeq DEF Init
  <2> QED BY <2>1, <2>2 DEF Init, TypeOK
<1>2. QueueInv /\ FoundInv /\ SearchedInv
  BY IsrAssumption, EmptySeq DEF Init, QueueInv, FoundInv, SearchedInv, IdleAlert
<1>3. CompletedInv /\ CompletedOnce
  BY EmptySeq DEF Init, CompletedInv, CompletedOnce
<1> QED BY <1>1, <1>2, <1>3 DEF IndInv

\* Steps that touch neither the queue nor the requests: the interrupt handler and
\* the part of a worker that takes the bits.
LEMMA QuietInv ==
  ASSUME IndInv,
         \/ \E b \in Bits : Raise(b)
         \/ IsrRead
         \/ IsrAdd
         \/ \E w \in Workers : AlertTake(w) \/ AlertClear(w)
         \/ UNCHANGED vars
  PROVE  IndInv'
<1>1. UNCHANGED <<isr_queue, masks, completed>>
  BY DEF Raise, IsrRead, IsrAdd, AlertTake, AlertClear, vars
<1>2. QueueInv' /\ CompletedInv' /\ CompletedOnce'
  BY <1>1 DEF IndInv, QueueInv, CompletedInv, CompletedOnce, Queued
<1>3. TypeOK'
  <2>1. CASE \E b \in Bits : Raise(b)
    BY <2>1, IsrAssumption DEF IndInv, TypeOK, Raise
  <2>2. CASE IsrRead
    BY <2>2 DEF IndInv, TypeOK, IsrRead
  <2>3. CASE IsrAdd
    BY <2>3 DEF IndInv, TypeOK, IsrAdd
  <2>4. CASE \E w \in Workers : AlertTake(w) \/ AlertClear(w)
    <3>1. alert' \in [Workers -> AlertState]
      <4>1. ASSUME NEW w \in Workers, AlertTake(w)
            PROVE  alert' \in [Workers -> AlertState]
        BY <4>1, IdleType DEF IndInv, TypeOK, AlertTake
      <4>2. ASSUME NEW w \in Workers, AlertClear(w)
            PROVE  alert' \in [Workers -> AlertState]
        BY <4>2 DEF IndInv, TypeOK, AlertClear, AlertState
      <4> QED BY <2>4, <4>1, <4>2
    <3> QED BY <2>4, <3>1 DEF IndInv, TypeOK, AlertTake, AlertClear
  <2>5. CASE UNCHANGED vars
    BY <2>5 DEF IndInv, TypeOK, vars
  <2> QED BY <2>1, <2>2, <2>3, <2>4, <2>5
<1>4. FoundInv' /\ SearchedInv'
  <2>1. CASE UNCHANGED alert
    BY <1>1, <2>1 DEF IndInv, FoundInv, SearchedInv
  <2>2. ASSUME NEW w \in Workers, AlertTake(w) \/ AlertClear(w)
        PROVE  FoundInv' /\ SearchedInv'
    <3>1. alert[w] \in AlertState /\ last_isr_value \in SUBSET Bits
      BY DEF IndInv, TypeOK
    <3>2. PICK a \in AlertState :
            /\ alert' = [alert EXCEPT ![w] = a] /\ a.pc \in {"clear", "find"}
            /\ a.prev = 0 /\ a.tag \in {0, alert[w].tag}
      <4>1. CASE AlertTake(w)
        BY <3>1, <4>1, IdleType DEF AlertTake, IdleAlert
      <4>2. CASE AlertClear(w)
        <5>1. alert' = [alert EXCEPT ![w] = [alert[w] EXCEPT !.pc = "find"]]
          BY <4>2 DEF AlertClear, IndInv, TypeOK
        <5> QED BY <3>1, <4>2, <5>1 DEF AlertClear, AlertState, IndInv, FoundInv
      <4> QED BY <2>2, <4>1, <4>2
    <3>3. alert'[w] = a /\ \A u \in Workers \ {w} : alert'[u] = alert[u]
      BY <3>2, AlertType DEF IndInv
    <3>4. Len(masks) \in Nat /\ \A j \in 1..Len(isr_queue) : isr_queue[j] \in 1..Len(masks)
      BY LenProperties DEF IndInv, TypeOK, QueueInv
    <3>5. FoundInv'
      BY <1>1, <3>1, <3>2, <3>3, <3>4 DEF IndInv, FoundInv
    <3>6. SearchedInv'
      BY <1>1, <3>2, <3>3, <3>4 DEF IndInv, SearchedInv
    <3> QED BY <3>5, <3>6
  <2> QED BY <2>1, <2>2 DEF Raise, IsrRead, IsrAdd, vars
<1> QED BY <1>2, <1>3, <1>4 DEF IndInv

\* A worker looks at the next request.
LEMMA FindInv ==
  ASSUME IndInv, NEW w \in Workers, FindRequest(w)
  PROVE  IndInv'
<1>1. UNCHANGED <<hw, last_isr_value, isr, isr_alert_dpc, isr_queue, masks, malformed, completed, raises>>
  BY DEF FindRequest
<1>2. /\ alert[w] \in AlertState /\ alert[w].pc = "find" /\ Len(masks) \in Nat
      /\ \A j \in 1..Len(isr_queue) : /\ isr_queue[j] \in 1..Len(masks)
                                       /\ isr_queue[j] \in 0..MaxRequests /\ isr_queue[j] # 0
  BY LenProperties, IsrAssumption DEF IndInv, TypeOK, QueueInv, FindRequest
<1>3. PICK a \in AlertState :
        /\ alert' = [alert EXCEPT ![w] = a]
        /\ a.prev <= Len(masks) /\ a.tag <= Len(masks) /\ a.pc # "clear"
        /\ a.pc = "retrieve" => a.tag # 0 /\ a.value \cap masks[a.tag] # {}
        /\ a.pc = "find" => \A j \in 1..Len(isr_queue) :
             isr_queue[j] <= a.prev => a.value \cap masks[isr_queue[j]] = {}
  <2>1. CASE alert' = [alert EXCEPT ![w].prev = 0]
    <3>1. alert' = [alert EXCEPT ![w] = [alert[w] EXCEPT !.prev = 0]]
      BY <2>1 DEF IndInv, TypeOK
    <3> DEFINE a == [alert[w] EXCEPT !.prev = 0]
    <3>2. 0 \in 0..MaxRequests
      BY IsrAssumption
    <3>3. a \in AlertState /\ a.prev = 0 /\ a.tag = alert[w].tag /\ a.pc = "find"
      BY <1>2, <3>2 DEF AlertState
    <3>4. alert[w].tag <= Len(masks) /\ 0 <= Len(masks)
      BY <1>2 DEF IndInv, FoundInv
    <3>5. \A j \in 1..Len(isr_queue) : ~(isr_queue[j] <= 0)
      BY <1>2
    <3> HIDE DEF a
    <3> QED BY <3>1, <3>3, <3>4, <3>5 DEF a
  <2>2. CASE alert' = [alert EXCEPT ![w] = IdleAlert]
    <3>1. /\ IdleAlert \in AlertState /\ IdleAlert.pc = "idle"
          /\ IdleAlert.prev = 0 /\ IdleAlert.tag = 0
      BY IdleType DEF IdleAlert
    <3>2. 0 <= Len(masks)
      BY <1>2
    <3> QED BY <2>2, <3>1, <3>2
  <2>3. CASE /\ alert[w].prev # 0 => Queued(alert[w].prev)
             /\ Behind(w) # <<>>
             /\ alert' = [alert EXCEPT ![w] =
                  IF Matches(w, Head(Behind(w))) = {} THEN SkipTo(w, Head(Behind(w)))
                  ELSE [alert[w] EXCEPT !.pc = "retrieve", !.tag = Head(Behind(w))]]
    <3>1. PICK k \in 1..Len(isr_queue) :
            /\ Head(Behind(w)) = isr_queue[k]
            /\ \A i \in 1..Len(isr_queue) :
                 isr_queue[i] <= isr_queue[k] => i = k \/ isr_queue[i] <= alert[w].prev
      BY <2>3, BehindProperties DEF IndInv
    <3> DEFINE id == isr_queue[k]
    <3>2. id \in 0..MaxRequests /\ id # 0 /\ id <= Len(masks)
      BY <1>2
    <3>3. CASE Matches(w, id) = {}
      <4>1. alert' = [alert EXCEPT ![w] = [alert[w] EXCEPT !.prev = id]]
        BY <2>3, <3>1, <3>3 DEF SkipTo
      <4>2. [alert[w] EXCEPT !.prev = id] \in AlertState
        BY <1>2, <3>2 DEF AlertState
      <4>3. \A j \in 1..Len(isr_queue) :
              isr_queue[j] <= id => alert[w].value \cap masks[isr_queue[j]] = {}
        BY <1>2, <3>1, <3>3 DEF Matches, IndInv, SearchedInv
      <4> HIDE DEF id
      <4> QED BY <1>2, <3>2, <4>1, <4>2, <4>3 DEF AlertState, IndInv, FoundInv
    <3>4. CASE Matches(w, id) # {}
      <4>1. alert' = [alert EXCEPT ![w] = [alert[w] EXCEPT !.pc = "retrieve", !.tag = id]]
        BY <2>3, <3>1, <3>4
      <4>2. [alert[w] EXCEPT !.pc = "retrieve", !.tag = id] \in AlertState
        BY <1>2, <3>2 DEF AlertState
      <4>3. alert[w].value \cap masks[id] # {}
        BY <3>4 DEF Matches
      <4> HIDE DEF id
      <4> QED BY <1>2, <3>2, <4>1, <4>2, <4>3 DEF AlertState, IndInv, FoundInv
    <3> QED BY <3>3, <3>4
  <2> QED BY <2>1, <2>2, <2>3 DEF FindRequest
<1>4. /\ alert' \in [Workers -> AlertState]
      /\ alert'[w] = a /\ \A u \in Workers \ {w} : alert'[u] = alert[u]
  BY <1>3, AlertType DEF IndInv
<1>5. TypeOK'
  BY <1>1, <1>4 DEF IndInv, TypeOK
<1>6. QueueInv' /\ CompletedInv' /\ CompletedOnce'
  BY <1>1 DEF IndInv, QueueInv, CompletedInv, CompletedOnce, Queued
<1>7. FoundInv'
  BY <1>1, <1>3, <1>4 DEF IndInv, FoundInv
<1>8. SearchedInv'
  BY <1>1, <1>3, <1>4 DEF IndInv, SearchedInv
<1> QED BY <1>5, <1>6, <1>7, <1>8 DEF IndInv

\* Whoever takes a request out of the queue leaves the others waiting.
LEMMA RemovedInv ==
  ASSUME IndInv, NEW id, Queued(id), isr_queue' = Without(id), masks' = masks
  PROVE  /\ isr_queue' \in Seq(1..MaxRequests) /\ QueueInv'
         /\ \A i \in 1..Len(isr_queue') :
              /\ isr_queue'[i] # id
              /\ \E j \in 1..Len(isr_queue) : isr_queue'[i] = isr_queue[j]
<1>1. /\ isr_queue' \in Seq(1..MaxRequests)
      /\ \A i \in 1..Len(isr_queue') :
           /\ isr_queue'[i] # id
           /\ \E j \in 1..Len(isr_queue) : isr_queue'[i] = isr_queue[j]
      /\ \A i, j \in 1..Len(isr_queue') : i < j => isr_queue'[i] < isr_queue'[j]
  BY WithoutProperties DEF IndInv
<1> QED BY <1>1 DEF IndInv, QueueInv

\* A worker takes the request it found and completes it, unless it has gone.
LEMMA RetrieveInv ==
  ASSUME IndInv, NEW w \in Workers, RetrieveFoundRequest(w)
  PROVE  IndInv'
<1> DEFINE id == alert[w].tag
<1>1. UNCHANGED <<hw, last_isr_value, isr, isr_alert_dpc, masks, malformed, raises>>
  BY DEF RetrieveFoundRequest
<1>2. /\ alert[w] \in AlertState /\ alert[w].pc = "retrieve" /\ Len(masks) \in Nat
      /\ id \in 1..Len(masks) /\ alert[w].value \cap masks[id] # {}
  BY LenProperties, IsrAssumption DEF IndInv, TypeOK, FoundInv, RetrieveFoundRequest, AlertState
<1>3. PICK a \in AlertState :
        alert' = [alert EXCEPT ![w] = a] /\ a.pc = "find" /\ a.prev = 0 /\ a.tag = 0
  <2> DEFINE a == [alert[w] EXCEPT !.pc = "find", !.prev = 0, !.tag = 0]
  <2>1. alert' = [alert EXCEPT ![w] = a]
    BY DEF RetrieveFoundRequest, IndInv, TypeOK
  <2>3. 0 \in 0..MaxRequests
    BY IsrAssumption
  <2>2. a \in AlertState /\ a.pc = "find" /\ a.prev = 0 /\ a.tag = 0
    BY <1>2, <2>3 DEF AlertState
  <2> QED BY <2>1, <2>2
<1>4. /\ alert' \in [Workers -> AlertState]
      /\ alert'[w] = a /\ \A u \in Workers \ {w} : alert'[u] = alert[u]
  BY <1>3, AlertType DEF IndInv
<1>5. /\ isr_queue' \in Seq(1..MaxRequests) /\ QueueInv'
      /\ \A i \in 1..Len(isr_queue') :
           \E j \in 1..Len(isr_queue) : isr_queue'[i] = isr_queue[j]
  BY <1>1, RemovedInv DEF RetrieveFoundRequest, IndInv, TypeOK, QueueInv
<1>6. TypeOK'
  BY <1>1, <1>4, <1>5 DEF IndInv, TypeOK
<1>7. FoundInv'
  BY <1>1, <1>2, <1>3, <1>4 DEF IndInv, FoundInv
<1>8. SearchedInv'
  <2>1. \A i \in 1..Len(isr_queue') : ~(isr_queue'[i] <= 0)
    BY <1>1, <1>2, <1>5 DEF QueueInv
  <2>2. \A u \in Workers \ {w} : \A i \in 1..Len(isr_queue') :
          alert[u].pc = "find" /\ isr_queue'[i] <= alert[u].prev =>
            alert[u].value \cap masks[isr_queue'[i]] = {}
    BY <1>5 DEF IndInv, SearchedInv
  <2> QED BY <1>1, <1>3, <1>4, <2>1, <2>2 DEF SearchedInv
<1>9. CompletedInv' /\ CompletedOnce'
  <2>1. CASE ~Queued(id)
    <3>1. UNCHANGED <<isr_queue, masks, completed>>
      BY <1>1, <2>1 DEF RetrieveFoundRequest
    <3> QED BY <3>1 DEF IndInv, CompletedInv, CompletedOnce, Queued
  <2>2. CASE Queued(id)
    <3> DEFINE c == [id |-> id, matches |-> Matches(w, id)]
    <3>1. completed' = Append(completed, c) /\ isr_queue' = Without(id)
      BY <2>2 DEF RetrieveFoundRequest
    <3>2. c \in Completions /\ c.id = id /\ c.matches = alert[w].value \cap masks[id]
      BY <1>2 DEF Completions, Matches, AlertState
    <3> HIDE DEF c
    <3>3. /\ completed' \in Seq(Completions) /\ Len(completed) \in Nat
          /\ Len(completed') = Len(completed) + 1
          /\ \A i \in 1..Len(completed) : completed'[i] = completed[i]
          /\ completed'[Len(completed) + 1] = c
      BY <3>1, <3>2, AppendProperties, LenProperties DEF IndInv, CompletedInv
    <3>4. \A i \in 1..Len(completed) :
            /\ completed[i].id # id
            /\ completed[i].id \in 1..Len(masks)
            /\ completed[i].matches # {} /\ completed[i].matches \subseteq masks[completed[i].id]
            /\ \A j \in 1..Len(completed) : completed[i].id = completed[j].id => i = j
      BY <2>2 DEF IndInv, CompletedInv, CompletedOnce
    <3>5. /\ \A j \in 1..Len(isr_queue') : isr_queue'[j] # id
          /\ \A i \in 1..Len(completed) : \A j \in 1..Len(isr_queue') :
               isr_queue'[j] # completed[i].id
      <4>1. \A i \in 1..Len(isr_queue') :
              /\ isr_queue'[i] # id
              /\ \E j \in 1..Len(isr_queue) : isr_queue'[i] = isr_queue[j]
        BY <1>1, <2>2, <3>1, RemovedInv
      <4>2. \A i \in 1..Len(completed) : ~Queued(completed[i].id)
        BY DEF IndInv, CompletedOnce
      <4> QED BY <4>1, <4>2 DEF Queued
    <3>6. CompletedInv'
      BY <1>1, <1>2, <3>2, <3>3, <3>4 DEF CompletedInv
    <3>7. ASSUME NEW i \in 1..Len(completed')
          PROVE  /\ completed'[i].matches # {}
                 /\ completed'[i].matches \subseteq masks[completed'[i].id]
                 /\ \A j \in 1..Len(isr_queue') : isr_queue'[j] # completed'[i].id
                 /\ \A j \in 1..Len(completed') : completed'[i].id = completed'[j].id => i = j
      <4>1. i \in 1..Len(completed) \/ i = Len(completed) + 1
        BY <3>3
      <4>2. \A j \in 1..Len(completed') : j \in 1..Len(completed) \/ j = Len(completed) + 1
        BY <3>3
      <4>3. CASE i \in 1..Len(completed)
        BY <3>2, <3>3, <3>4, <3>5, <4>2, <4>3
      <4>4. CASE i = Len(completed) + 1
        BY <1>2, <3>2, <3>3, <3>4, <3>5, <4>2, <4>4
      <4> QED BY <4>1, <4>3, <4>4
    <3>8. CompletedOnce'
      BY <1>1, <3>7 DEF CompletedOnce, Queued
    <3> QED BY <3>6, <3>8
  <2> QED BY <2>1, <2>2
<1> QED BY <1>5, <1>6, <1>7, <1>8, <1>9 DEF IndInv

\* A new request is the last in the queue and has the largest number.
LEMMA TrackInv ==
  ASSUME IndInv, NEW m \in Masks, NEW valid \in BOOLEAN, TrackInterrupts(m, valid)
  PROVE  IndInv'
<1> DEFINE n == Len(masks) + 1
<1>1. UNCHANGED <<hw, last_isr_value, isr, isr_alert_dpc, alert, completed, raises>>
  BY DEF TrackInterrupts
<1>2. /\ m \in SUBSET Bits /\ Len(masks) \in Nat /\ Len(isr_queue) \in Nat
      /\ n \in 1..MaxRequests
  BY LenProperties, IsrAssumption DEF IndInv, TypeOK, TrackInterrupts
<1>3. /\ masks' \in Seq(SUBSET Bits) /\ Len(masks') = n /\ masks'[n] = m
      /\ \A i \in 1..Len(masks) : masks'[i] = masks[i]
  BY <1>2, AppendProperties DEF IndInv, TypeOK, TrackInterrupts
<1>4. /\ isr_queue' \in Seq(1..MaxRequests) /\ Len(isr_queue') = Len(isr_queue) + 1
      /\ isr_queue'[Len(isr_queue) + 1] = n
      /\ \A i \in 1..Len(isr_queue) : isr_queue'[i] = isr_queue[i]
  BY <1>2, AppendProperties DEF IndInv, TypeOK, TrackInterrupts
<1>5. \A i \in 1..Len(isr_queue) : isr_queue[i] \in 1..Len(masks)
  BY DEF IndInv, QueueInv
<1>6. TypeOK'
  <2>1. malformed' \subseteq 1..MaxRequests
    BY <1>2 DEF TrackInterrupts, IndInv, TypeOK
  <2> QED BY <1>1, <1>3, <1>4, <2>1 DEF IndInv, TypeOK
<1>7. \A j \in 1..Len(isr_queue') : j \in 1..Len(isr_queue) \/ j = Len(isr_queue) + 1
  BY <1>2, <1>4
<1>8. QueueInv'
  <2>1. Len(masks') <= MaxRequests /\ \A i \in 1..Len(isr_queue') : isr_queue'[i] \in 1..Len(masks')
    BY <1>2, <1>3, <1>4, <1>5, <1>7
  <2>2. ASSUME NEW i \in 1..Len(isr_queue'), NEW j \in 1..Len(isr_queue'), i < j
        PROVE  isr_queue'[i] < isr_queue'[j]
    <3>1. i \in 1..Len(isr_queue) /\ isr_queue'[i] = isr_queue[i]
      BY <1>2, <1>4, <2>2
    <3>2. CASE j \in 1..Len(isr_queue)
      BY <1>4, <2>2, <3>1, <3>2 DEF IndInv, QueueInv
    <3>3. CASE j = Len(isr_queue) + 1
      BY <1>2, <1>4, <1>5, <3>1, <3>3
    <3> QED BY <1>7, <3>2, <3>3
  <2> QED BY <2>1, <2>2 DEF QueueInv
<1>9. FoundInv'
  <2> SUFFICES ASSUME NEW w \in Workers
               PROVE  /\ alert[w].prev <= n /\ alert[w].tag <= n
                      /\ alert[w].pc = "clear" => alert[w].prev = 0
                      /\ alert[w].pc = "retrieve" => /\ alert[w].tag # 0
                                                     /\ alert[w].value \cap masks'[alert[w].tag] # {}
    BY <1>1, <1>3 DEF FoundInv
  <2>1. alert[w].prev \in Nat /\ alert[w].tag \in Nat
    BY IsrAssumption DEF IndInv, TypeOK, AlertState
  <2> QED BY <1>2, <1>3, <2>1 DEF IndInv, FoundInv
<1>10. SearchedInv'
  <2> SUFFICES ASSUME NEW w \in Workers, alert[w].pc = "find",
                      NEW j \in 1..Len(isr_queue'), isr_queue'[j] <= alert[w].prev
               PROVE  alert[w].value \cap masks'[isr_queue'[j]] = {}
    BY <1>1 DEF SearchedInv
  <2>1. alert[w].prev \in Nat /\ alert[w].prev <= Len(masks)
    BY IsrAssumption DEF IndInv, TypeOK, AlertState, FoundInv
  <2>2. j # Len(isr_queue) + 1
    BY <1>2, <1>4, <2>1
  <2>3. j \in 1..Len(isr_queue) /\ isr_queue'[j] = isr_queue[j] /\ masks'[isr_queue[j]] = masks[isr_queue[j]]
    BY <1>3, <1>4, <1>5, <1>7, <2>2
  <2> QED BY <2>3 DEF IndInv, SearchedInv
<1>11. \A i \in 1..Len(completed) : /\ completed[i].id \in 1..Len(masks)
                                    /\ masks'[completed[i].id] = masks[completed[i].id]
  BY <1>3 DEF IndInv, CompletedInv
<1>12. CompletedInv'
  BY <1>1, <1>2, <1>3, <1>11 DEF IndInv, CompletedInv
<1>13. CompletedOnce'
  <2>1. ASSUME NEW i \in 1..Len(completed), NEW j \in 1..Len(isr_queue')
        PROVE  isr_queue'[j] # completed[i].id
    <3>1. CASE j \in 1..Len(isr_queue)
      BY <1>4, <3>1 DEF IndInv, CompletedOnce, Queued
    <3>2. CASE j = Len(isr_queue) + 1
      BY <1>2, <1>4, <1>11, <3>2
    <3> QED BY <1>7, <3>1, <3>2
  <2> QED BY <1>1, <1>11, <2>1 DEF IndInv, CompletedOnce, Queued
<1> QED BY <1>6, <1>8, <1>9, <1>10, <1>12, <1>13 DEF IndInv

\* A cancelled request is taken out and not completed here.
LEMMA CancelInv ==
  ASSUME IndInv, NEW id, Cancel(id)
  PROVE  IndInv'
<1>1. /\ UNCHANGED <<hw, last_isr_value, isr, isr_alert_dpc, alert, masks, malformed, completed, raises>>
      /\ Queued(id) /\ isr_queue' = Without(id)
  BY DEF Cancel
<1>2. /\ isr_queue' \in Seq(1..MaxRequests) /\ QueueInv'
      /\ \A i \in 1..Len(isr_queue') :
           \E j \in 1..Len(isr_queue) : isr_queue'[i] = isr_queue[j]
  BY <1>1, RemovedInv
<1>3. TypeOK' /\ FoundInv' /\ CompletedInv'
  BY <1>1, <1>2 DEF IndInv, TypeOK, FoundInv, CompletedInv
<1>4. SearchedInv'
  BY <1>1, <1>2 DEF IndInv, SearchedInv
<1>5. CompletedOnce'
  <2>1. ASSUME NEW i \in 1..Len(completed), NEW j \in 1..Len(isr_queue')
        PROVE  isr_queue'[j] # completed[i].id
    BY <1>2 DEF IndInv, CompletedOnce, Queued
  <2> QED BY <1>1, <2>1 DEF IndInv, CompletedOnce, Queued
<1> QED BY <1>2, <1>3, <1>4, <1>5 DEF IndInv

\* Every step preserves the invariant.
LEMMA NextInv == IndInv /\ [Next]_vars => IndInv'
<1> SUFFICES ASSUME IndInv, [Next]_vars
             PROVE  IndInv'
  OBVIOUS
<1>1. CASE \/ \E b \in Bits : Raise(b)
           \/ IsrRead
           \/ IsrAdd
           \/ \E w \in Workers : AlertTake(w) \/ AlertClear(w)
           \/ UNCHANGED vars
  BY <1>1, QuietInv
<1>2. CASE \E w \in Workers : FindRequest(w)
  BY <1>2, FindInv
<1>3. CASE \E w \in Workers : RetrieveFoundRequest(w)
  BY <1>3, RetrieveInv
<1>4. CASE \E m \in Masks, valid \in BOOLEAN : TrackInterrupts(m, valid)
  BY <1>4, TrackInv
<1>5. CASE \E id \in 1..Len(masks) : Cancel(id)
  BY <1>5, CancelInv
<1> QED BY <1>1, <1>2, <1>3, <1>4, <1>5 DEF Next, AlertStep

\* The inductive invariant holds in every behaviour.
THEOREM IsrInvariance == Spec => []IndInv
BY InitIndInv, NextInv, PTL DEF Spec

\* However many executions of isr_alert_worker overlap with each other, with
\* cancellation and with new requests, a request is completed at most once, with
\* interrupts it asked for, and no longer waits then.
THEOREM CompletionSafety == Spec => []CompletedOnce
<1>1. IndInv => CompletedOnce
  BY DEF IndInv
<1> QED BY <1>1, IsrInvariance, PTL

\* What a search may never do: end while a request that it should have completed
\* still waits, unless a request with a short buffer is ahead of it.
THEOREM SearchSafety == Spec => SearchComplete
<1> DEFINE Complete(w) ==
             alert[w].pc = "find" /\ alert'[w].pc = "idle" =>
               \A j \in 1..Len(isr_queue) :
                 (\A i \in 1..j : isr_queue[i] \notin malformed) =>
                   alert[w].value \cap masks[isr_queue[j]] = {}
<1>1. ASSUME IndInv, NEW v \in Workers, FindRequest(v), NEW w \in Workers
      PROVE  Complete(w)
  <2>1. CASE w # v
    BY <1>1, <2>1 DEF FindRequest, IndInv, TypeOK
  <2>2. CASE /\ w = v
             /\ alert[w].prev # 0 => Queued(alert[w].prev)
             /\ Behind(w) = <<>>
    <3>1. \A j \in 1..Len(isr_queue) : isr_queue[j] <= alert[w].prev
      BY <1>1, <2>2, BehindProperties DEF IndInv
    <3> QED BY <1>1, <3>1 DEF IndInv, SearchedInv
  <2>3. CASE /\ w = v
             /\ alert[w].prev # 0 => Queued(alert[w].prev)
             /\ NextIsMalformed(w)
    <3>1. PICK k \in 1..Len(isr_queue) :
            /\ isr_queue[k] \in malformed
            /\ \A i \in 1..Len(isr_queue) :
                 isr_queue[i] <= isr_queue[k] => i = k \/ isr_queue[i] <= alert[w].prev
      BY <1>1, <2>3, BehindProperties DEF IndInv, NextIsMalformed
    <3>2. ASSUME NEW j \in 1..Len(isr_queue), \A i \in 1..j : isr_queue[i] \notin malformed
          PROVE  isr_queue[j] <= alert[w].prev
      <4>1. Len(isr_queue) \in Nat /\ \A i \in 1..Len(isr_queue) : isr_queue[i] \in Nat
        BY <1>1, LenProperties, ElementOfSeq, MaxInNat DEF IndInv, TypeOK
      <4>2. k \notin 1..j
        BY <3>1, <3>2
      <4>3. j < k
        BY <4>1, <4>2
      <4>4. isr_queue[j] < isr_queue[k]
        BY <1>1, <4>3 DEF IndInv, QueueInv
      <4> QED BY <3>1, <4>1, <4>3, <4>4
    <3> QED BY <1>1, <3>2 DEF FindRequest, IndInv, SearchedInv
  <2>4. CASE /\ w = v
             /\ ~(/\ alert[w].prev # 0 => Queued(alert[w].prev)
                  /\ Behind(w) = <<>> \/ NextIsMalformed(w))
    BY <1>1, <2>4 DEF FindRequest, SkipTo, IndInv, TypeOK, AlertState
  <2> QED BY <2>1, <2>2, <2>3, <2>4
<1>2. ASSUME IndInv, NEW v \in Workers, AlertTake(v) \/ AlertClear(v) \/ RetrieveFoundRequest(v),
             NEW w \in Workers
      PROVE  Complete(w)
  BY <1>2 DEF AlertTake, AlertClear, RetrieveFoundRequest, IdleAlert, IndInv, TypeOK, AlertState
<1>3. ASSUME UNCHANGED alert, NEW w \in Workers
      PROVE  Complete(w)
  BY <1>3
<1>4. IndInv /\ [Next]_vars => [\A w \in Workers : Complete(w)]_vars
  BY <1>1, <1>2, <1>3
  DEF Next, AlertStep, Raise, IsrRead, IsrAdd, TrackInterrupts, Cancel, vars
<1> QED BY <1>4, IsrInvariance, PTL DEF Spec, SearchComplete
=============================================================================
