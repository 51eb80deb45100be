------------------------------ MODULE TimerProofs ------------------------------
(***************************************************************************)
(* Theorems about TimerQueue: the list stays in order, so that the wait    *)
(* for select is exact and the library implements TimerSet.  They need     *)
(* that times compare, subtract and add as the moments they stand for,     *)
(* although a sum of exactly one second is not carried.                    *)
(***************************************************************************)
EXTENDS TimerQueue, TLAPS, WellFoundedInduction, SequenceTheorems

--------------------------------------------------------------------------------
(***************************************************************************)
(* Times.                                                                  *)
(***************************************************************************)

\* A product with the length of a second grows with its other factor.
LEMMA Scale ==
  ASSUME NEW a \in Int, NEW b \in Int, a < b
  PROVE  /\ a * Second \in Int
         /\ b * Second \in Int
         /\ a * Second + Second <= b * Second
<1>1. Second \in Nat /\ Second > 0
  BY TimerAssumption
<1>2. PICK k \in Nat : b = a + 1 + k
  <2>1. b - a - 1 \in Nat
    OBVIOUS
  <2>2. b = a + 1 + (b - a - 1)
    OBVIOUS
  <2> QED BY <2>1, <2>2
<1>3. k * Second >= 0
  BY <1>1
<1>4. b * Second = a * Second + Second + k * Second
  BY <1>1, <1>2
<1> QED BY <1>1, <1>3, <1>4

LEMMA MicrosType == \A tv \in Timeval : Micros(tv) \in Nat
BY TimerAssumption DEF Timeval, Micros

LEMMA ClockIsTimeval == Clock \subseteq Timeval
BY TimerAssumption DEF Clock, Timeval

\* Timeval_Cmp never contradicts the moments: it may tell two ways of writing
\* the same moment apart, and no more.
LEMMA CmpAgrees ==
  ASSUME NEW x \in Timeval, NEW y \in Timeval
  PROVE  /\ Timeval_Cmp(x, y) \in {-1, 0, 1}
         /\ Timeval_Cmp(x, y) <= 0 => Micros(x) <= Micros(y)
         /\ Timeval_Cmp(x, y) >= 0 => Micros(y) <= Micros(x)
<1>1. /\ x.sec \in Nat /\ x.usec \in 0 .. Second
      /\ y.sec \in Nat /\ y.usec \in 0 .. Second
      /\ Second \in Nat
  BY TimerAssumption DEF Timeval
<1>2. CASE x.sec < y.sec
  <2>1. x.sec * Second + Second <= y.sec * Second
    BY <1>1, <1>2, Scale
  <2> QED BY <1>1, <1>2, <2>1 DEF Timeval_Cmp, Micros
<1>3. CASE y.sec < x.sec
  <2>1. y.sec * Second + Second <= x.sec * Second
    BY <1>1, <1>3, Scale
  <2> QED BY <1>1, <1>3, <2>1 DEF Timeval_Cmp, Micros
<1>4. CASE x.sec = y.sec
  BY <1>1, <1>4 DEF Timeval_Cmp, Micros
<1> QED BY <1>1, <1>2, <1>3, <1>4

\* The order of the list is total and transitive.
LEMMA CmpOrder ==
  ASSUME NEW x \in Timeval, NEW y \in Timeval, NEW z \in Timeval
  PROVE  /\ Timeval_Cmp(x, y) <= 0 /\ Timeval_Cmp(y, z) <= 0 => Timeval_Cmp(x, z) <= 0
         /\ Timeval_Cmp(x, y) > 0 => Timeval_Cmp(y, x) <= 0
BY TimerAssumption DEF Timeval, Timeval_Cmp

\* Timeval_Sub is the difference of the moments, cut off at zero.
LEMMA SubIsDifference ==
  ASSUME NEW x \in Timeval, NEW y \in Clock
  PROVE  Micros(Timeval_Sub(x, y)) = IF Micros(x) <= Micros(y) THEN 0
                                     ELSE Micros(x) - Micros(y)
<1>1. /\ x.sec \in Nat /\ x.usec \in 0 .. Second
      /\ y.sec \in Nat /\ y.usec \in 0 .. Second - 1
      /\ Second \in Nat /\ Second > 0
  BY TimerAssumption DEF Timeval, Clock
<1>2. y \in Timeval
  BY ClockIsTimeval
<1>3. /\ Timeval_Cmp(x, y) \in {-1, 0, 1}
      /\ Timeval_Cmp(x, y) <= 0 => Micros(x) <= Micros(y)
      /\ Timeval_Cmp(x, y) >= 0 => Micros(y) <= Micros(x)
  BY <1>2, CmpAgrees
<1>4. Micros(x) \in Nat /\ Micros(y) \in Nat
  BY <1>2, MicrosType
<1>5. Micros(Zero) = 0
  BY <1>1 DEF Micros, Zero
<1>6. CASE Timeval_Cmp(x, y) < 0
  BY <1>3, <1>5, <1>6 DEF Timeval_Sub
<1>7. CASE ~ (Timeval_Cmp(x, y) < 0) /\ x.usec < y.usec
  <2>1. (x.sec - 1 - y.sec) * Second = x.sec * Second - Second - y.sec * Second
    BY <1>1
  <2>2. Micros(Timeval_Sub(x, y)) = (x.sec - 1 - y.sec) * Second + (x.usec + Second - y.usec)
    BY <1>7 DEF Timeval_Sub, Micros
  <2>3. Micros(Timeval_Sub(x, y)) = Micros(x) - Micros(y)
    BY <1>1, <2>1, <2>2 DEF Micros
  <2>4. Micros(y) <= Micros(x)
    BY <1>3, <1>7
  <2> QED BY <1>4, <2>3, <2>4
<1>8. CASE ~ (Timeval_Cmp(x, y) < 0) /\ ~ (x.usec < y.usec)
  <2>1. (x.sec - y.sec) * Second = x.sec * Second - y.sec * Second
    BY <1>1
  <2>2. Micros(Timeval_Sub(x, y)) = (x.sec - y.sec) * Second + (x.usec - y.usec)
    BY <1>8 DEF Timeval_Sub, Micros
  <2>3. Micros(Timeval_Sub(x, y)) = Micros(x) - Micros(y)
    BY <1>1, <2>1, <2>2 DEF Micros
  <2>4. Micros(y) <= Micros(x)
    BY <1>3, <1>8
  <2> QED BY <1>4, <2>3, <2>4
<1> QED BY <1>6, <1>7, <1>8

LEMMA DivMod ==
  ASSUME NEW u \in Nat, NEW d \in Nat, d > 0
  PROVE  /\ u \div d \in Nat
         /\ u % d \in 0 .. d - 1
         /\ u = (u \div d) * d + (u % d)
<1>1. u % d \in 0 .. d - 1
  BY SMT
<1>2. u \div d \in Int
  BY SMT
<1>3. u = (u \div d) * d + (u % d)
  BY <1>1, <1>2, Z3
<1>4. u \div d >= 0
  BY <1>1, <1>2, <1>3, SMT
<1> QED BY <1>1, <1>2, <1>3, <1>4

\* Timeval_Addusecs adds.
LEMMA AddusecsAdds ==
  ASSUME NEW tv \in Clock, NEW usecs \in Nat
  PROVE  /\ Timeval_Addusecs(tv, usecs) \in Timeval
         /\ Micros(Timeval_Addusecs(tv, usecs)) = Micros(tv) + usecs
<1>1. /\ tv.sec \in Nat /\ tv.usec \in 0 .. Second - 1
      /\ Second \in Nat /\ Second > 0
      /\ tv.usec + usecs \in Nat
  BY TimerAssumption DEF Clock
<1>2. CASE tv.usec + usecs > Second
  <2>1. PICK c \in Nat, r \in 0 .. Second - 1 :
          /\ Timeval_Addusecs(tv, usecs) = [sec |-> tv.sec + c, usec |-> r]
          /\ tv.usec + usecs = c * Second + r
    <3>1. Timeval_Addusecs(tv, usecs) =
            [sec |-> tv.sec + ((tv.usec + usecs) \div Second),
             usec |-> (tv.usec + usecs) % Second]
      BY <1>2 DEF Timeval_Addusecs
    <3> QED BY <1>1, <3>1, DivMod
  <2>2. Timeval_Addusecs(tv, usecs) = [sec |-> tv.sec + c, usec |-> r]
    BY <2>1
  <2>3. tv.usec + usecs = c * Second + r
    BY <2>1
  <2>4. /\ (tv.sec + c) * Second = tv.sec * Second + c * Second
        /\ tv.sec * Second \in Int
        /\ c * Second \in Int
    BY <1>1
  <2>5. Timeval_Addusecs(tv, usecs) \in Timeval
    BY <1>1, <2>2 DEF Timeval
  <2>6. Micros(Timeval_Addusecs(tv, usecs)) = (tv.sec + c) * Second + r
    BY <2>2 DEF Micros
  <2>7. Micros(Timeval_Addusecs(tv, usecs)) = Micros(tv) + usecs
    <3>1. Micros(tv) = tv.sec * Second + tv.usec
      BY DEF Micros
    <3>2. Micros(Timeval_Addusecs(tv, usecs)) = (tv.sec * Second + c * Second) + r
      BY <2>4, <2>6
    <3>3. tv.usec \in Int /\ usecs \in Int /\ r \in Int
      BY <1>1
    <3> QED BY <2>3, <2>4, <3>1, <3>2, <3>3
  <2> QED BY <2>5, <2>7
<1>3. CASE ~ (tv.usec + usecs > Second)
  BY <1>1, <1>3 DEF Timeval_Addusecs, Timeval, Micros
<1> QED BY <1>2, <1>3

--------------------------------------------------------------------------------
(***************************************************************************)
(* The list.                                                               *)
(***************************************************************************)

LEMMA LeastNumber ==
  ASSUME NEW T, T \subseteq Nat, T # {}
  PROVE  \E x \in T : \A y \in T : x <= y
<1>1. PICK x \in T : \A y \in T : ~ (<<y, x>> \in OpToRel(<, Nat))
  BY NatLessThanWellFounded, WFMin
<1>2. \A y \in T : ~ (y < x)
  BY <1>1 DEF OpToRel
<1> QED BY <1>2

\* The scan of Eq_Add stops somewhere.
LEMMA PlaceExists ==
  ASSUME NEW q \in Seq(Event), NEW n \in Event
  PROVE  \E k \in 1 .. Len(q) + 1 : IsPlace(q, n, k)
<1> DEFINE Stops == {k \in 1 .. Len(q) + 1 : k <= Len(q) => ~ (Event_Cmp(n, q[k]) > 0)}
<1>1. Len(q) + 1 \in Stops
  OBVIOUS
<1>2. PICK k \in Stops : \A j \in Stops : k <= j
  <2>1. Stops \subseteq Nat /\ Stops # {}
    BY <1>1
  <2> HIDE DEF Stops
  <2> QED BY <2>1, LeastNumber
<1>3. k \in 1 .. Len(q) + 1 /\ (k <= Len(q) => ~ (Event_Cmp(n, q[k]) > 0))
  BY <1>2
<1>4. ASSUME NEW j \in 1 .. k - 1
      PROVE  Event_Cmp(n, q[j]) > 0
  <2>1. j \in 1 .. Len(q) + 1 /\ j <= Len(q) /\ ~ (k <= j)
    BY <1>3
  <2> QED BY <1>2, <2>1
<1> QED BY <1>3, <1>4 DEF IsPlace

LEMMA CmpType ==
  ASSUME NEW x \in Event, NEW y \in Event
  PROVE  Event_Cmp(x, y) \in {-1, 0, 1}
BY CmpAgrees DEF Event, Event_Cmp

\* Insertion, described: everything before the new event keeps its place,
\* everything behind it moves up by one.
LEMMA AddInserts ==
  ASSUME NEW q \in Seq(Event), NEW n \in Event
  PROVE  \E i \in 1 .. Len(q) + 1 :
           /\ IsPlace(q, n, i)
           /\ Eq_Add(q, n) \in Seq(Event)
           /\ Len(Eq_Add(q, n)) = Len(q) + 1
           /\ \A j \in 1 .. Len(q) + 1 :
                Eq_Add(q, n)[j] = IF j < i THEN q[j] ELSE IF j = i THEN n ELSE q[j - 1]
<1> DEFINE i == CHOOSE k \in 1 .. Len(q) + 1 : IsPlace(q, n, k)
<1>1. i \in 1 .. Len(q) + 1 /\ IsPlace(q, n, i)
  BY PlaceExists
<1>2. Eq_Add(q, n) =
        [j \in 1 .. Len(q) + 1 |-> IF j < i THEN q[j] ELSE IF j = i THEN n ELSE q[j - 1]]
  BY DEF Eq_Add
<1> HIDE DEF i
<1>3. \A j \in 1 .. Len(q) + 1 :
        (IF j < i THEN q[j] ELSE IF j = i THEN n ELSE q[j - 1]) \in Event
  <2> SUFFICES ASSUME NEW j \in 1 .. Len(q) + 1
               PROVE  (IF j < i THEN q[j] ELSE IF j = i THEN n ELSE q[j - 1]) \in Event
    OBVIOUS
  <2>1. CASE j < i
    BY <1>1, <2>1
  <2>2. CASE j = i
    BY <2>2
  <2>3. CASE j > i
    <3>1. j - 1 \in 1 .. Len(q)
      BY <1>1, <2>3
    <3> QED BY <1>1, <2>3, <3>1
  <2> QED BY <1>1, <2>1, <2>2, <2>3
<1>4. Eq_Add(q, n) \in Seq(Event) /\ Len(Eq_Add(q, n)) = Len(q) + 1
  BY <1>2, <1>3
<1> QED BY <1>1, <1>2, <1>4

\* Eq_Add keeps the order.
LEMMA AddSorts ==
  ASSUME NEW q \in Seq(Event), NEW n \in Event, IsSorted(q)
  PROVE  IsSorted(Eq_Add(q, n))
<1> DEFINE r == Eq_Add(q, n)
<1>1. PICK i \in 1 .. Len(q) + 1 :
        /\ IsPlace(q, n, i)
        /\ r \in Seq(Event)
        /\ Len(r) = Len(q) + 1
        /\ \A j \in 1 .. Len(q) + 1 :
             r[j] = IF j < i THEN q[j] ELSE IF j = i THEN n ELSE q[j - 1]
  BY AddInserts
<1> HIDE DEF r
<1>2. \A x, y \in Event : Event_Cmp(x, y) > 0 => Event_Cmp(y, x) <= 0
  BY CmpOrder DEF Event, Event_Cmp
<1>3. \A x, y, z \in Event : Event_Cmp(x, y) <= 0 /\ Event_Cmp(y, z) <= 0 => Event_Cmp(x, z) <= 0
  BY CmpOrder DEF Event, Event_Cmp
<1>4. \A k \in 1 .. Len(q) : q[k] \in Event
  OBVIOUS
<1>5. \A k, l \in 1 .. Len(q) : k < l => Event_Cmp(q[k], q[l]) <= 0
  BY DEF IsSorted
<1>6. SUFFICES ASSUME NEW a \in 1 .. Len(q) + 1, NEW b \in 1 .. Len(q) + 1, a < b
               PROVE  Event_Cmp(r[a], r[b]) <= 0
  BY <1>1 DEF IsSorted, r
<1>7. CASE b < i
  BY <1>1, <1>5, <1>6, <1>7
<1>8. CASE b = i
  <2>1. a \in 1 .. i - 1 /\ a \in 1 .. Len(q)
    BY <1>1, <1>6, <1>8
  <2>2. Event_Cmp(n, q[a]) > 0
    BY <1>1, <2>1 DEF IsPlace
  <2>3. Event_Cmp(q[a], n) <= 0
    BY <1>2, <1>4, <2>1, <2>2
  <2> QED BY <1>1, <1>6, <1>8, <2>3
<1>9. CASE b > i
  <2>1. b - 1 \in 1 .. Len(q) /\ r[b] = q[b - 1]
    BY <1>1, <1>6, <1>9
  <2>2. CASE a < i
    <3>1. a \in 1 .. Len(q) /\ a < b - 1 /\ r[a] = q[a]
      BY <1>1, <1>6, <1>9, <2>2
    <3> QED BY <1>5, <2>1, <3>1
  <2>3. CASE a = i
    <3>1. r[a] = n /\ i \in 1 .. Len(q)
      BY <1>1, <1>6, <1>9, <2>3
    <3>2. Event_Cmp(n, q[i]) <= 0
      <4>1. Event_Cmp(n, q[i]) \in {-1, 0, 1}
        BY <1>4, <3>1, CmpType
      <4> QED BY <1>1, <3>1, <4>1 DEF IsPlace
    <3>3. CASE i = b - 1
      BY <2>1, <3>1, <3>2, <3>3
    <3>4. CASE i < b - 1
      BY <1>3, <1>4, <1>5, <2>1, <3>1, <3>2, <3>4
    <3> QED BY <1>1, <1>9, <3>3, <3>4
  <2>4. CASE a > i
    <3>1. a - 1 \in 1 .. Len(q) /\ a - 1 < b - 1 /\ r[a] = q[a - 1]
      BY <1>1, <1>6, <2>4
    <3> QED BY <1>5, <2>1, <3>1
  <2> QED BY <1>1, <1>6, <2>2, <2>3, <2>4
<1> QED BY <1>1, <1>6, <1>7, <1>8, <1>9

\* What the list holds after an insertion.
LEMMA AddHolds ==
  ASSUME NEW q \in Seq(Event), NEW n \in Event
  PROVE  /\ \A j \in DOMAIN Eq_Add(q, n) :
              Eq_Add(q, n)[j] = n \/ \E k \in DOMAIN q : Eq_Add(q, n)[j] = q[k]
         /\ \E j \in DOMAIN Eq_Add(q, n) : Eq_Add(q, n)[j] = n
         /\ \A k \in DOMAIN q : \E j \in DOMAIN Eq_Add(q, n) : Eq_Add(q, n)[j] = q[k]
<1> DEFINE r == Eq_Add(q, n)
<1>1. PICK i \in 1 .. Len(q) + 1 :
        /\ r \in Seq(Event)
        /\ Len(r) = Len(q) + 1
        /\ \A j \in 1 .. Len(q) + 1 :
             r[j] = IF j < i THEN q[j] ELSE IF j = i THEN n ELSE q[j - 1]
  BY AddInserts
<1> HIDE DEF r
<1>2. DOMAIN r = 1 .. Len(q) + 1 /\ DOMAIN q = 1 .. Len(q)
  BY <1>1
<1>3. ASSUME NEW j \in 1 .. Len(q) + 1
      PROVE  r[j] = n \/ \E k \in 1 .. Len(q) : r[j] = q[k]
  <2>1. CASE j < i
    <3>1. j \in 1 .. Len(q) /\ r[j] = q[j]
      BY <1>1, <2>1
    <3> QED BY <3>1
  <2>2. CASE j = i
    BY <1>1, <2>2
  <2>3. CASE j > i
    <3>1. j - 1 \in 1 .. Len(q) /\ r[j] = q[j - 1]
      BY <1>1, <2>3
    <3> QED BY <3>1
  <2> QED BY <1>1, <2>1, <2>2, <2>3
<1>4. r[i] = n
  BY <1>1
<1>5. ASSUME NEW k \in 1 .. Len(q)
      PROVE  \E j \in 1 .. Len(q) + 1 : r[j] = q[k]
  <2>1. CASE k < i
    BY <1>1, <2>1
  <2>2. CASE k >= i
    <3>1. k + 1 \in 1 .. Len(q) + 1 /\ r[k + 1] = q[k]
      BY <1>1, <2>2
    <3> QED BY <3>1
  <2> QED BY <1>1, <2>1, <2>2
<1> QED BY <1>1, <1>2, <1>3, <1>4, <1>5 DEF r

\* No handle is doubled by inserting an event with a new one.
LEMMA AddKeepsHandlesApart ==
  ASSUME NEW q \in Seq(Event), NEW n \in Event,
         \A i, j \in DOMAIN q : q[i].hdl = q[j].hdl => i = j,
         \A i \in DOMAIN q : q[i].hdl # n.hdl
  PROVE  \A i, j \in DOMAIN Eq_Add(q, n) :
           Eq_Add(q, n)[i].hdl = Eq_Add(q, n)[j].hdl => i = j
<1> DEFINE r == Eq_Add(q, n)
<1>1. PICK p \in 1 .. Len(q) + 1 :
        /\ r \in Seq(Event)
        /\ Len(r) = Len(q) + 1
        /\ \A j \in 1 .. Len(q) + 1 :
             r[j] = IF j < p THEN q[j] ELSE IF j = p THEN n ELSE q[j - 1]
  BY AddInserts
<1> HIDE DEF r
<1>2. DOMAIN r = 1 .. Len(q) + 1 /\ DOMAIN q = 1 .. Len(q)
  BY <1>1
<1> DEFINE Old(j) == IF j < p THEN j ELSE j - 1
<1>3. \A j \in 1 .. Len(q) + 1 : j # p => Old(j) \in 1 .. Len(q) /\ r[j] = q[Old(j)]
  BY <1>1
<1>4. ASSUME NEW i \in 1 .. Len(q) + 1, NEW j \in 1 .. Len(q) + 1, r[i].hdl = r[j].hdl
      PROVE  i = j
  <2>1. CASE i = p \/ j = p
    <3>1. r[p] = n
      BY <1>1
    <3>2. \A k \in 1 .. Len(q) + 1 : k # p => r[k].hdl # n.hdl
      <4> SUFFICES ASSUME NEW k \in 1 .. Len(q) + 1, k # p
                   PROVE  r[k].hdl # n.hdl
        OBVIOUS
      <4>1. Old(k) \in 1 .. Len(q) /\ r[k] = q[Old(k)]
        BY <1>3
      <4> HIDE DEF Old
      <4> QED BY <1>2, <4>1
    <3> QED BY <1>4, <2>1, <3>1, <3>2
  <2>2. CASE i # p /\ j # p
    <3>1. Old(i) = Old(j)
      BY <1>2, <1>3, <1>4, <2>2, SMTT(30)
    <3> QED BY <1>1, <1>4, <2>2, <3>1
  <2> QED BY <2>1, <2>2
<1> QED BY <1>2, <1>4 DEF r

--------------------------------------------------------------------------------
(***************************************************************************)
(* The inductive invariant.                                                *)
(***************************************************************************)

TimerInv == TypeOK /\ Sorted /\ HandlesDiffer

\* The event of a timer whose timeout starts now.
LEMMA NewEvent ==
  ASSUME TypeOK, NEW hdl \in Nat, NEW timeout \in Nat, NEW delay \in Nat
  PROVE  /\ Event_SetDelay(hdl, timeout, delay) \in Event
         /\ Event_SetDelay(hdl, timeout, delay).hdl = hdl
         /\ Event_SetDelay(hdl, timeout, delay).timeout = timeout
         /\ Micros(Event_SetDelay(hdl, timeout, delay).tv) = Micros(now) + delay * Millisecond
<1>1. delay * Millisecond \in Nat
  BY TimerAssumption
<1>2. now \in Clock
  BY DEF TypeOK
<1>3. /\ Timeval_Addusecs(now, delay * Millisecond) \in Timeval
      /\ Micros(Timeval_Addusecs(now, delay * Millisecond)) = Micros(now) + delay * Millisecond
  BY <1>1, <1>2, AddusecsAdds
<1> QED BY <1>3 DEF Event_SetDelay, Event

\* Eq_AddAfter, with a handle that is in use nowhere else.
LEMMA AddAfterKeeps ==
  ASSUME TimerInv, NEW hdl \in Nat, NEW timeout \in Nat, NEW bound \in Nat,
         hdl < bound, next_handle <= bound,
         \A i \in DOMAIN head : head[i].hdl # hdl
  PROVE  /\ Eq_AddAfter(head, hdl, timeout) \in Seq(Event)
         /\ IsSorted(Eq_AddAfter(head, hdl, timeout))
         /\ \A i, j \in DOMAIN Eq_AddAfter(head, hdl, timeout) :
              Eq_AddAfter(head, hdl, timeout)[i].hdl = Eq_AddAfter(head, hdl, timeout)[j].hdl
                => i = j
         /\ \A i \in DOMAIN Eq_AddAfter(head, hdl, timeout) :
              /\ Eq_AddAfter(head, hdl, timeout)[i].hdl < bound
              /\ \/ Eq_AddAfter(head, hdl, timeout)[i].hdl = hdl
                 \/ \E k \in DOMAIN head :
                      Eq_AddAfter(head, hdl, timeout)[i].hdl = head[k].hdl
<1> DEFINE n == Event_SetDelay(hdl, timeout, timeout)
<1>1. n \in Event /\ n.hdl = hdl
  BY NewEvent DEF TimerInv
<1>2. head \in Seq(Event) /\ IsSorted(head) /\ next_handle \in Nat
  BY DEF TimerInv, TypeOK, Sorted
<1>3. /\ \A i, j \in DOMAIN head : head[i].hdl = head[j].hdl => i = j
      /\ \A i \in DOMAIN head : head[i].hdl < next_handle
  BY DEF TimerInv, HandlesDiffer
<1>4. Eq_AddAfter(head, hdl, timeout) = Eq_Add(head, n)
  BY DEF Eq_AddAfter
<1> HIDE DEF n
<1>5. Eq_Add(head, n) \in Seq(Event)
  BY <1>1, <1>2, AddInserts
<1>6. IsSorted(Eq_Add(head, n))
  BY <1>1, <1>2, AddSorts
<1>7. \A i, j \in DOMAIN Eq_Add(head, n) :
        Eq_Add(head, n)[i].hdl = Eq_Add(head, n)[j].hdl => i = j
  BY <1>1, <1>2, <1>3, AddKeepsHandlesApart
<1>8. \A j \in DOMAIN Eq_Add(head, n) :
        Eq_Add(head, n)[j] = n \/ \E k \in DOMAIN head : Eq_Add(head, n)[j] = head[k]
  BY <1>1, <1>2, AddHolds
<1>9. \A j \in DOMAIN Eq_Add(head, n) :
        /\ Eq_Add(head, n)[j].hdl < bound
        /\ \/ Eq_Add(head, n)[j].hdl = hdl
           \/ \E k \in DOMAIN head : Eq_Add(head, n)[j].hdl = head[k].hdl
  <2> SUFFICES ASSUME NEW j \in DOMAIN Eq_Add(head, n)
               PROVE  /\ Eq_Add(head, n)[j].hdl < bound
                      /\ \/ Eq_Add(head, n)[j].hdl = hdl
                         \/ \E k \in DOMAIN head : Eq_Add(head, n)[j].hdl = head[k].hdl
    OBVIOUS
  <2>1. CASE Eq_Add(head, n)[j] = n
    BY <1>1, <2>1
  <2>2. ASSUME NEW k \in DOMAIN head, Eq_Add(head, n)[j] = head[k]
        PROVE  Eq_Add(head, n)[j].hdl < bound
    <3>0. head[k] \in Event
      BY <1>2
    <3>1. head[k].hdl \in Nat /\ head[k].hdl < next_handle
      BY <1>3, <3>0 DEF Event
    <3> QED BY <1>2, <2>2, <3>1
  <2> QED BY <1>8, <2>1, <2>2
<1> QED BY <1>4, <1>5, <1>6, <1>7, <1>9

\* Taking out the element at place i.
LEMMA RemoveDescribed ==
  ASSUME NEW q \in Seq(Event), NEW i \in 1 .. Len(q)
  PROVE  /\ Eq_Remove(q, i) \in Seq(Event)
         /\ Len(Eq_Remove(q, i)) = Len(q) - 1
         /\ DOMAIN Eq_Remove(q, i) = 1 .. Len(q) - 1
         /\ \A j \in 1 .. Len(q) - 1 :
              Eq_Remove(q, i)[j] = IF j < i THEN q[j] ELSE q[j + 1]
<1>1. Len(q) - 1 \in Nat
  OBVIOUS
<1>2. \A j \in 1 .. Len(q) - 1 : (IF j < i THEN q[j] ELSE q[j + 1]) \in Event
  OBVIOUS
<1> QED BY <1>1, <1>2 DEF Eq_Remove

\* Popping the head is removal at place 1.
LEMMA PopIsRemove ==
  ASSUME NEW q \in Seq(Event), q # << >>
  PROVE  /\ 1 \in 1 .. Len(q)
         /\ Head(q) = q[1]
         /\ Tail(q) = Eq_Remove(q, 1)
<1>1. Len(q) \in Nat \ {0}
  OBVIOUS
<1>2. /\ Tail(q) \in Seq(Event)
      /\ Len(Tail(q)) = Len(q) - 1
      /\ \A j \in 1 .. Len(Tail(q)) : Tail(q)[j] = q[j + 1]
  BY HeadTailProperties
<1>3. /\ Eq_Remove(q, 1) \in Seq(Event)
      /\ Len(Eq_Remove(q, 1)) = Len(q) - 1
      /\ \A j \in 1 .. Len(q) - 1 : Eq_Remove(q, 1)[j] = IF j < 1 THEN q[j] ELSE q[j + 1]
  BY <1>1, RemoveDescribed
<1>4. Tail(q) = Eq_Remove(q, 1)
  <2>1. \A j \in 1 .. Len(Tail(q)) : Tail(q)[j] = Eq_Remove(q, 1)[j]
    BY <1>1, <1>2, <1>3
  <2> QED BY <1>2, <1>3, <2>1, SeqEqual
<1> QED BY <1>1, <1>4

\* Removal keeps the order and the handles apart.
LEMMA RemoveKeeps ==
  ASSUME NEW q \in Seq(Event), NEW i \in 1 .. Len(q), IsSorted(q),
         \A a, b \in DOMAIN q : q[a].hdl = q[b].hdl => a = b
  PROVE  /\ IsSorted(Eq_Remove(q, i))
         /\ \A a, b \in DOMAIN Eq_Remove(q, i) :
              Eq_Remove(q, i)[a].hdl = Eq_Remove(q, i)[b].hdl => a = b
         /\ \A a \in DOMAIN Eq_Remove(q, i) :
              /\ Eq_Remove(q, i)[a].hdl # q[i].hdl
              /\ \E k \in DOMAIN q : k # i /\ Eq_Remove(q, i)[a] = q[k]
         /\ \A k \in DOMAIN q : k # i => \E a \in DOMAIN Eq_Remove(q, i) : Eq_Remove(q, i)[a] = q[k]
<1> DEFINE r == Eq_Remove(q, i)
           At(j) == IF j < i THEN j ELSE j + 1
<1>1. /\ DOMAIN r = 1 .. Len(q) - 1
      /\ \A j \in 1 .. Len(q) - 1 : r[j] = IF j < i THEN q[j] ELSE q[j + 1]
  BY RemoveDescribed
<1>2. DOMAIN q = 1 .. Len(q) /\ Len(q) \in Nat
  OBVIOUS
<1> HIDE DEF r
<1>3. \A j \in 1 .. Len(q) - 1 : At(j) \in 1 .. Len(q) /\ At(j) # i /\ r[j] = q[At(j)]
  BY <1>1, <1>2
<1>4. \A a, b \in 1 .. Len(q) - 1 : (a < b => At(a) < At(b)) /\ (At(a) = At(b) => a = b)
  BY <1>2
<1>5. \A k \in 1 .. Len(q) : k # i => \E a \in 1 .. Len(q) - 1 : At(a) = k
  <2> SUFFICES ASSUME NEW k \in 1 .. Len(q), k # i
               PROVE  \E a \in 1 .. Len(q) - 1 : At(a) = k
    OBVIOUS
  <2>1. CASE k < i
    BY <1>2, <2>1
  <2>2. CASE k > i
    <3>1. k - 1 \in 1 .. Len(q) - 1 /\ At(k - 1) = k
      BY <1>2, <2>2
    <3> QED BY <3>1
  <2> QED BY <2>1, <2>2
<1> HIDE DEF At
<1>6. IsSorted(r)
  BY <1>1, <1>2, <1>3, <1>4 DEF IsSorted
<1>7. \A a, b \in DOMAIN r : r[a].hdl = r[b].hdl => a = b
  BY <1>1, <1>2, <1>3, <1>4
<1>8. \A a \in DOMAIN r : r[a].hdl # q[i].hdl /\ \E k \in DOMAIN q : k # i /\ r[a] = q[k]
  BY <1>1, <1>2, <1>3
<1>9. \A k \in DOMAIN q : k # i => \E a \in DOMAIN r : r[a] = q[k]
  <2> SUFFICES ASSUME NEW k \in 1 .. Len(q), k # i
               PROVE  \E a \in 1 .. Len(q) - 1 : r[a] = q[k]
    BY <1>1, <1>2
  <2>1. PICK a \in 1 .. Len(q) - 1 : At(a) = k
    BY <1>5
  <2>2. r[a] = q[k]
    BY <1>3, <2>1
  <2> QED BY <2>2
<1> QED BY <1>6, <1>7, <1>8, <1>9 DEF r

LEMMA OneElement ==
  ASSUME NEW q \in Seq(Event), Len(q) <= 1, q # << >>
  PROVE  /\ 1 \in DOMAIN q
         /\ q[1] \in Event
         /\ q = <<q[1]>>
         /\ DOMAIN q = {1}
<1>1. Len(q) = 1
  <2>1. Len(q) \in Nat \ {0}
    BY EmptySeq
  <2> QED BY <2>1
<1>2. DOMAIN q = {1} /\ q[1] \in Event
  BY <1>1
<1>3. q = <<q[1]>>
  BY <1>1, <1>2
<1> QED BY <1>2, <1>3

LEMMA InitInv == Init => TimerInv
BY TimerAssumption DEF Init, TimerInv, TypeOK, Clock, Sorted, IsSorted, HandlesDiffer

LEMMA StepInv == TimerInv /\ [Next]_vars => TimerInv'
<1> SUFFICES ASSUME TimerInv, [Next]_vars
             PROVE  TimerInv'
  OBVIOUS
<1> USE DEF TimerInv
<1>0. /\ now \in Clock
      /\ head \in Seq(Event)
      /\ executing \in Seq(Event)
      /\ Len(executing) <= 1
      /\ next_handle \in Nat \ {0}
      /\ IsSorted(head)
  BY DEF TypeOK, Sorted
<1>1. CASE Advance
  <2>1. now' \in Clock
    BY <1>0, <1>1, TimerAssumption, SMTT(30) DEF Advance, Later, Clock
  <2> QED BY <1>1, <2>1 DEF Advance, timerVars, TypeOK, Sorted, HandlesDiffer
<1>2. ASSUME NEW timeout \in Timeouts, AddTimer(timeout)
      PROVE  TimerInv'
  <2>1. timeout \in Nat /\ next_handle \in Nat /\ next_handle + 1 \in Nat
    BY <1>0, TimerAssumption
  <2>2. \A i \in DOMAIN head : head[i].hdl # next_handle
    BY <1>0 DEF HandlesDiffer
  <2>3. /\ Eq_AddAfter(head, next_handle, timeout) \in Seq(Event)
        /\ IsSorted(Eq_AddAfter(head, next_handle, timeout))
        /\ \A i, j \in DOMAIN Eq_AddAfter(head, next_handle, timeout) :
             Eq_AddAfter(head, next_handle, timeout)[i].hdl
               = Eq_AddAfter(head, next_handle, timeout)[j].hdl => i = j
        /\ \A i \in DOMAIN Eq_AddAfter(head, next_handle, timeout) :
             /\ Eq_AddAfter(head, next_handle, timeout)[i].hdl < next_handle + 1
             /\ \/ Eq_AddAfter(head, next_handle, timeout)[i].hdl = next_handle
                \/ \E k \in DOMAIN head :
                     Eq_AddAfter(head, next_handle, timeout)[i].hdl = head[k].hdl
    BY <2>1, <2>2, AddAfterKeeps, SMTT(30)
  <2>4. /\ head' = Eq_AddAfter(head, next_handle, timeout)
        /\ next_handle' = next_handle + 1
        /\ now' = now /\ executing' = executing
    BY <1>2 DEF AddTimer
  <2>5. TypeOK' /\ Sorted'
    BY <1>0, <2>1, <2>3, <2>4 DEF TypeOK, Sorted
  <2>6. HandlesDiffer'
    <3>1. \A i \in DOMAIN executing :
            /\ executing[i].hdl \in Nat
            /\ executing[i].hdl < next_handle
            /\ \A j \in DOMAIN head : head[j].hdl # executing[i].hdl
      <4>1. \A i \in DOMAIN executing : executing[i] \in Event
        BY <1>0
      <4> QED BY <4>1 DEF HandlesDiffer, Event
    <3>2. \A i \in DOMAIN executing :
            /\ executing[i].hdl < next_handle + 1
            /\ executing[i].hdl # next_handle
      BY <2>1, <3>1
    <3> QED BY <2>3, <2>4, <3>1, <3>2 DEF HandlesDiffer
  <2> QED BY <2>5, <2>6
<1>3. ASSUME NEW hdl \in 1 .. MaxTimers, RemoveTimer(hdl)
      PROVE  TimerInv'
  <2>1. PICK i \in 1 .. Len(head) : head' = Eq_Remove(head, i)
    BY <1>0, <1>3 DEF RemoveTimer
  <2>2. UNCHANGED <<now, executing, next_handle>>
    BY <1>3 DEF RemoveTimer
  <2>3. Eq_Remove(head, i) \in Seq(Event)
    BY <1>0, RemoveDescribed
  <2>4. /\ IsSorted(Eq_Remove(head, i))
        /\ \A a, b \in DOMAIN Eq_Remove(head, i) :
             Eq_Remove(head, i)[a].hdl = Eq_Remove(head, i)[b].hdl => a = b
        /\ \A a \in DOMAIN Eq_Remove(head, i) :
             \E k \in DOMAIN head : Eq_Remove(head, i)[a] = head[k]
    BY <1>0, RemoveKeeps DEF HandlesDiffer
  <2>5. TypeOK' /\ Sorted'
    BY <1>0, <2>1, <2>2, <2>3, <2>4 DEF TypeOK, Sorted
  <2>6. HandlesDiffer'
    BY <2>1, <2>2, <2>4 DEF HandlesDiffer
  <2> QED BY <2>5, <2>6
<1>4. CASE BeginExecute
  <2>1. /\ executing' = <<head[1]>>
        /\ head' = Eq_Remove(head, 1)
        /\ 1 \in 1 .. Len(head)
        /\ UNCHANGED <<now, next_handle>>
    BY <1>0, <1>4, PopIsRemove DEF BeginExecute
  <2>2. Eq_Remove(head, 1) \in Seq(Event)
    BY <1>0, <2>1, RemoveDescribed
  <2>3. /\ IsSorted(Eq_Remove(head, 1))
        /\ \A a, b \in DOMAIN Eq_Remove(head, 1) :
             Eq_Remove(head, 1)[a].hdl = Eq_Remove(head, 1)[b].hdl => a = b
        /\ \A a \in DOMAIN Eq_Remove(head, 1) :
             /\ Eq_Remove(head, 1)[a].hdl # head[1].hdl
             /\ \E k \in DOMAIN head : Eq_Remove(head, 1)[a] = head[k]
    BY <1>0, <2>1, RemoveKeeps DEF HandlesDiffer
  <2>4. TypeOK' /\ Sorted'
    BY <1>0, <2>1, <2>2, <2>3 DEF TypeOK, Sorted
  <2>5. HandlesDiffer'
    <3>1. head[1].hdl < next_handle
      BY <1>0, <2>1 DEF HandlesDiffer
    <3> QED BY <2>1, <2>3, <3>1 DEF HandlesDiffer
  <2> QED BY <2>4, <2>5
<1>5. ASSUME NEW result \in Results, EndExecute(result)
      PROVE  TimerInv'
  <2>1. executing = <<executing[1]>> /\ executing[1] \in Event /\ 1 \in DOMAIN executing
    BY <1>0, <1>5, OneElement DEF EndExecute
  <2>2. /\ executing[1].hdl \in Nat /\ executing[1].timeout \in Nat
        /\ executing[1].hdl < next_handle
        /\ \A j \in DOMAIN head : head[j].hdl # executing[1].hdl
    BY <2>1 DEF Event, HandlesDiffer
  <2>3. executing' = << >> /\ UNCHANGED <<now, next_handle>>
    BY <1>5 DEF EndExecute
  <2>4. CASE result < 0
    BY <1>0, <1>5, <2>3, <2>4 DEF EndExecute, TypeOK, Sorted, HandlesDiffer
  <2>5. CASE ~ (result < 0)
    <3> DEFINE t == IF result > 0 THEN result ELSE executing[1].timeout
               q == Eq_AddAfter(head, executing[1].hdl, t)
    <3>1. t \in Nat
      BY <2>2, TimerAssumption
    <3>2. head' = q
      BY <1>5, <2>5 DEF EndExecute
    <3> HIDE DEF t
    <3>3. /\ q \in Seq(Event)
          /\ IsSorted(q)
          /\ \A i, j \in DOMAIN q : q[i].hdl = q[j].hdl => i = j
          /\ \A i \in DOMAIN q : q[i].hdl < next_handle
      <4>1. next_handle \in Nat /\ next_handle <= next_handle
        BY <1>0
      <4>2. executing[1].hdl \in Nat /\ executing[1].hdl < next_handle
        BY <2>2
      <4>3. \A j \in DOMAIN head : head[j].hdl # executing[1].hdl
        BY <2>2
      <4> HIDE DEF TimerInv
      <4> QED BY <3>1, <4>1, <4>2, <4>3, AddAfterKeeps
    <3> HIDE DEF q
    <3>4. TypeOK' /\ Sorted'
      BY <1>0, <2>3, <3>2, <3>3 DEF TypeOK, Sorted
    <3>5. HandlesDiffer'
      BY <2>3, <3>2, <3>3 DEF HandlesDiffer
    <3> QED BY <3>4, <3>5
  <2> QED BY <2>4, <2>5
<1>6. CASE UNCHANGED vars
  BY <1>6 DEF vars, timerVars, TypeOK, Sorted, HandlesDiffer
<1> QED BY <1>1, <1>2, <1>3, <1>4, <1>5, <1>6 DEF Next

LEMMA TimersInvariant == Spec => []TimerInv
<1> QED BY InitInv, StepInv, PTL DEF Spec

--------------------------------------------------------------------------------
(***************************************************************************)
(* The theorems.                                                           *)
(***************************************************************************)

\* The type invariant of the library, whoever calls it (class Timers).
THEOREM TypeCorrect == Spec => []TypeOK
<1>1. TimerInv => TypeOK
  BY DEF TimerInv
<1> QED BY <1>1, TimersInvariant, PTL

LEMMA HeadIsFirst ==
  ASSUME TimerInv, NEW i \in DOMAIN head
  PROVE  1 \in DOMAIN head /\ Micros(head[1].tv) <= Micros(head[i].tv)
<1>1. head \in Seq(Event) /\ IsSorted(head)
  BY DEF TimerInv, TypeOK, Sorted
<1>2. i \in 1 .. Len(head) /\ 1 \in 1 .. Len(head) /\ DOMAIN head = 1 .. Len(head)
  BY <1>1
<1>3. head[1] \in Event /\ head[i] \in Event
  BY <1>1, <1>2
<1>4. head[1].tv \in Timeval /\ head[i].tv \in Timeval
  BY <1>3 DEF Event
<1>5. CASE i = 1
  BY <1>2, <1>4, <1>5, MicrosType
<1>6. CASE i # 1
  <2>1. Event_Cmp(head[1], head[i]) <= 0
    BY <1>1, <1>2, <1>6 DEF IsSorted
  <2> QED BY <1>2, <1>4, <2>1, CmpAgrees DEF Event_Cmp
<1> QED BY <1>5, <1>6

\* The wait that Eq_NextTimer gives to select is that for the first timer due.
THEOREM WaitForTheFirst == Spec => []WaitIsExact
<1>1. TimerInv => WaitIsExact
  <2> SUFFICES ASSUME TimerInv, head # << >>
               PROVE  /\ \A i \in DOMAIN head :
                           Micros(Eq_NextTimer(head))
                             <= IF Micros(head[i].tv) <= Micros(now) THEN 0
                                ELSE Micros(head[i].tv) - Micros(now)
                      /\ \E i \in DOMAIN head :
                           Micros(Eq_NextTimer(head))
                             = IF Micros(head[i].tv) <= Micros(now) THEN 0
                               ELSE Micros(head[i].tv) - Micros(now)
    BY DEF WaitIsExact
  <2>1. head \in Seq(Event) /\ now \in Clock
    BY DEF TimerInv, TypeOK
  <2>2. 1 \in DOMAIN head
    BY <2>1, PopIsRemove
  <2>3. head[1] \in Event
    BY <2>1, <2>2
  <2>4. head[1].tv \in Timeval
    BY <2>3 DEF Event
  <2>5. Micros(Eq_NextTimer(head)) = IF Micros(head[1].tv) <= Micros(now) THEN 0
                                     ELSE Micros(head[1].tv) - Micros(now)
    BY <2>1, <2>4, SubIsDifference DEF Eq_NextTimer
  <2>6. ASSUME NEW i \in DOMAIN head
        PROVE  Micros(Eq_NextTimer(head)) <= IF Micros(head[i].tv) <= Micros(now) THEN 0
                                             ELSE Micros(head[i].tv) - Micros(now)
    <3>1. Micros(head[1].tv) <= Micros(head[i].tv)
      BY HeadIsFirst
    <3>2. head[i] \in Event
      BY <2>1
    <3>3. /\ Micros(head[1].tv) \in Nat
          /\ Micros(head[i].tv) \in Nat
          /\ Micros(now) \in Nat
      BY <2>1, <2>4, <3>2, ClockIsTimeval, MicrosType DEF Event
    <3> QED BY <2>5, <3>1, <3>3
  <2> QED BY <2>2, <2>5, <2>6
<1> QED BY <1>1, TimersInvariant, PTL

LEMMA AddAbs ==
  ASSUME NEW q \in Seq(Event), NEW n \in Event
  PROVE  AbsAll(Eq_Add(q, n)) = AbsAll(q) \cup {Abs(n)}
<1> DEFINE r == Eq_Add(q, n)
<1>1. /\ \A j \in DOMAIN r : r[j] = n \/ \E k \in DOMAIN q : r[j] = q[k]
      /\ \E j \in DOMAIN r : r[j] = n
      /\ \A k \in DOMAIN q : \E j \in DOMAIN r : r[j] = q[k]
  BY AddHolds
<1> HIDE DEF r
<1>2. AbsAll(r) \subseteq AbsAll(q) \cup {Abs(n)}
  BY <1>1 DEF AbsAll
<1>3. AbsAll(q) \cup {Abs(n)} \subseteq AbsAll(r)
  BY <1>1 DEF AbsAll
<1> QED BY <1>2, <1>3 DEF r

LEMMA RemoveAbs ==
  ASSUME NEW q \in Seq(Event), NEW i \in 1 .. Len(q), IsSorted(q),
         \A a, b \in DOMAIN q : q[a].hdl = q[b].hdl => a = b
  PROVE  /\ AbsAll(Eq_Remove(q, i)) = {e \in AbsAll(q) : e.hdl # q[i].hdl}
         /\ AbsAll(Eq_Remove(q, i)) = AbsAll(q) \ {Abs(q[i])}
<1> DEFINE r == Eq_Remove(q, i)
<1>1. /\ \A a \in DOMAIN r : /\ r[a].hdl # q[i].hdl
                             /\ \E k \in DOMAIN q : k # i /\ r[a] = q[k]
      /\ \A k \in DOMAIN q : k # i => \E a \in DOMAIN r : r[a] = q[k]
  BY RemoveKeeps
<1>2. i \in DOMAIN q
  OBVIOUS
<1> HIDE DEF r
<1>3. \A e : Abs(e).hdl = e.hdl
  BY DEF Abs
<1>4. \A a \in DOMAIN r : Abs(r[a]) \in AbsAll(q) /\ Abs(r[a]).hdl # q[i].hdl
  BY <1>1, <1>3 DEF AbsAll
<1>5. \A k \in DOMAIN q : k # i => Abs(q[k]) \in AbsAll(r)
  BY <1>1 DEF AbsAll
<1>6. \A e \in AbsAll(r) : e \in AbsAll(q) /\ e.hdl # q[i].hdl /\ e # Abs(q[i])
  BY <1>3, <1>4 DEF AbsAll
<1>7. \A e \in AbsAll(q) : e.hdl # q[i].hdl => e \in AbsAll(r)
  BY <1>3, <1>5 DEF AbsAll
<1>8. \A e \in AbsAll(q) : e # Abs(q[i]) => e \in AbsAll(r)
  BY <1>5 DEF AbsAll
<1> QED BY <1>6, <1>7, <1>8 DEF r

\* The event that is set up now, as a timer of TimerSet.
LEMMA NewTimer ==
  ASSUME now \in Clock, NEW hdl \in Nat, NEW timeout \in Nat, NEW delay \in Nat
  PROVE  /\ Event_SetDelay(hdl, timeout, delay) \in Event
         /\ Abs(Event_SetDelay(hdl, timeout, delay)) =
              [hdl |-> hdl, timeout |-> timeout, due |-> Micros(now) + delay * Millisecond]
<1>1. delay * Millisecond \in Nat
  BY TimerAssumption
<1> DEFINE tv == Timeval_Addusecs(now, delay * Millisecond)
<1>2. tv \in Timeval /\ Micros(tv) = Micros(now) + delay * Millisecond
  BY <1>1, AddusecsAdds
<1>3. Event_SetDelay(hdl, timeout, delay) = [hdl |-> hdl, timeout |-> timeout, tv |-> tv]
  BY DEF Event_SetDelay
<1> HIDE DEF tv
<1> QED BY <1>2, <1>3 DEF Event, Abs

\* A new event in the list is a new timer of the set.
LEMMA AddAfterAbs ==
  ASSUME now \in Clock, NEW q \in Seq(Event), NEW hdl \in Nat, NEW timeout \in Nat
  PROVE  AbsAll(Eq_AddAfter(q, hdl, timeout)) = AbsAll(q) \cup {S!Timer(hdl, timeout)}
<1> DEFINE n == Event_SetDelay(hdl, timeout, timeout)
<1>1. n \in Event /\ Abs(n) = S!Timer(hdl, timeout)
  BY NewTimer DEF S!Timer
<1> HIDE DEF n
<1>2. AbsAll(Eq_Add(q, n)) = AbsAll(q) \cup {Abs(n)}
  BY <1>1, AddAbs
<1> QED BY <1>1, <1>2 DEF Eq_AddAfter, n

\* The library implements the set of timers that its interface promises.
THEOREM TimersRefineSet == Spec => ImplementsTimerSet
<1>1. Init => S!Init
  <2> SUFFICES ASSUME Init
               PROVE  S!Init
    OBVIOUS
  <2>1. now \in Timeval
    BY TimerAssumption DEF Init, Timeval
  <2>2. AbsAll(<< >>) = {}
    BY DEF AbsAll
  <2> QED BY <2>1, <2>2, MicrosType DEF Init, S!Init
<1>2. TimerInv /\ [Next]_vars => [S!Next]_(S!vars)
  <2> SUFFICES ASSUME TimerInv, [Next]_vars
               PROVE  [S!Next]_(S!vars)
    OBVIOUS
  <2>0. /\ now \in Clock
        /\ head \in Seq(Event)
        /\ executing \in Seq(Event)
        /\ Len(executing) <= 1
        /\ next_handle \in Nat \ {0}
        /\ IsSorted(head)
        /\ \A a, b \in DOMAIN head : head[a].hdl = head[b].hdl => a = b
    BY DEF TimerInv, TypeOK, Sorted, HandlesDiffer
  <2>1. CASE Advance
    <3>1. now.sec \in Nat /\ now.usec \in 0 .. Second - 1 /\ Second \in Nat \ {0}
      BY <2>0, TimerAssumption DEF Clock
    <3>2. Micros(now') = Micros(now) + 1
      <4>1. (now.sec + 1) * Second = now.sec * Second + Second /\ now.sec * Second \in Int
        BY <3>1
      <4>2. CASE now.usec + 1 < Second
        <5>1. now' = [now EXCEPT !.usec = now.usec + 1]
          BY <2>1, <4>2 DEF Advance, Later
        <5>2. now'.sec = now.sec /\ now'.usec = now.usec + 1
          BY <2>0, <5>1 DEF Clock
        <5> QED BY <3>1, <4>1, <5>2 DEF Micros
      <4>3. CASE ~ (now.usec + 1 < Second)
        <5>1. now' = [sec |-> now.sec + 1, usec |-> 0]
          BY <2>1, <4>3 DEF Advance, Later
        <5>2. now.usec + 1 = Second
          BY <3>1, <4>3
        <5> QED BY <3>1, <4>1, <5>1, <5>2 DEF Micros
      <4> QED BY <4>2, <4>3
    <3>3. Micros(now) \in Nat
      BY <2>0, ClockIsTimeval, MicrosType
    <3>4. Micros(now') \in Nat /\ Micros(now') > Micros(now)
      BY <3>2, <3>3
    <3>5. UNCHANGED <<head, executing, next_handle>>
      BY <2>1 DEF Advance, timerVars
    <3> QED BY <3>4, <3>5 DEF S!Next, S!TimePasses, AbsAll
  <2>2. ASSUME NEW timeout \in Timeouts, AddTimer(timeout)
        PROVE  S!Next
    <3>1. timeout \in Nat /\ next_handle \in Nat
      BY <2>0, TimerAssumption
    <3>2. /\ head' = Eq_AddAfter(head, next_handle, timeout)
          /\ next_handle' = next_handle + 1
          /\ UNCHANGED <<now, executing>>
      BY <2>2 DEF AddTimer
    <3>3. AbsAll(head') = AbsAll(head) \cup {S!Timer(next_handle, timeout)}
      BY <2>0, <3>1, <3>2, AddAfterAbs
    <3>4. Micros(now') = Micros(now) /\ AbsAll(executing') = AbsAll(executing)
      BY <3>2
    <3> QED BY <3>2, <3>3, <3>4 DEF S!Next, S!Add
  <2>3. ASSUME NEW hdl \in 1 .. MaxTimers, RemoveTimer(hdl)
        PROVE  S!Next
    <3>1. PICK i \in 1 .. Len(head) : head' = Eq_Remove(head, i)
      BY <2>0, <2>3 DEF RemoveTimer
    <3>2. UNCHANGED <<now, executing, next_handle>>
      BY <2>3 DEF RemoveTimer
    <3>3. AbsAll(head') = {e \in AbsAll(head) : e.hdl # head[i].hdl}
      BY <2>0, <3>1, RemoveAbs
    <3>4. Abs(head[i]) \in AbsAll(head) /\ Abs(head[i]).hdl = head[i].hdl
      BY <2>0 DEF AbsAll, Abs
    <3>5. S!Remove(Abs(head[i]).hdl)
      BY <3>2, <3>3, <3>4 DEF S!Remove
    <3> QED BY <3>4, <3>5 DEF S!Next
  <2>4. CASE BeginExecute
    <3>1. /\ executing = << >>
          /\ executing' = <<head[1]>>
          /\ head' = Eq_Remove(head, 1)
          /\ 1 \in 1 .. Len(head)
          /\ UNCHANGED <<now, next_handle>>
      BY <2>0, <2>4, PopIsRemove DEF BeginExecute
    <3>2. AbsAll(head') = AbsAll(head) \ {Abs(head[1])}
      BY <2>0, <3>1, RemoveAbs
    <3>3. AbsAll(executing) = {} /\ AbsAll(executing') = {Abs(head[1])}
      BY <3>1 DEF AbsAll
    <3>4. Abs(head[1]) \in AbsAll(head)
      BY <2>0, <3>1 DEF AbsAll
    <3>5. \A f \in AbsAll(head) : Abs(head[1]).due <= f.due
      BY HeadIsFirst DEF AbsAll, Abs
    <3>6. Micros(now') = Micros(now)
      BY <3>1
    <3>7. S!Fire
      BY <3>1, <3>2, <3>3, <3>4, <3>5, <3>6 DEF S!Fire
    <3> QED BY <3>7 DEF S!Next
  <2>5. ASSUME NEW result \in Results, EndExecute(result)
        PROVE  S!Next
    <3>0. result \in Int
      BY TimerAssumption
    <3>1. executing = <<executing[1]>> /\ executing[1] \in Event /\ DOMAIN executing = {1}
      BY <2>0, <2>5, OneElement DEF EndExecute
    <3> DEFINE e == Abs(executing[1])
               t == IF result > 0 THEN result ELSE executing[1].timeout
    <3>2. e \in AbsAll(executing) /\ e.hdl = executing[1].hdl /\ e.timeout = executing[1].timeout
      BY <3>1 DEF AbsAll, Abs
    <3>3. executing[1].hdl \in Nat /\ executing[1].timeout \in Nat
      BY <3>1 DEF Event
    <3>4. /\ executing' = << >>
          /\ Micros(now') = Micros(now)
          /\ next_handle' = next_handle
      BY <2>5 DEF EndExecute
    <3>5. AbsAll(executing') = {}
      BY <3>4 DEF AbsAll
    <3>6. AbsAll(head') =
            IF result < 0 THEN AbsAll(head)
            ELSE AbsAll(head) \cup {S!Timer(e.hdl, IF result = 0 THEN e.timeout ELSE result)}
      <4>1. CASE result < 0
        <5>1. head' = head
          BY <2>5, <4>1 DEF EndExecute
        <5> QED BY <3>0, <4>1, <5>1
      <4>2. CASE result = 0
        <5>1. head' = Eq_AddAfter(head, executing[1].hdl, executing[1].timeout)
          BY <2>5, <4>2 DEF EndExecute
        <5>2. AbsAll(head') = AbsAll(head) \cup {S!Timer(executing[1].hdl, executing[1].timeout)}
          BY <2>0, <3>3, <5>1, AddAfterAbs
        <5> QED BY <3>0, <3>2, <4>2, <5>2
      <4>3. CASE result > 0
        <5>1. head' = Eq_AddAfter(head, executing[1].hdl, result)
          BY <3>0, <2>5, <4>3 DEF EndExecute
        <5>2. AbsAll(head') = AbsAll(head) \cup {S!Timer(executing[1].hdl, result)}
          BY <3>0, <2>0, <3>3, <4>3, <5>1, AddAfterAbs
        <5> QED BY <3>0, <3>2, <4>3, <5>2
      <4> QED BY <3>0, <4>1, <4>2, <4>3
    <3> HIDE DEF e
    <3>7. S!Return(result)
      BY <3>2, <3>4, <3>5, <3>6 DEF S!Return
    <3> QED BY <3>7 DEF S!Next
  <2>6. CASE UNCHANGED vars
    BY <2>6 DEF vars, timerVars, S!vars, AbsAll, Micros
  <2> QED BY <2>1, <2>2, <2>3, <2>4, <2>5, <2>6 DEF Next
<1> QED BY <1>1, <1>2, TimersInvariant, PTL DEF Spec, ImplementsTimerSet, S!Spec

================================================================================
