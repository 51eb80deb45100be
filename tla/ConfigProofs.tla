------------------------------ MODULE ConfigProofs ------------------------------
(***************************************************************************)
(* Proofs about module Config, for every set of lines and every size of    *)
(* the table.                                                              *)
(***************************************************************************)
EXTENDS Config, SequenceTheorems, WellFoundedInduction, TLAPS

--------------------------------------------------------------------------------
(***************************************************************************)
(* Induction over the natural numbers, for sets.                           *)
(***************************************************************************)

LEMMA Induction ==
  ASSUME NEW S, 0 \in S, \A n \in Nat : n \in S => n + 1 \in S
  PROVE  Nat \subseteq S
<1> DEFINE Before == {p \in Nat \X Nat : p[1] < p[2]}
           Missing == Nat \ S
<1> SUFFICES ASSUME Missing # {}
             PROVE  FALSE
  OBVIOUS
<1>1. IsWellFoundedOn(Before, Nat)
  BY NatLessThanWellFounded, SMT DEF OpToRel
<1>2. PICK n \in Missing : \A k \in Missing : <<k, n>> \notin Before
  <2> HIDE DEF Before, Missing
  <2>1. Missing \subseteq Nat
    BY DEF Missing
  <2> QED
    BY <1>1, <2>1, WFMin
<1>3. n \in Nat /\ n \notin S /\ n # 0
  OBVIOUS
<1>4. n - 1 \in Nat /\ (n - 1) + 1 = n
  BY <1>3
<1>5. <<n - 1, n>> \in Before
  BY <1>3, <1>4
<1>6. n - 1 \in S
  BY <1>2, <1>4, <1>5
<1> QED
  BY <1>3, <1>4, <1>6

--------------------------------------------------------------------------------
(***************************************************************************)
(* The lines of a kind.                                                    *)
(***************************************************************************)

\* F[i] is what Matching takes from the first i elements.
Taken(F, q, S) ==
  /\ F[0] = << >>
  /\ \A i \in 1 .. Len(q) : F[i] = IF q[i] \in S THEN Append(F[i - 1], q[i]) ELSE F[i - 1]

LEMMA MatchingTaken ==
  ASSUME NEW q, Len(q) \in Nat, NEW S
  PROVE  \E F : Taken(F, q, S) /\ Matching(q, S) = F[Len(q)]
<1> DEFINE Body(F, i) == IF i = 0 THEN << >>
                         ELSE IF q[i] \in S THEN Append(F[i - 1], q[i])
                         ELSE F[i - 1]
           Good == {k \in Nat : \E F : F = [i \in 0 .. k |-> Body(F, i)]}
           A == CHOOSE F : F = [i \in 0 .. Len(q) |-> Body(F, i)]
<1>1. 0 \in Good
  <2>1. [i \in 0 .. 0 |-> << >>] = [i \in 0 .. 0 |-> Body([i_1 \in 0 .. 0 |-> << >>], i)]
    OBVIOUS
  <2> QED
    BY <2>1
<1>2. ASSUME NEW k \in Nat, k \in Good
      PROVE  k + 1 \in Good
  <2>1. PICK F : F = [i \in 0 .. k |-> Body(F, i)]
    BY <1>2
  <2> DEFINE G == [i \in 0 .. k + 1 |-> IF i \in 0 .. k THEN F[i] ELSE Body(F, i)]
  <2>2. ASSUME NEW i \in 0 .. k + 1
        PROVE  G[i] = Body(G, i)
    <3>1. i # 0 => i - 1 \in 0 .. k /\ G[i - 1] = F[i - 1]
      OBVIOUS
    <3>2. G[i] = Body(F, i)
      BY <2>1
    <3> QED
      BY <3>1, <3>2
  <2>3. G = [i \in 0 .. k + 1 |-> Body(G, i)]
    BY <2>2
  <2> HIDE DEF G
  <2> QED
    BY <2>3
<1>3. Len(q) \in Good
  <2> HIDE DEF Good
  <2> QED
    BY <1>1, <1>2, Induction
<1>4. A = [i \in 0 .. Len(q) |-> Body(A, i)]
  BY <1>3
<1>5. Matching(q, S) = A[Len(q)]
  BY DEF Matching
<1> HIDE DEF A
<1>6. \A i \in 0 .. Len(q) : A[i] = Body(A, i)
  BY <1>4
<1>7. Taken(A, q, S)
  BY <1>6 DEF Taken
<1> QED
  BY <1>5, <1>7

LEMMA MatchingEmpty ==
  ASSUME NEW S
  PROVE  Matching(<< >>, S) = << >>
<1>1. Len(<< >>) = 0
  OBVIOUS
<1> QED
  BY <1>1, MatchingTaken DEF Taken

LEMMA MatchingAppend ==
  ASSUME NEW U, NEW q \in Seq(U), NEW r \in U, NEW S
  PROVE  Matching(Append(q, r), S) = IF r \in S THEN Append(Matching(q, S), r)
                                                ELSE Matching(q, S)
<1> DEFINE p == Append(q, r)
<1>1. /\ Len(q) \in Nat /\ Len(p) = Len(q) + 1
      /\ \A i \in 1 .. Len(q) : p[i] = q[i]
      /\ p[Len(q) + 1] = r
  OBVIOUS
<1> HIDE DEF p
<1>2. PICK F : Taken(F, q, S) /\ Matching(q, S) = F[Len(q)]
  BY <1>1, MatchingTaken
<1>3. PICK G : Taken(G, p, S) /\ Matching(p, S) = G[Len(p)]
  BY <1>1, MatchingTaken
<1> DEFINE Good == {k \in Nat : k <= Len(q) => F[k] = G[k]}
<1>4. 0 \in Good
  BY <1>2, <1>3 DEF Taken
<1>5. ASSUME NEW k \in Nat, k \in Good
      PROVE  k + 1 \in Good
  <2> SUFFICES ASSUME k + 1 <= Len(q)
               PROVE  F[k + 1] = G[k + 1]
    OBVIOUS
  <2>1. k + 1 \in 1 .. Len(p) /\ k + 1 \in 1 .. Len(q) /\ (k + 1) - 1 = k
    BY <1>1
  <2>2. F[k] = G[k] /\ p[k + 1] = q[k + 1]
    BY <1>1, <1>5, <2>1
  <2> QED
    BY <1>2, <1>3, <2>1, <2>2 DEF Taken
<1>6. Len(q) \in Good
  <2> HIDE DEF Good
  <2> QED
    BY <1>1, <1>4, <1>5, Induction
<1>7. Len(p) \in 1 .. Len(p) /\ Len(p) - 1 = Len(q)
  BY <1>1
<1> QED
  BY <1>1, <1>2, <1>3, <1>6, <1>7 DEF Taken, p

LEMMA MatchingType ==
  ASSUME NEW U, NEW q \in Seq(U), NEW S
  PROVE  Matching(q, S) \in Seq(S) /\ Len(Matching(q, S)) \in Nat
         /\ Len(Matching(q, S)) <= Len(q)
<1>1. Len(q) \in Nat
  OBVIOUS
<1>2. PICK F : Taken(F, q, S) /\ Matching(q, S) = F[Len(q)]
  BY <1>1, MatchingTaken
<1> DEFINE Good == {k \in Nat : k <= Len(q) => F[k] \in Seq(S) /\ Len(F[k]) <= k}
<1>3. 0 \in Good
  <2>1. F[0] = << >>
    BY <1>2 DEF Taken
  <2>2. << >> \in Seq(S) /\ Len(<< >>) = 0
    BY EmptySeq
  <2>3. F[0] \in Seq(S) /\ Len(F[0]) <= 0
    BY <2>1, <2>2
  <2> QED
    BY <2>3
<1>4. ASSUME NEW k \in Nat, k \in Good
      PROVE  k + 1 \in Good
  <2> SUFFICES ASSUME k + 1 <= Len(q)
               PROVE  F[k + 1] \in Seq(S) /\ Len(F[k + 1]) <= k + 1
    OBVIOUS
  <2>1. k + 1 \in 1 .. Len(q) /\ (k + 1) - 1 = k
    BY <1>1
  <2>2. F[k] \in Seq(S) /\ Len(F[k]) <= k /\ Len(F[k]) \in Nat
    BY <1>1, <1>4
  <2>3. F[k + 1] = IF q[k + 1] \in S THEN Append(F[k], q[k + 1]) ELSE F[k]
    BY <1>2, <2>1 DEF Taken
  <2>4. CASE q[k + 1] \in S
    <3>1. Append(F[k], q[k + 1]) \in Seq(S) /\ Len(Append(F[k], q[k + 1])) = Len(F[k]) + 1
      BY <2>2, <2>4, AppendProperties
    <3> QED
      BY <2>2, <2>3, <2>4, <3>1
  <2>5. CASE q[k + 1] \notin S
    BY <2>2, <2>3, <2>5
  <2> QED
    BY <2>4, <2>5
<1>5. Len(q) \in Good
  <2> HIDE DEF Good
  <2> QED
    BY <1>1, <1>3, <1>4, Induction
<1> QED
  BY <1>1, <1>2, <1>5, LenProperties

--------------------------------------------------------------------------------
(***************************************************************************)
(* What the lines mean after one more.                                     *)
(***************************************************************************)

LEMMA LastAppend ==
  ASSUME NEW U, NEW s \in Seq(U), NEW x
  PROVE  /\ Append(s, x) # << >> /\ Len(Append(s, x)) = Len(s) + 1 /\ Len(s) \in Nat
         /\ Last(Append(s, x)) = x
         /\ \A k \in 1 .. Len(s) : Append(s, x)[k] = s[k]
         /\ Append(s, x)[Len(s) + 1] = x
<1>1. s \in Seq(U \cup {x}) /\ x \in U \cup {x}
  BY SeqMonotonic
<1>2. /\ Append(s, x) # << >> /\ Len(Append(s, x)) = Len(s) + 1
      /\ \A k \in 1 .. Len(s) : Append(s, x)[k] = s[k]
      /\ Append(s, x)[Len(s) + 1] = x
  BY <1>1, AppendProperties
<1>3. Last(Append(s, x)) = x
  BY <1>2 DEF Last
<1> QED
  BY <1>2, <1>3, LenProperties

LEMMA OfType ==
  ASSUME TypeOK, NEW w, NEW i
  PROVE  /\ Of(w, i) \in Seq({l \in Line : l.words = w /\ l.id = i})
         /\ Len(Of(w, i)) \in Nat
         /\ Len(Of(w, i)) <= Len(lines)
<1>1. lines \in Seq(Line)
  BY DEF TypeOK
<1> QED
  BY <1>1, MatchingType DEF Of

LEMMA NumbersType ==
  ASSUME TypeOK
  PROVE  /\ Numbers \in Seq({l \in Line : l.words = 1}) /\ Len(Numbers) \in Nat
         /\ DOMAIN Numbers = 1 .. Len(Numbers)
         /\ \A k \in 1 .. Len(Numbers) : Numbers[k].value \in Int
<1>1. lines \in Seq(Line)
  BY DEF TypeOK
<1>2. Numbers \in Seq({l \in Line : l.words = 1})
  BY <1>1, MatchingType DEF Numbers
<1>3. DOMAIN Numbers = 1 .. Len(Numbers) /\ Len(Numbers) \in Nat
  BY <1>2, LenProperties
<1>4. ASSUME NEW l \in Line, l.words = 1
      PROVE  l.value \in Int
  BY <1>4, ConfigAssumption
<1>5. \A k \in 1 .. Len(Numbers) : Numbers[k] \in Line /\ Numbers[k].words = 1
  BY <1>2, ElementOfSeq
<1> QED
  BY <1>2, <1>3, <1>4, <1>5

LEMMA OfAfter ==
  ASSUME TypeOK, NEW line \in Line, lines' = Append(lines, line), NEW w, NEW i
  PROVE  Of(w, i)' = IF line.words = w /\ line.id = i THEN Append(Of(w, i), line) ELSE Of(w, i)
<1>1. lines \in Seq(Line)
  BY DEF TypeOK
<1> DEFINE S == {l \in Line : l.words = w /\ l.id = i}
<1>2. Matching(Append(lines, line), S) = IF line \in S THEN Append(Matching(lines, S), line)
                                                       ELSE Matching(lines, S)
  <2> HIDE DEF S
  <2> QED
    BY <1>1, MatchingAppend
<1> QED
  BY <1>2 DEF Of

LEMMA NumbersAfter ==
  ASSUME TypeOK, NEW line \in Line, lines' = Append(lines, line)
  PROVE  Numbers' = IF line.words = 1 THEN Append(Numbers, line) ELSE Numbers
<1>1. lines \in Seq(Line)
  BY DEF TypeOK
<1> DEFINE S == {l \in Line : l.words = 1}
<1>2. Matching(Append(lines, line), S) = IF line \in S THEN Append(Matching(lines, S), line)
                                                       ELSE Matching(lines, S)
  <2> HIDE DEF S
  <2> QED
    BY <1>1, MatchingAppend
<1> QED
  BY <1>2 DEF Numbers

\* There is at most one first number that is not 0, and one if not all are 0.
LEMMA FirstCountIsFirst ==
  ASSUME TypeOK
  PROVE  /\ \A j, k \in FirstCount : j = k
         /\ FirstCount = {} => \A k \in DOMAIN Numbers : Numbers[k].value = 0
<1>0. DOMAIN Numbers = 1 .. Len(Numbers) /\ Len(Numbers) \in Nat
  BY NumbersType
<1>1. ASSUME NEW j \in FirstCount, NEW k \in FirstCount
      PROVE  j = k
  <2>1. j \in 1 .. Len(Numbers) /\ k \in 1 .. Len(Numbers)
    BY <1>0 DEF FirstCount
  <2>2. ~(j < k) /\ ~(k < j)
    BY <2>1 DEF FirstCount
  <2> QED
    BY <2>1, <2>2
<1>2. ASSUME FirstCount = {}
      PROVE  \A k \in DOMAIN Numbers : Numbers[k].value = 0
  <2> DEFINE Good == {n \in Nat : \A j \in 1 .. n : j <= Len(Numbers) => Numbers[j].value = 0}
  <2>1. 0 \in Good
    OBVIOUS
  <2>2. ASSUME NEW n \in Nat, n \in Good
        PROVE  n + 1 \in Good
    <3>1. n + 1 <= Len(Numbers) => Numbers[n + 1].value = 0
      <4> SUFFICES ASSUME n + 1 <= Len(Numbers), Numbers[n + 1].value # 0
                   PROVE  FALSE
        OBVIOUS
      <4>1. n + 1 \in DOMAIN Numbers /\ (n + 1) - 1 = n
        BY <1>0
      <4>2. \A j \in 1 .. n : Numbers[j].value = 0
        BY <1>0, <2>2
      <4>3. n + 1 \in FirstCount
        BY <4>1, <4>2 DEF FirstCount
      <4> QED
        BY <1>2, <4>3
    <3> QED
      BY <2>2, <3>1
  <2>3. Len(Numbers) \in Good
    <3> HIDE DEF Good
    <3> QED
      BY <1>0, <2>1, <2>2, Induction
  <2> QED
    BY <1>0, <2>3
<1> QED
  BY <1>1, <1>2

\* The two numbers after one more number.
LEMMA CountAfter ==
  ASSUME TypeOK, NEW line \in Line, lines' = Append(lines, line)
  PROVE  /\ CountRead' = IF line.words = 1 /\ CountRead = 0 THEN line.value ELSE CountRead
         /\ TimeoutRead' = IF line.words = 1 /\ CountRead # 0 THEN line.value ELSE TimeoutRead
         /\ CountRead \in Int
<1> DEFINE N == Numbers
           n == Len(N)
<1>1. /\ N \in Seq({l \in Line : l.words = 1}) /\ n \in Nat /\ DOMAIN N = 1 .. n
      /\ \A k \in 1 .. n : N[k].value \in Int
  BY NumbersType
<1>2. /\ \A j, k \in FirstCount : j = k
      /\ FirstCount = {} => \A k \in 1 .. n : N[k].value = 0
  BY <1>1, FirstCountIsFirst
<1>3. CASE line.words # 1
  <2>1. Numbers' = Numbers
    BY <1>3, NumbersAfter
  <2>2. FirstCount' = FirstCount
    BY <2>1 DEF FirstCount
  <2>3. CountRead' = CountRead /\ TimeoutRead' = TimeoutRead
    BY <2>1, <2>2 DEF CountRead, TimeoutRead
  <2>4. CountRead \in Int
    BY <1>1 DEF CountRead, FirstCount
  <2> QED
    BY <1>3, <2>3, <2>4
<1>4. CASE line.words = 1
  <2>1. N' = Append(N, line)
    BY <1>4, NumbersAfter
  <2>2. /\ Len(N') = n + 1 /\ Last(N') = line /\ N'[n + 1] = line
        /\ \A k \in 1 .. n : N'[k] = N[k]
        /\ DOMAIN N' = 1 .. n + 1
    <3>1. /\ Len(Append(N, line)) = n + 1 /\ Last(Append(N, line)) = line
          /\ Append(N, line)[n + 1] = line
          /\ \A k \in 1 .. n : Append(N, line)[k] = N[k]
      BY <1>1, LastAppend
    <3>2. Append(N, line) \in Seq({l \in Line : l.words = 1})
      BY <1>1, <1>4, AppendProperties
    <3>3. DOMAIN Append(N, line) = 1 .. n + 1
      BY <3>1, <3>2, LenProperties
    <3> QED
      BY <2>1, <3>1, <3>3
  <2>3. FirstCount' = {k \in DOMAIN N' : /\ N'[k].value # 0
                                         /\ \A j \in 1 .. k - 1 : N'[j].value = 0}
    BY DEF FirstCount
  <2>4. FirstCount = {k \in DOMAIN N : /\ N[k].value # 0
                                       /\ \A j \in 1 .. k - 1 : N[j].value = 0}
    BY DEF FirstCount
  <2>5. /\ CountRead' = IF FirstCount' = {} THEN 0 ELSE N'[CHOOSE k \in FirstCount' : TRUE].value
        /\ TimeoutRead' = IF \E k \in FirstCount' : k < Len(N') THEN Last(N').value ELSE 0
        /\ CountRead = IF FirstCount = {} THEN 0 ELSE N[CHOOSE k \in FirstCount : TRUE].value
        /\ TimeoutRead = IF \E k \in FirstCount : k < n THEN Last(N).value ELSE 0
    BY DEF CountRead, TimeoutRead
  <2> HIDE DEF N
  <2>6. CASE FirstCount = {}
    <3>1. \A k \in 1 .. n : N[k].value = 0
      BY <1>2, <2>6
    <3>2. CASE line.value = 0
      <4>1. FirstCount' = {}
        BY <1>1, <2>2, <2>3, <3>1, <3>2
      <4> QED
        BY <1>4, <2>5, <2>6, <3>2, <4>1
    <3>3. CASE line.value # 0
      <4>1. FirstCount' = {n + 1}
        BY <1>1, <2>2, <2>3, <3>1, <3>3
      <4>2. (CHOOSE k \in FirstCount' : TRUE) = n + 1
        BY <4>1
      <4> QED
        BY <1>1, <1>4, <2>2, <2>5, <2>6, <3>3, <4>1, <4>2
    <3> QED
      BY <3>2, <3>3
  <2>7. CASE FirstCount # {}
    <3>1. PICK m \in FirstCount : TRUE
      BY <2>7
    <3>2. FirstCount = {m}
      BY <1>2, <3>1
    <3>3. /\ m \in 1 .. n /\ N[m].value # 0 /\ N[m].value \in Int
          /\ \A j \in 1 .. m - 1 : N[j].value = 0
      BY <1>1, <2>4, <3>1
    <3>4. FirstCount' = {m}
      <4>1. m \in FirstCount'
        BY <1>1, <2>2, <2>3, <3>3
      <4>2. ASSUME NEW k \in FirstCount'
            PROVE  k = m
        <5>1. /\ k \in 1 .. n + 1 /\ N'[k].value # 0
              /\ \A j \in 1 .. k - 1 : N'[j].value = 0
          BY <2>2, <2>3, <4>2
        <5>2. ~(m < k)
          BY <1>1, <2>2, <3>3, <5>1
        <5>3. ~(k < m)
          BY <1>1, <2>2, <3>3, <5>1
        <5> QED
          BY <1>1, <3>3, <5>1, <5>2, <5>3
      <4> QED
        BY <4>1, <4>2
    <3>5. CountRead = N[m].value /\ CountRead' = N[m].value
      <4>1. (CHOOSE k \in FirstCount : TRUE) = m /\ (CHOOSE k \in FirstCount' : TRUE) = m
        BY <3>2, <3>4
      <4> QED
        BY <2>2, <2>5, <3>2, <3>3, <3>4, <4>1
    <3>6. TimeoutRead' = line.value
      BY <1>1, <2>2, <2>5, <3>3, <3>4
    <3> QED
      BY <1>4, <3>3, <3>5, <3>6
  <2> QED
    BY <2>6, <2>7
<1> QED
  BY <1>3, <1>4

--------------------------------------------------------------------------------
(***************************************************************************)
(* Types, and the count of tasks.                                          *)
(***************************************************************************)

LEMMA LineType ==
  ASSUME NEW line \in Line
  PROVE  /\ line.words \in {1, 2, 3, 4}
         /\ line.words = 1 => line.value \in Int
         /\ line.words = 2 => line.id \in Int /\ line.name \in Name
         /\ line.words = 3 => line.id \in Int /\ Packet(line) \in [delay : Int, drop : Int]
         /\ line.words = 4 => /\ line.id \in Int /\ line.name \in Name
                              /\ line.start \in Int /\ line.share \in Int
  BY ConfigAssumption DEF Packet

LEMMA WithTaskType ==
  ASSUME NEW r \in Client, NEW line \in Line, line.words = 4
  PROVE  /\ WithTask(r, line) \in Client
         /\ WithTask(r, line).num_tasks = r.num_tasks + 1
         /\ WithTask(r, line).node_id = r.node_id
         /\ \A k \in 0 .. MAX_TASKS - 1 :
              LET t == [r EXCEPT !.taskname[k] = line.name]
              IN  t \in Client /\ t.num_tasks = r.num_tasks /\ t.node_id = r.node_id
<1>1. /\ line.name \in Name /\ line.start \in Int /\ line.share \in Int
  BY LineType
<1>2. r.num_tasks \in Nat /\ r.num_tasks + 1 \in Nat
  BY DEF Client
<1>3. /\ WithTask(r, line) \in Client
      /\ WithTask(r, line).num_tasks = r.num_tasks + 1
      /\ WithTask(r, line).node_id = r.node_id
  <2> DEFINE s == line.start
             h == line.share
             n == r.num_tasks + 1
             w == [r EXCEPT !.task_start_time = s, !.task_share = h, !.has_task = TRUE,
                            !.num_tasks = n]
  <2>1. w = WithTask(r, line) /\ s \in Int /\ h \in Int /\ n \in Nat
    BY <1>1, <1>2 DEF WithTask, Client
  <2> HIDE DEF s, h, n
  <2>2. w \in Client /\ w.num_tasks = n /\ w.node_id = r.node_id
    BY <2>1 DEF Client
  <2> QED
    BY <2>1, <2>2 DEF n
<1>4. ASSUME NEW k \in 0 .. MAX_TASKS - 1
      PROVE  LET t == [r EXCEPT !.taskname[k] = line.name]
             IN  t \in Client /\ t.num_tasks = r.num_tasks /\ t.node_id = r.node_id
  <2> DEFINE m == [r.taskname EXCEPT ![k] = line.name]
  <2>1. m \in [0 .. MAX_TASKS - 1 -> Name \cup {NoName}]
    BY <1>1 DEF Client
  <2>2. [r EXCEPT !.taskname[k] = line.name] = [r EXCEPT !.taskname = m]
    OBVIOUS
  <2> HIDE DEF m
  <2> QED
    BY <2>1, <2>2 DEF Client
<1> QED
  BY <1>3, <1>4

LEMMA OverrunType ==
  ASSUME NEW r \in Client, NEW e \in BOOLEAN
  PROVE  /\ Overrun(r, e) \in Client
         /\ Overrun(r, e).num_tasks = r.num_tasks
         /\ Overrun(r, e).node_id = Garbage
  BY DEF Client, Overrun

\* The table after a line: which record counts one task more.
LEMMA TableAfter ==
  ASSUME TypeOK, NEW line \in Line, ReadLine(line)
  PROVE  /\ clients' \in [Ids -> Client]
         /\ \A i \in Ids :
              /\ clients'[i].node_id \in {i, Garbage}
              /\ clients'[i].num_tasks = IF line.words = 4 /\ line.id = i
                                           THEN clients[i].num_tasks + 1 ELSE clients[i].num_tasks
         /\ num_clients' \in Int /\ timeout' \in Int /\ wild' \in BOOLEAN
<1>1. /\ clients \in [Ids -> Client] /\ \A i \in Ids : clients[i].node_id \in {i, Garbage}
      /\ num_clients \in Int /\ timeout \in Int /\ wild \in BOOLEAN
      /\ \A i \in Ids : clients[i] \in Client /\ clients[i].num_tasks \in Nat
  BY DEF TypeOK, Client
<1>2. CASE OneWord(line)
  <2>1. line.words = 1 /\ line.value \in Int
    BY <1>2, LineType DEF OneWord
  <2>2. /\ num_clients' \in Int /\ timeout' \in Int /\ wild' \in BOOLEAN
    BY <1>1, <1>2, <2>1 DEF OneWord
  <2>3. CASE UNCHANGED clients
    BY <1>1, <2>1, <2>2, <2>3
  <2>4. CASE clients' = [i \in Ids |-> [clients[i] EXCEPT !.enabled = @ \/ i < line.value]]
    <3>1. ASSUME NEW r \in Client, NEW b \in BOOLEAN
          PROVE  /\ [r EXCEPT !.enabled = @ \/ b] \in Client
                 /\ [r EXCEPT !.enabled = @ \/ b].num_tasks = r.num_tasks
                 /\ [r EXCEPT !.enabled = @ \/ b].node_id = r.node_id
      BY DEF Client
    <3>2. ASSUME NEW i \in Ids
          PROVE  /\ clients'[i] \in Client
                 /\ clients'[i].num_tasks = clients[i].num_tasks
                 /\ clients'[i].node_id = clients[i].node_id
      BY <1>1, <2>4, <3>1
    <3>3. clients' \in [Ids -> Client]
      BY <2>4, <3>2
    <3> QED
      BY <1>1, <2>1, <2>2, <3>2, <3>3
  <2> QED
    BY <1>2, <2>3, <2>4 DEF OneWord
<1>3. CASE TwoWords(line)
  <2>1. line.words = 2 /\ line.name \in Name
    BY <1>3, LineType DEF TwoWords
  <2>2. ASSUME NEW r \in Client
        PROVE  /\ [r EXCEPT !.filename = line.name] \in Client
               /\ [r EXCEPT !.filename = line.name].num_tasks = r.num_tasks
               /\ [r EXCEPT !.filename = line.name].node_id = r.node_id
    BY <2>1 DEF Client
  <2>3. clients' = IF line.id \in Ids
                     THEN [clients EXCEPT ![line.id] = [@ EXCEPT !.filename = line.name]]
                     ELSE clients
    BY <1>3 DEF TwoWords
  <2> QED
    BY <1>1, <1>3, <2>1, <2>2, <2>3 DEF TwoWords
<1>4. CASE ThreeWords(line)
  <2>1. line.words = 3 /\ Packet(line) \in [delay : Int, drop : Int]
    BY <1>4, LineType DEF ThreeWords
  <2>2. ASSUME NEW r \in Client
        PROVE  /\ [r EXCEPT !.packet = Packet(line)] \in Client
               /\ [r EXCEPT !.packet = Packet(line)].num_tasks = r.num_tasks
               /\ [r EXCEPT !.packet = Packet(line)].node_id = r.node_id
    BY <2>1 DEF Client
  <2>3. clients' = IF line.id \in Ids
                     THEN [clients EXCEPT ![line.id] = [@ EXCEPT !.packet = Packet(line)]]
                     ELSE clients
    BY <1>4 DEF ThreeWords
  <2> QED
    BY <1>1, <1>4, <2>1, <2>2, <2>3 DEF ThreeWords
<1>5. CASE FourWords(line)
  <2>0. line.words = 4 /\ UNCHANGED <<num_clients, timeout>>
    BY <1>5 DEF FourWords
  <2>1. CASE line.id \notin Ids
    BY <1>1, <1>5, <2>0, <2>1 DEF FourWords
  <2>2. CASE line.id \in Ids
    <3> DEFINE i == line.id
               k == clients[i].num_tasks
    <3>1. clients[i] \in Client /\ k \in Nat
      BY <1>1, <2>2
    <3>2. CASE /\ k < MAX_TASKS
               /\ clients' = [clients EXCEPT ![i] =
                                WithTask([@ EXCEPT !.taskname[k] = line.name], line)]
               /\ UNCHANGED wild
      <4>1. k \in 0 .. MAX_TASKS - 1
        BY <3>1, <3>2, ConfigAssumption
      <4> DEFINE t == [clients[i] EXCEPT !.taskname[k] = line.name]
                 w == WithTask(t, line)
      <4>2. t \in Client /\ t.num_tasks = k /\ t.node_id = clients[i].node_id
        BY <2>0, <3>1, <4>1, WithTaskType
      <4>3. w \in Client /\ w.num_tasks = k + 1 /\ w.node_id = clients[i].node_id
        <5> HIDE DEF t
        <5> QED
          BY <2>0, <4>2, WithTaskType
      <4>4. clients' = [clients EXCEPT ![i] = w]
        BY <3>2
      <4> HIDE DEF w
      <4> QED
        BY <1>1, <2>0, <2>2, <3>2, <4>3, <4>4
    <3>3. CASE /\ i + 1 \in Ids
               /\ \E enabled \in BOOLEAN :
                    clients' = [clients EXCEPT ![i] = WithTask(@, line),
                                               ![i + 1] = Overrun(@, enabled)]
               /\ UNCHANGED wild
      <4>1. PICK enabled \in BOOLEAN :
              clients' = [clients EXCEPT ![i] = WithTask(@, line),
                                         ![i + 1] = Overrun(@, enabled)]
        BY <3>3
      <4> DEFINE w == WithTask(clients[i], line)
                 o == Overrun(clients[i + 1], enabled)
      <4>2. w \in Client /\ w.num_tasks = k + 1 /\ w.node_id = clients[i].node_id
        BY <2>0, <3>1, WithTaskType
      <4>3. o \in Client /\ o.num_tasks = clients[i + 1].num_tasks /\ o.node_id = Garbage
        BY <1>1, <3>3, OverrunType
      <4>4. i \in Int /\ i + 1 # i
        BY <2>2, ConfigAssumption DEF Ids
      <4>5. clients' = [clients EXCEPT ![i] = w, ![i + 1] = o]
        BY <4>1, <4>4
      <4> HIDE DEF w, o
      <4>6. clients' \in [Ids -> Client]
        BY <1>1, <4>2, <4>3, <4>5
      <4>7. \A j \in Ids : clients'[j] = IF j = i THEN w ELSE IF j = i + 1 THEN o ELSE clients[j]
        BY <1>1, <4>4, <4>5
      <4>8. ASSUME NEW j \in Ids
            PROVE  /\ clients'[j].node_id \in {j, Garbage}
                   /\ clients'[j].num_tasks = IF line.words = 4 /\ line.id = j
                                                THEN clients[j].num_tasks + 1
                                                ELSE clients[j].num_tasks
        BY <1>1, <2>0, <4>2, <4>3, <4>4, <4>7
      <4> QED
        BY <1>1, <2>0, <3>3, <4>6, <4>8
    <3>4. CASE clients' = [clients EXCEPT ![i] = WithTask(@, line)] /\ wild' = TRUE
      <4> DEFINE w == WithTask(clients[i], line)
      <4>1. w \in Client /\ w.num_tasks = k + 1 /\ w.node_id = clients[i].node_id
        BY <2>0, <3>1, WithTaskType
      <4>2. clients' = [clients EXCEPT ![i] = w]
        BY <3>4
      <4> HIDE DEF w
      <4> QED
        BY <1>1, <2>0, <2>2, <3>4, <4>1, <4>2
    <3> QED
      BY <1>5, <2>2, <3>2, <3>3, <3>4 DEF FourWords
  <2> QED
    BY <2>1, <2>2
<1> QED
  BY <1>2, <1>3, <1>4, <1>5 DEF ReadLine

LEMMA AtFirst ==
  ASSUME lines = << >>
  PROVE  /\ \A w, i : Of(w, i) = << >>
         /\ Numbers = << >> /\ CountRead = 0 /\ TimeoutRead = 0
<1>1. Numbers = << >> /\ \A w, i : Of(w, i) = << >>
  BY MatchingEmpty DEF Of, Numbers
<1>2. DOMAIN << >> = {}
  OBVIOUS
<1>3. FirstCount = {}
  BY <1>1, <1>2 DEF FirstCount
<1> QED
  BY <1>1, <1>3 DEF CountRead, TimeoutRead

LEMMA InitTypeOK == Init => TypeOK /\ Counted
<1> SUFFICES ASSUME Init
             PROVE  TypeOK /\ Counted
  OBVIOUS
<1>1. \A i \in Ids : /\ NewClient(i) \in Client /\ NewClient(i).num_tasks = 0
                     /\ NewClient(i).node_id = i
  <2>1. DefaultPacket \in [delay : Int, drop : Int]
    BY DEF DefaultPacket
  <2> QED
    BY <2>1 DEF NewClient, Client
<1>2. << >> \in Seq(Line) /\ Len(<< >>) = 0
  BY EmptySeq
<1>3. Counted
  BY <1>1, <1>2, AtFirst DEF Init, Counted
<1>4. clients \in [Ids -> Client] /\ \A i \in Ids : clients[i] = NewClient(i)
  BY <1>1 DEF Init
<1>5. MaxLines \in Nat
  BY ConfigAssumption
<1>6. TypeOK
  <2>1. \A i \in Ids : clients[i].node_id = i /\ clients[i].num_tasks = 0
    BY <1>1, <1>4
  <2>2. lines \in Seq(Line) /\ Len(lines) <= MaxLines
    BY <1>2, <1>5 DEF Init
  <2>3. \A i \in Ids : clients[i].node_id \in {i, Garbage} /\ clients[i].num_tasks <= MaxLines
    BY <1>5, <2>1
  <2>4. /\ num_clients \in Int /\ timeout \in Int /\ wild \in BOOLEAN
        /\ process \in [Ids -> {"none", "ended", "listening", "crashed"}]
    <3>1. process = [i \in Ids |-> "none"]
      BY DEF Init
    <3>2. num_clients = 0 /\ timeout = 0 /\ wild = FALSE
      BY DEF Init
    <3>3. process \in [Ids -> {"none", "ended", "listening", "crashed"}]
      BY <3>1
    <3>4. num_clients \in Int /\ timeout \in Int
      BY <3>2
    <3>5. wild \in BOOLEAN
      BY <3>2, Zenon
    <3> QED
      BY <3>3, <3>4, <3>5
  <2> QED
    BY <1>4, <2>2, <2>3, <2>4 DEF TypeOK
<1> QED
  BY <1>3, <1>6

LEMMA NextTypeOK == TypeOK /\ Counted /\ [Next]_vars => (TypeOK /\ Counted)'
<1> SUFFICES ASSUME TypeOK, Counted, [Next]_vars
             PROVE  TypeOK' /\ Counted'
  OBVIOUS
<1>1. ASSUME NEW line \in Line, ReadLine(line)
      PROVE  TypeOK' /\ Counted'
  <2>1. /\ lines' = Append(lines, line) /\ UNCHANGED process /\ Len(lines) < MaxLines
    BY <1>1 DEF ReadLine
  <2>2. lines \in Seq(Line) /\ Len(lines) \in Nat
    BY LenProperties DEF TypeOK
  <2>3. lines' \in Seq(Line) /\ Len(lines') = Len(lines) + 1
    BY <2>1, <2>2, AppendProperties
  <2>4. Len(lines') <= MaxLines
    BY <2>1, <2>2, <2>3, ConfigAssumption
  <2>5. /\ clients' \in [Ids -> Client]
        /\ \A i \in Ids :
             /\ clients'[i].node_id \in {i, Garbage}
             /\ clients'[i].num_tasks = IF line.words = 4 /\ line.id = i
                                          THEN clients[i].num_tasks + 1
                                          ELSE clients[i].num_tasks
        /\ num_clients' \in Int /\ timeout' \in Int /\ wild' \in BOOLEAN
    BY <1>1, TableAfter
  <2>6. ASSUME NEW i \in Ids
        PROVE  clients'[i].num_tasks = Len(Of(4, i)')
    <3>1. Of(4, i)' = IF line.words = 4 /\ line.id = i THEN Append(Of(4, i), line) ELSE Of(4, i)
      BY <2>1, OfAfter
    <3>2. Len(Append(Of(4, i), line)) = Len(Of(4, i)) + 1
      BY OfType, LastAppend
    <3> QED
      BY <2>5, <3>1, <3>2 DEF Counted
  <2>7. Counted'
    BY <2>6 DEF Counted
  <2>8. ASSUME NEW i \in Ids
        PROVE  clients'[i].num_tasks <= MaxLines
    <3>1. Of(4, i)' = Matching(lines', {l \in Line : l.words = 4 /\ l.id = i})
      BY DEF Of
    <3>2. Len(Of(4, i)') \in Nat /\ Len(Of(4, i)') <= Len(lines')
      BY <2>3, <3>1, MatchingType
    <3> QED
      BY <2>2, <2>3, <2>4, <2>6, <3>2, ConfigAssumption
  <2> QED
    BY <2>1, <2>3, <2>4, <2>5, <2>7, <2>8 DEF TypeOK
<1>2. ASSUME NEW i \in Ids, Start(i)
      PROVE  TypeOK' /\ Counted'
  <2>1. /\ UNCHANGED <<lines, table>>
        /\ \E o \in {"ended", "listening", "crashed"} : process' = [process EXCEPT ![i] = o]
    BY <1>2 DEF Start, Outcomes
  <2> QED
    BY <2>1 DEF TypeOK, Counted, Of, table
<1>3. CASE UNCHANGED vars
  BY <1>3 DEF vars, table, TypeOK, Counted, Of
<1> QED
  BY <1>1, <1>2, <1>3 DEF Next

\* The table is well formed whatever the file says, and the counts of tasks do
\* not exceed its lines.
THEOREM TypeCorrect == Spec => []TypeOK
<1> QED
  BY InitTypeOK, NextTypeOK, PTL DEF Spec

--------------------------------------------------------------------------------
(***************************************************************************)
(* The table and the meaning of the file.                                  *)
(***************************************************************************)

\* How the record depends on the lines.
Fields(i, e, f, d, h, s, a, n, m) ==
  [node_id |-> i, enabled |-> e, filename |-> f, packet |-> d, has_task |-> h,
   task_start_time |-> s, task_share |-> a, num_tasks |-> n, taskname |-> m]

\* The fields that a line changes.
Enabled(r, e)  == [r EXCEPT !.enabled = e]
Filed(r, f)    == [r EXCEPT !.filename = f]
Delayed(r, d)  == [r EXCEPT !.packet = d]
Tasked(r, k, line) == WithTask([r EXCEPT !.taskname[k] = line.name], line)

LEMMA RecordExcept ==
  ASSUME NEW i, NEW c, NEW f, NEW d, NEW t
  PROVE  /\ \A count : Record(i, count, f, d, t) =
                         Enabled(Record(i, c, f, d, t), i < count)
         /\ \A g : g # << >> => Record(i, c, g, d, t) =
                                  Filed(Record(i, c, f, d, t), Last(g).name)
         /\ \A e : e # << >> => Record(i, c, f, e, t) =
                                  Delayed(Record(i, c, f, d, t), Packet(Last(e)))
<1> DEFINE F == IF f = << >> THEN NoName ELSE Last(f).name
           D == IF d = << >> THEN DefaultPacket ELSE Packet(Last(d))
           H == t # << >>
           S == IF t = << >> THEN -1 ELSE Last(t).start
           A == IF t = << >> THEN 0 ELSE Last(t).share
           M == [k \in 0 .. MAX_TASKS - 1 |-> IF k < Len(t) THEN t[k + 1].name ELSE NoName]
           R(e, fn, pd) == Fields(i, e, fn, pd, H, S, A, Len(t), M)
           r == Record(i, c, f, d, t)
<1>1. r = R(i < c, F, D)
  BY Zenon DEF Record, Fields
<1>2. ASSUME NEW count
      PROVE  Record(i, count, f, d, t) = R(i < count, F, D)
  BY Zenon DEF Record, Fields
<1>3. ASSUME NEW g, g # << >>
      PROVE  Record(i, c, g, d, t) = R(i < c, Last(g).name, D)
  <2>1. (IF g = << >> THEN NoName ELSE Last(g).name) = Last(g).name
    BY <1>3
  <2> QED
    BY <2>1, Zenon DEF Record, Fields
<1>4. ASSUME NEW e, e # << >>
      PROVE  Record(i, c, f, e, t) = R(i < c, F, Packet(Last(e)))
  <2>1. (IF e = << >> THEN DefaultPacket ELSE Packet(Last(e))) = Packet(Last(e))
    BY <1>4
  <2> QED
    BY <2>1, Zenon DEF Record, Fields
<1> HIDE DEF F, D, H, S, A, M, r
<1> DEFINE E == i < c
<1> HIDE DEF E
<1>5. r \in [node_id : {i}, enabled : {E}, filename : {F}, packet : {D}, has_task : {H},
             task_start_time : {S}, task_share : {A}, num_tasks : {Len(t)}, taskname : {M}]
  BY <1>1, Zenon DEF E, Fields
<1>6. ASSUME NEW x
      PROVE  [r EXCEPT !.enabled = x] = R(x, F, D)
  BY <1>5 DEF Fields
<1>7. ASSUME NEW x
      PROVE  [r EXCEPT !.filename = x] = R(E, x, D)
  BY <1>5 DEF Fields
<1>8. ASSUME NEW x
      PROVE  [r EXCEPT !.packet = x] = R(E, F, x)
  BY <1>5 DEF Fields
<1> HIDE DEF R
<1>9. \A count : Record(i, count, f, d, t) = [r EXCEPT !.enabled = i < count]
  BY <1>2, <1>6, Zenon
<1>10. \A g : g # << >> => Record(i, c, g, d, t) = [r EXCEPT !.filename = Last(g).name]
  BY <1>3, <1>7, Zenon DEF E
<1>11. \A e : e # << >> => Record(i, c, f, e, t) = [r EXCEPT !.packet = Packet(Last(e))]
  BY <1>4, <1>8, Zenon DEF E
<1> QED
  BY <1>9, <1>10, <1>11, Zenon DEF r, Enabled, Filed, Delayed

\* One more task: its name is kept as long as there is room for it.
LEMMA RecordWithTask ==
  ASSUME NEW i, NEW c, NEW f, NEW d, NEW U, NEW t \in Seq(U), NEW line
  PROVE  Record(i, c, f, d, Append(t, line)) =
           IF Len(t) < MAX_TASKS THEN Tasked(Record(i, c, f, d, t), Len(t), line)
                                 ELSE WithTask(Record(i, c, f, d, t), line)
<1> DEFINE n == Len(t)
           a == Append(t, line)
           names(s) == [k \in 0 .. MAX_TASKS - 1 |-> IF k < Len(s) THEN s[k + 1].name ELSE NoName]
<1>1. /\ a # << >> /\ Len(a) = n + 1 /\ n \in Nat /\ Last(a) = line
      /\ \A k \in 1 .. n : a[k] = t[k]
      /\ a[n + 1] = line
  BY LastAppend
<1>2. MAX_TASKS \in Nat
  BY ConfigAssumption
<1> HIDE DEF a, n
<1>3. names(a) = IF n < MAX_TASKS THEN [names(t) EXCEPT ![n] = line.name] ELSE names(t)
  <2>1. ASSUME NEW k \in 0 .. MAX_TASKS - 1
        PROVE  names(a)[k] = IF k = n THEN line.name ELSE names(t)[k]
    <3>1. CASE k < n
      <4>1. k + 1 \in 1 .. n
        BY <1>1, <3>1
      <4> QED
        BY <1>1, <3>1, <4>1 DEF n
    <3>2. CASE k = n
      BY <1>1, <3>2
    <3>3. CASE k > n
      BY <1>1, <3>3 DEF n
    <3> QED
      BY <1>1, <3>1, <3>2, <3>3
  <2>2. CASE n < MAX_TASKS
    <3>1. n \in 0 .. MAX_TASKS - 1
      BY <1>1, <1>2, <2>2
    <3> QED
      BY <2>1, <2>2, <3>1
  <2>3. CASE ~(n < MAX_TASKS)
    <3>1. n \notin 0 .. MAX_TASKS - 1
      BY <1>1, <1>2, <2>3
    <3> QED
      BY <2>1, <2>3, <3>1
  <2> QED
    BY <2>2, <2>3
<1> DEFINE E == i < c
           F == IF f = << >> THEN NoName ELSE Last(f).name
           D == IF d = << >> THEN DefaultPacket ELSE Packet(Last(d))
           H == t # << >>
           S == IF t = << >> THEN -1 ELSE Last(t).start
           A == IF t = << >> THEN 0 ELSE Last(t).share
           M == names(t)
           N == names(a)
           R(h, s, w, k, m) == Fields(i, E, F, D, h, s, w, k, m)
           r == Record(i, c, f, d, t)
<1>4. r = R(H, S, A, n, M)
  BY Zenon DEF Record, Fields, n
<1>5. Record(i, c, f, d, a) = R(TRUE, line.start, line.share, n + 1, N)
  <2>1. /\ (a # << >>) = TRUE
        /\ (IF a = << >> THEN -1 ELSE Last(a).start) = line.start
        /\ (IF a = << >> THEN 0 ELSE Last(a).share) = line.share
    BY <1>1
  <2>2. Len(a) = n + 1
    BY <1>1
  <2>3. Record(i, c, f, d, a) = R(a # << >>, IF a = << >> THEN -1 ELSE Last(a).start,
                                  IF a = << >> THEN 0 ELSE Last(a).share, Len(a), N)
    BY Zenon DEF Record, Fields
  <2> HIDE DEF R
  <2> QED
    BY <2>1, <2>2, <2>3, Zenon
<1> HIDE DEF E, F, D, H, S, A, M, N, r
<1>6. r \in [node_id : {i}, enabled : {E}, filename : {F}, packet : {D}, has_task : {H},
             task_start_time : {S}, task_share : {A}, num_tasks : {n}, taskname : {M}]
  BY <1>4, Zenon DEF Fields
<1> DEFINE q == IF n < MAX_TASKS THEN [r EXCEPT !.taskname[n] = line.name] ELSE r
<1>8. q \in [node_id : {i}, enabled : {E}, filename : {F}, packet : {D}, has_task : {H},
             task_start_time : {S}, task_share : {A}, num_tasks : {n}, taskname : {N}]
  <2>1. CASE n < MAX_TASKS
    <3>1. r.taskname = M
      BY <1>6
    <3>2. N = [M EXCEPT ![n] = line.name]
      BY <1>3, <2>1, Zenon DEF M, N
    <3>3. q = [r EXCEPT !.taskname = N]
      BY <2>1, <3>1, <3>2, Zenon
    <3> HIDE DEF q
    <3> QED
      BY <1>6, <3>3
  <2>2. CASE ~(n < MAX_TASKS)
    <3>1. N = M
      BY <1>3, <2>2, Zenon DEF M, N
    <3> QED
      BY <1>6, <2>2, <3>1
  <2> QED
    BY <2>1, <2>2
<1> HIDE DEF q
<1>9. WithTask(q, line) = R(TRUE, line.start, line.share, n + 1, N)
  <2> DEFINE q1 == [q EXCEPT !.task_start_time = line.start]
             q2 == [q1 EXCEPT !.task_share = line.share]
             q3 == [q2 EXCEPT !.has_task = TRUE]
             k == n + 1
             yes == TRUE
             q4 == [q3 EXCEPT !.num_tasks = k]
  <2>1. WithTask(q, line) = q4
    <3>1. q.num_tasks = n
      BY <1>8
    <3>2. WithTask(q, line) = [q3 EXCEPT !.num_tasks = q.num_tasks + 1]
      BY Zenon DEF WithTask
    <3> QED
      BY <3>1, <3>2
  <2>2. q1 \in [node_id : {i}, enabled : {E}, filename : {F}, packet : {D}, has_task : {H},
               task_start_time : {line.start}, task_share : {A}, num_tasks : {n}, taskname : {N}]
    BY <1>8
  <2> HIDE DEF q1
  <2>3. q2 \in [node_id : {i}, enabled : {E}, filename : {F}, packet : {D}, has_task : {H},
               task_start_time : {line.start}, task_share : {line.share}, num_tasks : {n}, taskname : {N}]
    BY <2>2
  <2> HIDE DEF q2
  <2>4. q3 \in [node_id : {i}, enabled : {E}, filename : {F}, packet : {D}, has_task : {TRUE},
               task_start_time : {line.start}, task_share : {line.share}, num_tasks : {n}, taskname : {N}]
    BY <2>3
  <2> HIDE DEF q3
  <2> HIDE DEF k
  <2>5. q4 = R(yes, line.start, line.share, k, N)
    <3>1. q3 \in [node_id : {i}, enabled : {E}, filename : {F}, packet : {D}, has_task : {yes},
                  task_start_time : {line.start}, task_share : {line.share}, num_tasks : {n},
                  taskname : {N}]
      BY <2>4
    <3> HIDE DEF yes
    <3> QED
      BY <3>1 DEF Fields
  <2> HIDE DEF q4, R
  <2> QED
    BY <2>1, <2>5, Zenon DEF k, yes
<1> QED
  BY <1>5, <1>9, Zenon DEF a, n, r, q, Tasked

LEMMA Unread ==
  ASSUME lines' = lines
  PROVE  /\ \A w, i : Of(w, i)' = Of(w, i)
         /\ CountRead' = CountRead /\ TimeoutRead' = TimeoutRead
         /\ \A i : AsRead(i)' = AsRead(i)
<1>1. (\A w, i : Of(w, i)' = Of(w, i)) /\ Numbers' = Numbers
  BY DEF Of, Numbers
<1>2. FirstCount' = FirstCount
  BY <1>1 DEF FirstCount
<1>3. CountRead' = CountRead /\ TimeoutRead' = TimeoutRead
  BY <1>1, <1>2 DEF CountRead, TimeoutRead
<1> QED
  BY <1>1, <1>3 DEF AsRead

\* What a line does to the meaning of the file for client i.
LEMMA MeaningAfter ==
  ASSUME TypeOK, NEW line \in Line, lines' = Append(lines, line), NEW i
  PROVE  /\ line.words = 1 => AsRead(i)' = Enabled(AsRead(i), i < CountRead')
         /\ line.words # 1 /\ line.id # i => AsRead(i)' = AsRead(i)
         /\ line.words = 2 /\ line.id = i =>
              AsRead(i)' = Filed(AsRead(i), line.name)
         /\ line.words = 3 /\ line.id = i =>
              AsRead(i)' = Delayed(AsRead(i), Packet(line))
         /\ line.words = 4 /\ line.id = i =>
              AsRead(i)' = IF Len(Of(4, i)) < MAX_TASKS
                              THEN Tasked(AsRead(i), Len(Of(4, i)), line)
                              ELSE WithTask(AsRead(i), line)
<1> DEFINE c == CountRead
           C == CountRead'
           f == Of(2, i)
           d == Of(3, i)
           t == Of(4, i)
           F == Append(f, line)
           D == Append(d, line)
           T == Append(t, line)
           r == Record(i, c, f, d, t)
<1>1. /\ f' = IF line.words = 2 /\ line.id = i THEN F ELSE f
      /\ d' = IF line.words = 3 /\ line.id = i THEN D ELSE d
      /\ t' = IF line.words = 4 /\ line.id = i THEN T ELSE t
  BY OfAfter
<1>2. line.words # 1 => C = c
  BY CountAfter
<1>3. AsRead(i)' = Record(i, C, f', d', t') /\ AsRead(i) = r
  BY DEF AsRead
<1>4. /\ f \in Seq({l \in Line : l.words = 2 /\ l.id = i})
      /\ d \in Seq({l \in Line : l.words = 3 /\ l.id = i})
      /\ t \in Seq({l \in Line : l.words = 4 /\ l.id = i})
  BY OfType
<1> HIDE DEF c, C, f, d, t
<1>5. F # << >> /\ Last(F) = line /\ D # << >> /\ Last(D) = line
  BY <1>4, LastAppend
<1>6. Record(i, c, f, d, T) = IF Len(t) < MAX_TASKS THEN Tasked(r, Len(t), line)
                                                    ELSE WithTask(r, line)
  BY <1>4, RecordWithTask
<1> HIDE DEF F, D, T
<1>7. /\ Record(i, C, f, d, t) = Enabled(r, i < C)
      /\ Record(i, c, F, d, t) = Filed(r, line.name)
      /\ Record(i, c, f, D, t) = Delayed(r, Packet(line))
  BY <1>5, RecordExcept
<1> HIDE DEF r
<1>8. CASE line.words = 1
  <2>1. AsRead(i)' = Record(i, C, f, d, t)
    BY <1>1, <1>3, <1>8
  <2> QED
    BY <1>3, <1>7, <1>8, <2>1 DEF C
<1>9. CASE line.words # 1 /\ line.id # i
  BY <1>1, <1>2, <1>3, <1>9 DEF r
<1>10. CASE line.words = 2 /\ line.id = i
  <2>1. AsRead(i)' = Record(i, c, F, d, t)
    BY <1>1, <1>2, <1>3, <1>10
  <2> QED
    BY <1>3, <1>7, <1>10, <2>1
<1>11. CASE line.words = 3 /\ line.id = i
  <2>1. AsRead(i)' = Record(i, c, f, D, t)
    BY <1>1, <1>2, <1>3, <1>11
  <2> QED
    BY <1>3, <1>7, <1>11, <2>1
<1>12. CASE line.words = 4 /\ line.id = i
  <2>1. AsRead(i)' = Record(i, c, f, d, T)
    BY <1>1, <1>2, <1>3, <1>12
  <2> QED
    BY <1>3, <1>6, <1>12, <2>1 DEF t
<1>13. line.words \in {1, 2, 3, 4}
  BY LineType
<1> QED
  BY <1>8, <1>9, <1>10, <1>11, <1>12, <1>13

--------------------------------------------------------------------------------
(***************************************************************************)
(* The table holds what the file means.                                    *)
(***************************************************************************)

\* Lines only add to the tasks of a client.
LEMMA SparedBefore ==
  ASSUME TypeOK, NEW line \in Line, lines' = Append(lines, line), NEW i, Spared(i)'
  PROVE  Spared(i)
<1>1. CASE i = 0
  BY <1>1 DEF Spared
<1>2. CASE i # 0
  <2>1. Len(Of(4, i - 1)') <= MAX_TASKS
    BY <1>2 DEF Spared
  <2>2. \/ Of(4, i - 1)' = Append(Of(4, i - 1), line)
        \/ Of(4, i - 1)' = Of(4, i - 1)
    BY OfAfter
  <2>3. /\ Len(Of(4, i - 1)) \in Nat
        /\ Len(Append(Of(4, i - 1), line)) = Len(Of(4, i - 1)) + 1
    <3>1. Of(4, i - 1) \in Seq({l \in Line : l.words = 4 /\ l.id = i - 1})
      BY OfType
    <3> QED
      BY <3>1, LastAppend
  <2>4. MAX_TASKS \in Nat
    BY ConfigAssumption
  <2>5. Len(Of(4, i - 1)) <= MAX_TASKS
    BY <2>1, <2>2, <2>3, <2>4
  <2> QED
    BY <2>5 DEF Spared
<1> QED
  BY <1>1, <1>2

LEMMA OneWordMeans ==
  ASSUME TypeOK, NEW line \in Line, lines' = Append(lines, line), OneWord(line),
         num_clients = CountRead, NEW i \in Ids, clients[i] = AsRead(i)
  PROVE  clients'[i] = AsRead(i)'
<1>1. line.words = 1 /\ i \in Nat
  BY DEF OneWord, Ids
<1>2. /\ CountRead' = IF CountRead = 0 THEN line.value ELSE CountRead
      /\ CountRead \in Int
  BY <1>1, CountAfter
<1>3. AsRead(i)' = Enabled(AsRead(i), i < CountRead')
  BY <1>1, MeaningAfter
<1>4. CASE num_clients # 0
  <2>1. AsRead(i)' = Enabled(AsRead(i), i < CountRead)
    BY <1>2, <1>3, <1>4
  <2>2. Enabled(AsRead(i), i < CountRead) = AsRead(i)
    <3>1. \A c, f, d, t : Record(i, c, f, d, t) = Enabled(Record(i, c, f, d, t), i < c)
      BY RecordExcept
    <3> QED
      BY <3>1 DEF AsRead
  <2>3. clients' = clients
    BY <1>4 DEF OneWord
  <2> QED
    BY <2>1, <2>2, <2>3
<1>5. CASE num_clients = 0
  <2>1. clients'[i] = [clients[i] EXCEPT !.enabled = clients[i].enabled \/ i < line.value]
    BY <1>5 DEF OneWord
  <2>2. AsRead(i).enabled = (i < CountRead)
    BY Zenon DEF AsRead, Record
  <2>3. ~(i < CountRead)
    BY <1>1, <1>5
  <2>4. (clients[i].enabled \/ i < line.value) = (i < line.value)
    <3>1. ~clients[i].enabled
      BY <2>2, <2>3, Zenon
    <3>2. CASE i < line.value
      BY <3>2, Zenon
    <3>3. CASE ~(i < line.value)
      <4>1. (clients[i].enabled \/ i < line.value) = FALSE
        BY <3>1, <3>3
      <4>2. (i < line.value) = FALSE
        BY <3>3
      <4> QED
        BY <4>1, <4>2
    <3> QED
      BY <3>2, <3>3
  <2>5. clients'[i] = Enabled(AsRead(i), i < line.value)
    BY <2>1, <2>4, Zenon DEF Enabled
  <2>6. CountRead' = line.value
    BY <1>2, <1>5
  <2> QED
    BY <1>3, <2>5, <2>6, Zenon
<1> QED
  BY <1>4, <1>5

LEMMA NamesMean ==
  ASSUME TypeOK, NEW line \in Line, lines' = Append(lines, line),
         TwoWords(line) \/ ThreeWords(line), NEW i \in Ids, clients[i] = AsRead(i)
  PROVE  clients'[i] = AsRead(i)'
<1>1. clients \in [Ids -> Client]
  BY DEF TypeOK
<1>2. CASE line.id # i
  <2>1. line.words # 1
    BY DEF TwoWords, ThreeWords
  <2>2. AsRead(i)' = AsRead(i)
    BY <1>2, <2>1, MeaningAfter
  <2>3. clients'[i] = clients[i]
    BY <1>1, <1>2 DEF TwoWords, ThreeWords
  <2> QED
    BY <2>2, <2>3
<1>3. CASE line.id = i /\ TwoWords(line)
  <2>1. AsRead(i)' = Filed(AsRead(i), line.name)
    BY <1>3, MeaningAfter DEF TwoWords
  <2>2. clients'[i] = Filed(clients[i], line.name)
    BY <1>1, <1>3 DEF TwoWords, Filed
  <2> QED
    BY <2>1, <2>2
<1>4. CASE line.id = i /\ ThreeWords(line)
  <2>1. AsRead(i)' = Delayed(AsRead(i), Packet(line))
    BY <1>4, MeaningAfter DEF ThreeWords
  <2>2. clients'[i] = Delayed(clients[i], Packet(line))
    BY <1>1, <1>4 DEF ThreeWords, Delayed
  <2> QED
    BY <2>1, <2>2
<1> QED
  BY <1>2, <1>3, <1>4

LEMMA FourWordsMeans ==
  ASSUME TypeOK, Counted, NEW line \in Line, lines' = Append(lines, line), FourWords(line), ~wild',
         NEW i \in Ids, clients[i] = AsRead(i), Spared(i)'
  PROVE  clients'[i] = AsRead(i)'
<1> DEFINE j == line.id
           k == clients[j].num_tasks
<1>0. line.words = 4 /\ clients \in [Ids -> Client] /\ i \in Nat /\ MAX_TASKS \in Nat
  BY ConfigAssumption DEF FourWords, TypeOK, Ids
<1>1. CASE j \notin Ids
  <2>1. AsRead(i)' = AsRead(i)
    BY <1>0, <1>1, MeaningAfter
  <2> QED
    BY <1>1, <2>1 DEF FourWords
<1>2. CASE j \in Ids
  <2>1. k = Len(Of(4, j)) /\ k \in Nat
    BY <1>2, OfType DEF Counted
  <2>2. j # i => AsRead(i)' = AsRead(i)
    BY <1>0, MeaningAfter
  <2>3. j = i => AsRead(i)' = IF k < MAX_TASKS THEN Tasked(AsRead(i), k, line)
                                                ELSE WithTask(AsRead(i), line)
    BY <1>0, <2>1, MeaningAfter
  <2>4. CASE /\ k < MAX_TASKS
             /\ clients' = [clients EXCEPT ![j] =
                              WithTask([@ EXCEPT !.taskname[k] = line.name], line)]
    <3>1. clients' = [clients EXCEPT ![j] = Tasked(clients[j], k, line)]
      BY <2>4, Zenon DEF Tasked
    <3>2. clients'[i] = IF i = j THEN Tasked(clients[j], k, line) ELSE clients[i]
      BY <1>0, <1>2, <3>1
    <3> QED
      BY <2>2, <2>3, <2>4, <3>2
  <2>5. CASE /\ k = MAX_TASKS
             /\ j + 1 \in Ids
             /\ \E enabled \in BOOLEAN :
                  clients' = [clients EXCEPT ![j] = WithTask(@, line),
                                             ![j + 1] = Overrun(@, enabled)]
    <3>1. j \in Nat /\ j + 1 # 0 /\ (j + 1) - 1 = j /\ j + 1 # j
      BY <1>2 DEF Ids
    <3>2. Of(4, j)' = Append(Of(4, j), line)
      BY <1>0, OfAfter
    <3>3. Len(Append(Of(4, j), line)) = Len(Of(4, j)) + 1
      <4>1. Of(4, j) \in Seq({l \in Line : l.words = 4 /\ l.id = j})
        BY OfType
      <4> QED
        BY <4>1, LastAppend
    <3>4. Len(Of(4, j)') = MAX_TASKS + 1
      BY <2>1, <2>5, <3>2, <3>3
    <3>5. i # j + 1
      <4> SUFFICES ASSUME i = j + 1
                   PROVE  FALSE
        OBVIOUS
      <4>1. i # 0 /\ i - 1 = j
        BY <3>1
      <4>2. Len(Of(4, j)') <= MAX_TASKS
        BY <4>1 DEF Spared
      <4> QED
        BY <1>0, <3>4, <4>2
    <3>6. clients'[i] = IF i = j THEN WithTask(clients[j], line) ELSE clients[i]
      <4>1. PICK enabled \in BOOLEAN :
              clients' = [clients EXCEPT ![j] = WithTask(@, line),
                                         ![j + 1] = Overrun(@, enabled)]
        BY <2>5
      <4> DEFINE w == WithTask(clients[j], line)
                 o == Overrun(clients[j + 1], enabled)
      <4>2. clients' = [clients EXCEPT ![j] = w, ![j + 1] = o]
        BY <3>1, <4>1
      <4> HIDE DEF w, o
      <4>3. clients'[i] = IF i = j THEN w ELSE clients[i]
        BY <1>0, <1>2, <2>5, <3>5, <4>2
      <4> QED
        BY <4>3 DEF w
    <3>7. ~(k < MAX_TASKS)
      BY <1>0, <2>5
    <3> QED
      BY <2>2, <2>3, <3>6, <3>7
  <2> QED
    BY <1>2, <2>4, <2>5 DEF FourWords
<1> QED
  BY <1>1, <1>2

LEMMA InitTable == Init => TableIsRead
<1> SUFFICES ASSUME Init
             PROVE  TableIsRead
  OBVIOUS
<1>1. /\ \A w, i : Of(w, i) = << >>
      /\ CountRead = 0 /\ TimeoutRead = 0
  BY AtFirst DEF Init
<1>2. ASSUME NEW i \in Ids
      PROVE  clients[i] = AsRead(i)
  <2>1. AsRead(i) = Record(i, 0, << >>, << >>, << >>)
    BY <1>1 DEF AsRead
  <2>2. Len(<< >>) = 0 /\ ~(i < 0)
    BY DEF Ids
  <2>3. clients[i] = NewClient(i)
    BY DEF Init
  <2>4. [k \in 0 .. MAX_TASKS - 1 |-> IF k < Len(<< >>) THEN << >>[k + 1].name ELSE NoName]
          = [k \in 0 .. MAX_TASKS - 1 |-> NoName]
    BY <2>2
  <2>5. Record(i, 0, << >>, << >>, << >>) = NewClient(i)
    <3>1. /\ (i < 0) = FALSE /\ (<< >> # << >>) = FALSE /\ Len(<< >>) = 0
          /\ (IF << >> = << >> THEN NoName ELSE Last(<< >>).name) = NoName
          /\ (IF << >> = << >> THEN -1 ELSE Last(<< >>).delay) = -1
          /\ (IF << >> = << >> THEN -1 ELSE Last(<< >>).start) = -1
          /\ (IF << >> = << >> THEN 0 ELSE Last(<< >>).share) = 0
      BY <2>2
    <3> QED
      BY <2>4, <3>1, Zenon DEF Record, NewClient
  <2> QED
    BY <2>1, <2>3, <2>5
<1> QED
  BY <1>1, <1>2 DEF Init, TableIsRead

LEMMA NextTable ==
  TypeOK /\ Counted /\ TableIsRead /\ [Next]_vars => TableIsRead'
<1> SUFFICES ASSUME TypeOK, Counted, TableIsRead, [Next]_vars
             PROVE  TableIsRead'
  OBVIOUS
<1>1. ASSUME NEW line \in Line, ReadLine(line), ~wild'
      PROVE  TableIsRead'
  <2>1. /\ ~wild /\ lines' = Append(lines, line)
        /\ OneWord(line) \/ TwoWords(line) \/ ThreeWords(line) \/ FourWords(line)
    BY <1>1 DEF ReadLine
  <2>2. /\ \A i \in Ids : Spared(i) => clients[i] = AsRead(i)
        /\ num_clients = CountRead
        /\ timeout = TimeoutRead
    BY <2>1 DEF TableIsRead, Spared
  <2>3. ASSUME NEW i \in Ids, Spared(i)'
        PROVE  clients'[i] = AsRead(i)'
    <3>1. clients[i] = AsRead(i)
      BY <2>1, <2>2, <2>3, SparedBefore
    <3> QED
      BY <1>1, <2>1, <2>2, <2>3, <3>1, OneWordMeans, NamesMean, FourWordsMeans
  <2>4. /\ CountRead' = IF line.words = 1 /\ CountRead = 0 THEN line.value ELSE CountRead
        /\ TimeoutRead' = IF line.words = 1 /\ CountRead # 0 THEN line.value ELSE TimeoutRead
    BY <2>1, CountAfter
  <2>5. num_clients' = CountRead' /\ timeout' = TimeoutRead'
    <3>1. CASE line.words = 1
      <4>1. OneWord(line)
        BY <2>1, <3>1 DEF TwoWords, ThreeWords, FourWords
      <4> QED
        BY <2>2, <2>4, <3>1, <4>1 DEF OneWord
    <3>2. CASE line.words # 1
      <4>1. UNCHANGED <<num_clients, timeout>>
        BY <2>1, <3>2 DEF OneWord, TwoWords, ThreeWords, FourWords
      <4> QED
        BY <2>2, <2>4, <3>2, <4>1
    <3> QED
      BY <3>1, <3>2
  <2> QED
    BY <2>3, <2>5 DEF TableIsRead, Spared
<1>2. ASSUME UNCHANGED <<lines, table>>
      PROVE  TableIsRead'
  <2>1. lines' = lines /\ clients' = clients /\ num_clients' = num_clients
        /\ timeout' = timeout /\ wild' = wild
    BY <1>2 DEF table
  <2>2. /\ \A w, i : Of(w, i)' = Of(w, i)
        /\ CountRead' = CountRead /\ TimeoutRead' = TimeoutRead
        /\ \A i : AsRead(i)' = AsRead(i)
    BY <2>1, Unread
  <2> QED
    BY <2>1, <2>2 DEF TableIsRead, Spared
<1>3. ASSUME wild'
      PROVE  TableIsRead'
  BY <1>3 DEF TableIsRead
<1>4. ASSUME NEW i \in Ids, Start(i)
      PROVE  TableIsRead'
  BY <1>2, <1>4 DEF Start
<1>5. CASE UNCHANGED vars
  BY <1>2, <1>5 DEF vars
<1> QED
  BY <1>1, <1>3, <1>4, <1>5 DEF Next

--------------------------------------------------------------------------------
(***************************************************************************)
(* A file that fits, and the clients that listen.                          *)
(***************************************************************************)

LEMMA FitsUnread == lines' = lines => (Fits' <=> Fits)
  BY Unread DEF Fits

LEMMA NextStays ==
  TypeOK /\ Counted /\ TableIsRead /\ StaysInTable /\ [Next]_vars => StaysInTable'
<1> SUFFICES ASSUME TypeOK, Counted, TableIsRead, StaysInTable, [Next]_vars
             PROVE  StaysInTable'
  OBVIOUS
<1>1. ASSUME NEW line \in Line, ReadLine(line), wild'
      PROVE  ~Fits'
  <2>1. /\ ~wild /\ lines' = Append(lines, line)
        /\ OneWord(line) \/ TwoWords(line) \/ ThreeWords(line) \/ FourWords(line)
    BY <1>1 DEF ReadLine
  <2>2. MAX_CLIENTS \in Nat /\ MAX_TASKS \in Nat
    BY ConfigAssumption
  <2>3. CASE OneWord(line)
    <3>1. line.words = 1 /\ line.value \in Int
      BY <2>3, LineType DEF OneWord
    <3>2. num_clients = 0 /\ line.value > MAX_CLIENTS
      BY <1>1, <2>1, <2>3 DEF OneWord
    <3>3. CountRead' = line.value
      BY <2>1, <3>1, <3>2, CountAfter DEF TableIsRead
    <3>4. ~(CountRead' <= MAX_CLIENTS)
      BY <2>2, <3>1, <3>2, <3>3
    <3> QED
      BY <3>4 DEF Fits
  <2>4. CASE TwoWords(line) \/ ThreeWords(line)
    BY <1>1, <2>1, <2>4 DEF TwoWords, ThreeWords
  <2>5. CASE FourWords(line)
    <3> DEFINE j == line.id
    <3>1. line.words = 4 /\ j \in Ids
      BY <1>1, <2>1, <2>5 DEF FourWords
    <3>2. clients[j].num_tasks > MAX_TASKS \/ clients[j].num_tasks = MAX_TASKS
      BY <1>1, <2>1, <2>5, <3>1, Zenon DEF FourWords
    <3>3. clients[j].num_tasks = Len(Of(4, j)) /\ Len(Of(4, j)) \in Nat
      BY <3>1, OfType DEF Counted
    <3>4. Of(4, j)' = Append(Of(4, j), line)
      BY <2>1, <3>1, OfAfter
    <3>5. Len(Append(Of(4, j), line)) = Len(Of(4, j)) + 1
      <4>1. Of(4, j) \in Seq({l \in Line : l.words = 4 /\ l.id = j})
        BY OfType
      <4> QED
        BY <4>1, LastAppend
    <3>6. ~(Len(Of(4, j)') <= MAX_TASKS)
      BY <2>2, <3>2, <3>3, <3>4, <3>5
    <3> QED
      BY <3>1, <3>6 DEF Fits
  <2> QED
    BY <2>1, <2>3, <2>4, <2>5
<1>2. ASSUME UNCHANGED <<lines, table>>
      PROVE  StaysInTable'
  <2>1. lines' = lines /\ wild' = wild
    BY <1>2 DEF table
  <2> QED
    BY <2>1, FitsUnread DEF StaysInTable
<1>3. ASSUME NEW i \in Ids, Start(i)
      PROVE  StaysInTable'
  BY <1>2, <1>3 DEF Start
<1>4. CASE UNCHANGED vars
  BY <1>2, <1>4 DEF vars
<1> QED
  BY <1>1, <1>3, <1>4 DEF Next, StaysInTable

LEMMA NextListens ==
  TypeOK /\ TableIsRead /\ StaysInTable /\ ListensForTask /\ [Next]_vars => ListensForTask'
<1> SUFFICES ASSUME TypeOK, TableIsRead, StaysInTable, ListensForTask, [Next]_vars
             PROVE  ListensForTask'
  OBVIOUS
<1>1. ASSUME NEW line \in Line, ReadLine(line)
      PROVE  ListensForTask'
  <2>1. \A i \in Ids : process'[i] = "none"
    BY <1>1 DEF ReadLine
  <2> QED
    BY <2>1 DEF ListensForTask
<1>2. ASSUME NEW i \in Ids, Start(i)
      PROVE  ListensForTask'
  <2>1. PICK outcome \in Outcomes(clients[i]) : process' = [process EXCEPT ![i] = outcome]
    BY <1>2 DEF Start
  <2>2. lines' = lines /\ process \in [Ids -> {"none", "ended", "listening", "crashed"}]
    BY <1>2 DEF Start, TypeOK
  <2>3. \A w, k : Of(w, k)' = Of(w, k)
    BY <2>2, Unread
  <2>4. SUFFICES ASSUME Fits, NEW j \in Ids
                 PROVE  /\ process'[j] = "listening" => Of(4, j) # << >>
                        /\ process'[j] = "crashed" =>
                             Of(2, j) = << >> \/ Last(Of(2, j)).name \notin OnDisk
    BY <2>2, <2>3, FitsUnread DEF ListensForTask
  <2>5. CASE j # i
    <3>1. process'[j] = process[j]
      BY <2>1, <2>2, <2>5
    <3> QED
      BY <2>4, <3>1 DEF ListensForTask
  <2>6. CASE j = i
    <3>1. i = 0 \/ i - 1 \in Ids
      BY ConfigAssumption DEF Ids
    <3>2. clients[i] = AsRead(i)
      BY <2>4, <3>1 DEF Fits, StaysInTable, TableIsRead, Spared
    <3>3. /\ AsRead(i).has_task = (Of(4, i) # << >>)
          /\ AsRead(i).filename = IF Of(2, i) = << >> THEN NoName ELSE Last(Of(2, i)).name
      BY Zenon DEF AsRead, Record
    <3>4. process'[i] = outcome
      BY <2>1, <2>2
    <3>5. /\ outcome = "listening" => clients[i].has_task
          /\ outcome = "crashed" => clients[i].filename \notin OnDisk
      BY <2>1 DEF Outcomes
    <3>6. outcome = "listening" => Of(4, i) # << >>
      BY <3>2, <3>3, <3>5, Zenon
    <3>7. outcome = "crashed" => Of(2, i) = << >> \/ Last(Of(2, i)).name \notin OnDisk
      BY <3>2, <3>3, <3>5
    <3> QED
      BY <2>6, <3>4, <3>6, <3>7
  <2> QED
    BY <2>5, <2>6
<1>3. CASE UNCHANGED vars
  <2>1. lines' = lines /\ process' = process
    BY <1>3 DEF vars
  <2>2. \A w, i : Of(w, i)' = Of(w, i)
    BY <2>1, Unread
  <2> QED
    BY <2>1, <2>2, FitsUnread DEF ListensForTask
<1> QED
  BY <1>1, <1>2, <1>3 DEF Next

Inv == TypeOK /\ Counted /\ TableIsRead /\ StaysInTable /\ ListensForTask

LEMMA Invariance == Spec => []Inv
<1>1. Init => Inv
  <2> SUFFICES ASSUME Init
               PROVE  Inv
    OBVIOUS
  <2>1. TypeOK /\ Counted /\ TableIsRead
    BY InitTypeOK, InitTable
  <2>2. StaysInTable /\ ListensForTask
    BY DEF Init, StaysInTable, ListensForTask
  <2> QED
    BY <2>1, <2>2 DEF Inv
<1>2. Inv /\ [Next]_vars => Inv'
  BY NextTypeOK, NextTable, NextStays, NextListens DEF Inv
<1> QED
  BY <1>1, <1>2, PTL DEF Spec

\* The parser counts the clients and finds the timeout where manager.conf says.
LEMMA NumbersAreRead ==
  ASSUME TypeOK, NumbersAreClear
  PROVE  CountRead = NodeCount /\ TimeoutRead = Timeout
<1> DEFINE N == Numbers
           n == Len(Numbers)
<1>1. /\ n \in Nat /\ n <= 2 /\ DOMAIN N = 1 .. n
      /\ N = << >> \/ n # 0
  BY NumbersType, LenProperties, EmptySeq DEF NumbersAreClear, TypeOK
<1>2. CASE N = << >>
  <2>1. FirstCount = {} /\ n = 0
    BY <1>2 DEF FirstCount
  <2> QED
    BY <1>2, <2>1 DEF CountRead, TimeoutRead, NodeCount, Timeout
<1>3. CASE N # << >>
  <2>1. N[1].value # 0 /\ 1 \in DOMAIN N
    BY <1>1, <1>3 DEF NumbersAreClear
  <2>2. 1 \in FirstCount
    BY <1>1, <2>1 DEF FirstCount
  <2>3. FirstCount = {1}
    <3>1. ASSUME NEW k \in FirstCount
          PROVE  k = 1
      <4>1. k \in 1 .. n /\ \A j \in 1 .. k - 1 : N[j].value = 0
        BY <1>1, <3>1 DEF FirstCount
      <4> QED
        BY <1>1, <2>1, <4>1
    <3> QED
      BY <2>2, <3>1
  <2>4. CountRead = N[1].value
    <3>1. (CHOOSE k \in FirstCount : TRUE) = 1
      BY <2>3
    <3> QED
      BY <2>3, <3>1 DEF CountRead
  <2>5. TimeoutRead = IF 1 < n THEN Last(N).value ELSE 0
    BY <2>3 DEF TimeoutRead
  <2>6. ~(n < 2) => n = 2 /\ Last(N) = N[2]
    BY <1>1 DEF Last
  <2>7. TimeoutRead = Timeout
    BY <1>1, <2>5, <2>6 DEF Timeout
  <2> QED
    BY <1>3, <2>4, <2>7 DEF NodeCount
<1> QED
  BY <1>2, <1>3

LEMMA RecordFields ==
  ASSUME NEW i
  PROVE  /\ AsRead(i).enabled = (i < CountRead)
         /\ AsRead(i).node_id = i
         /\ AsRead(i).filename = IF Of(2, i) = << >> THEN NoName ELSE Last(Of(2, i)).name
         /\ AsRead(i).packet = IF Of(3, i) = << >> THEN DefaultPacket
                                                  ELSE Packet(Last(Of(3, i)))
         /\ AsRead(i).has_task = (Of(4, i) # << >>)
<1> DEFINE E == i < CountRead
           F == IF Of(2, i) = << >> THEN NoName ELSE Last(Of(2, i)).name
           D == IF Of(3, i) = << >> THEN DefaultPacket ELSE Packet(Last(Of(3, i)))
           H == Of(4, i) # << >>
<1>1. AsRead(i) = [node_id |-> i, enabled |-> E, filename |-> F, packet |-> D, has_task |-> H,
                   task_start_time |-> AsRead(i).task_start_time,
                   task_share |-> AsRead(i).task_share, num_tasks |-> AsRead(i).num_tasks,
                   taskname |-> AsRead(i).taskname]
  BY Zenon DEF AsRead, Record
<1> HIDE DEF E, F, D, H
<1>2. /\ AsRead(i).node_id = i /\ AsRead(i).enabled = E /\ AsRead(i).filename = F
      /\ AsRead(i).packet = D /\ AsRead(i).has_task = H
  BY <1>1
<1> QED
  BY <1>2, Zenon DEF E, F, D, H

LEMMA LastOfOne ==
  ASSUME NEW q, Len(q) = 1
  PROVE  Last(q) = q[1]
<1>1. Last(q) = q[Len(q)]
  BY Zenon DEF Last
<1> QED
  BY <1>1, Zenon

\* The record of a spared client tells its tasks: all names, and all of one task.
LEMMA TasksAreRead ==
  ASSUME TypeOK, NEW i \in Ids, clients[i] = AsRead(i), Len(Of(4, i)) <= MAX_TASKS
  PROVE  /\ TaskNames(Kept(i)) = TaskNames(Given(i))
         /\ Len(Of(4, i)) <= 1 => Kept(i) = Given(i)
<1> DEFINE t == Of(4, i)
           n == Len(t)
<1>1. n \in Nat /\ MAX_TASKS \in Nat
  BY OfType, ConfigAssumption
<1>2. /\ clients[i].num_tasks = n
      /\ clients[i].taskname = [k \in 0 .. MAX_TASKS - 1 |-> IF k < n THEN t[k + 1].name ELSE NoName]
      /\ clients[i].task_start_time = IF t = << >> THEN -1 ELSE Last(t).start
      /\ clients[i].task_share = IF t = << >> THEN 0 ELSE Last(t).share
  <2> DEFINE M == [k \in 0 .. MAX_TASKS - 1 |-> IF k < Len(t) THEN t[k + 1].name ELSE NoName]
             S == IF t = << >> THEN -1 ELSE Last(t).start
             A == IF t = << >> THEN 0 ELSE Last(t).share
  <2>1. AsRead(i) = [node_id |-> AsRead(i).node_id, enabled |-> AsRead(i).enabled,
                     filename |-> AsRead(i).filename, packet |-> AsRead(i).packet,
                     has_task |-> AsRead(i).has_task, task_start_time |-> S, task_share |-> A,
                     num_tasks |-> Len(t), taskname |-> M]
    BY Zenon DEF AsRead, Record
  <2> HIDE DEF t, M, S, A
  <2>2. /\ AsRead(i).num_tasks = Len(t) /\ AsRead(i).taskname = M
        /\ AsRead(i).task_start_time = S /\ AsRead(i).task_share = A
    BY <2>1
  <2> QED
    BY <2>2 DEF M, S, A
<1> HIDE DEF t, n
<1>3. ASSUME NEW k \in 1 .. n
      PROVE  clients[i].taskname[k - 1] = t[k].name
  <2>1. k - 1 \in 0 .. MAX_TASKS - 1 /\ k - 1 < n /\ (k - 1) + 1 = k
    BY <1>1 DEF t, n
  <2> QED
    BY <1>2, <2>1
<1>4. Kept(i) = [k \in 1 .. n |-> [name  |-> t[k].name,
                                   start |-> clients[i].task_start_time,
                                   share |-> clients[i].task_share]]
  <2>1. Kept(i) = [k \in 1 .. n |-> [name  |-> clients[i].taskname[k - 1],
                                     start |-> clients[i].task_start_time,
                                     share |-> clients[i].task_share]]
    BY <1>2 DEF Kept
  <2> QED
    BY <1>3, <2>1
<1>5. Given(i) = [k \in 1 .. n |-> [name |-> t[k].name, start |-> t[k].start,
                                    share |-> t[k].share]]
  BY DEF Given, t, n
<1>6. TaskNames(Kept(i)) = TaskNames(Given(i))
  <2>1. TaskNames(Kept(i)) = [k \in 1 .. n |-> t[k].name]
    BY <1>4 DEF TaskNames
  <2>2. TaskNames(Given(i)) = [k \in 1 .. n |-> t[k].name]
    BY <1>5 DEF TaskNames
  <2> QED
    BY <2>1, <2>2
<1>7. ASSUME n <= 1
      PROVE  Kept(i) = Given(i)
  <2>1. ASSUME NEW k \in 1 .. n
        PROVE  /\ clients[i].task_start_time = t[k].start
               /\ clients[i].task_share = t[k].share
    <3>1. n = 1 /\ k = 1
      BY <1>1, <1>7, <2>1
    <3>2. t # << >> /\ Last(t) = t[1]
      BY <3>1, EmptySeq DEF n, Last
    <3> QED
      BY <1>2, <3>1, <3>2
  <2> QED
    BY <1>4, <1>5, <2>1
<1> QED
  BY <1>6, <1>7 DEF t, n

\* In any file, lists cut short, mixed or ended twice: the table says what the
\* comments of manager.conf say the file means, as far as the parser can tell the
\* two numbers apart and a record has room (init).
THEOREM TableMeansFile == Spec => []TableIsMeaning
<1>1. Inv => TableIsMeaning
  <2> SUFFICES ASSUME Inv, ~wild
               PROVE  TableIsMeaning
    BY DEF TableIsMeaning
  <2>1. /\ TypeOK
        /\ \A i \in Ids : Spared(i) => clients[i] = AsRead(i)
        /\ num_clients = CountRead
        /\ timeout = TimeoutRead
    BY DEF Inv, TableIsRead
  <2>2. ASSUME NEW i \in Ids, Spared(i)
        PROVE  /\ clients[i].enabled = (i < CountRead)
               /\ clients[i].node_id = i
               /\ clients[i].filename = IF Of(2, i) = << >> THEN NoName ELSE Last(Of(2, i)).name
               /\ clients[i].packet = IF Of(3, i) = << >> THEN DefaultPacket
                                                         ELSE Packet(Last(Of(3, i)))
               /\ clients[i].has_task = (Of(4, i) # << >>)
    <3>1. clients[i] = AsRead(i)
      BY <2>1, <2>2
    <3> QED
      BY <3>1, RecordFields
  <2>3. ASSUME NEW w, NEW i, Len(Of(w, i)) <= 1, Of(w, i) # << >>
        PROVE  Last(Of(w, i)) = Of(w, i)[1]
    <3>1. Of(w, i) \in Seq({l \in Line : l.words = w /\ l.id = i}) /\ Len(Of(w, i)) \in Nat
      BY <2>1, OfType
    <3>2. Len(Of(w, i)) # 0
      BY <2>3, <3>1, EmptySeq
    <3>3. Len(Of(w, i)) = 1
      <4> DEFINE m == Len(Of(w, i))
      <4>1. m \in Nat /\ m # 0 /\ m <= 1
        BY <2>3, <3>1, <3>2
      <4> HIDE DEF m
      <4>2. m = 1
        BY <4>1
      <4> QED
        BY <4>2 DEF m
    <3> QED
      BY <3>3, LastOfOne, Zenon
  <2>4. ASSUME NEW i \in Ids, Spared(i)
        PROVE  /\ Len(Of(2, i)) <= 1 =>
                    clients[i].filename = IF Of(2, i) = << >> THEN NoName ELSE Of(2, i)[1].name
               /\ Len(Of(3, i)) <= 1 =>
                    clients[i].packet = IF Of(3, i) = << >> THEN DefaultPacket
                                                            ELSE Packet(Of(3, i)[1])
    BY <2>2, <2>3, <2>4
  <2>5. ASSUME NEW i \in Ids, Spared(i)
        PROVE  /\ Len(Of(4, i)) <= MAX_TASKS => TaskNames(Kept(i)) = TaskNames(Given(i))
               /\ Len(Of(4, i)) <= 1 => Kept(i) = Given(i)
    <3>1. clients[i] = AsRead(i)
      BY <2>1, <2>5
    <3>2. Len(Of(4, i)) <= 1 => Len(Of(4, i)) <= MAX_TASKS
      <4>1. Len(Of(4, i)) \in Nat /\ MAX_TASKS \in Nat /\ MAX_TASKS > 0
        BY <2>1, OfType, LenProperties, ConfigAssumption DEF TypeOK
      <4> QED
        BY <4>1
    <3> QED
      BY <2>1, <3>1, <3>2, TasksAreRead
  <2>6. NumbersAreClear => CountRead = NodeCount /\ TimeoutRead = Timeout
    BY <2>1, NumbersAreRead
  <2> QED
    BY <2>1, <2>2, <2>4, <2>5, <2>6 DEF TableIsMeaning
<1> QED
  BY <1>1, Invariance, PTL

\* A file that fits the table is read without a write behind its end.
THEOREM TableIsKept == Spec => []StaysInTable
<1>1. Inv => StaysInTable
  BY DEF Inv
<1> QED
  BY <1>1, Invariance, PTL

\* With a file that fits, only a client with a task listens, and one with a task and
\* a file of its own does not crash at its start.
THEOREM ListenersHaveTasks == Spec => []ListensForTask
<1>1. Inv => ListensForTask
  BY DEF Inv
<1> QED
  BY <1>1, Invariance, PTL

================================================================================
