------------------------------ MODULE SwarmProofs ------------------------------
(***************************************************************************)
(* Proofs about module Swarm, for any number of clients, whoever asks whom *)
(* and whatever files they have.                                           *)
(***************************************************************************)
EXTENDS Swarm, WireProofs, SequenceTheorems, WellFoundedInduction, TLAPS

--------------------------------------------------------------------------------
(***************************************************************************)
(* Induction over the natural numbers, for sets.                           *)
(***************************************************************************)

LEMMA Induction ==
  ASSUME NEW S, 0 \in S, \A n \in Nat : n \in S => n + 1 \in S
  PROVE  Nat \subseteq S
<1> DEFINE Before == {p \in Nat \X Nat : p[1] < p[2]}
           Missing == Nat \ S
<1> SUFFICES ASSUME Missing # {}
             PROVE  FALSE
  OBVIOUS
<1>1. IsWellFoundedOn(Before, Nat)
  BY NatLessThanWellFounded, SMT DEF OpToRel
<1>2. PICK n \in Missing : \A k \in Missing : <<k, n>> \notin Before
  <2> HIDE DEF Before, Missing
  <2>1. Missing \subseteq Nat
    BY DEF Missing
  <2> QED
    BY <1>1, <2>1, WFMin
<1>3. n \in Nat /\ n \notin S /\ n # 0
  OBVIOUS
<1>4. n - 1 \in Nat /\ (n - 1) + 1 = n
  BY <1>3
<1>5. <<n - 1, n>> \in Before
  BY <1>3, <1>4
<1>6. n - 1 \in S
  BY <1>2, <1>4, <1>5
<1> QED
  BY <1>3, <1>4, <1>6

--------------------------------------------------------------------------------
(***************************************************************************)
(* What a queue holds of one session.                                      *)
(***************************************************************************)

\* F[i] is what Asks takes from the first i requests.
Taken(F, q, c, n) ==
  /\ F[0] = << >>
  /\ \A i \in 1 .. Len(q) :
       F[i] = IF q[i].from = c /\ q[i].session = n
                THEN Append(F[i - 1], q[i].fr.record_number) ELSE F[i - 1]

LEMMA AsksTaken ==
  ASSUME NEW q, Len(q) \in Nat, NEW c, NEW n
  PROVE  \E F : Taken(F, q, c, n) /\ Asks(q, c, n) = F[Len(q)]
<1> DEFINE Body(F, i) == IF i = 0 THEN << >>
                         ELSE IF q[i].from = c /\ q[i].session = n
                                THEN Append(F[i - 1], q[i].fr.record_number)
                         ELSE F[i - 1]
           Good == {k \in Nat : \E F : F = [i \in 0 .. k |-> Body(F, i)]}
           A == CHOOSE F : F = [i \in 0 .. Len(q) |-> Body(F, i)]
<1>1. 0 \in Good
  <2>1. [i \in 0 .. 0 |-> << >>] = [i \in 0 .. 0 |-> Body([i_1 \in 0 .. 0 |-> << >>], i)]
    OBVIOUS
  <2> QED
    BY <2>1
<1>2. ASSUME NEW k \in Nat, k \in Good
      PROVE  k + 1 \in Good
  <2>1. PICK F : F = [i \in 0 .. k |-> Body(F, i)]
    BY <1>2
  <2> DEFINE G == [i \in 0 .. k + 1 |-> IF i \in 0 .. k THEN F[i] ELSE Body(F, i)]
  <2>2. ASSUME NEW i \in 0 .. k + 1
        PROVE  G[i] = Body(G, i)
    <3>1. i # 0 => i - 1 \in 0 .. k /\ G[i - 1] = F[i - 1]
      OBVIOUS
    <3>2. G[i] = Body(F, i)
      BY <2>1
    <3> QED
      BY <3>1, <3>2
  <2>3. G = [i \in 0 .. k + 1 |-> Body(G, i)]
    BY <2>2
  <2> HIDE DEF G
  <2> QED
    BY <2>3
<1>3. Len(q) \in Good
  <2> HIDE DEF Good
  <2> QED
    BY <1>1, <1>2, Induction
<1>4. A = [i \in 0 .. Len(q) |-> Body(A, i)]
  BY <1>3
<1>5. Asks(q, c, n) = A[Len(q)]
  BY DEF Asks
<1> HIDE DEF A
<1>6. \A i \in 0 .. Len(q) : A[i] = Body(A, i)
  BY <1>4
<1>7. Taken(A, q, c, n)
  BY <1>6 DEF Taken
<1> QED
  BY <1>5, <1>7

\* Two such functions agree as far as the queues do.
LEMMA TakenAgree ==
  ASSUME NEW p, NEW q, NEW c, NEW n, NEW F, NEW G, NEW m \in Nat,
         Len(p) \in Nat, Len(q) \in Nat, m <= Len(p), m <= Len(q),
         Taken(F, p, c, n), Taken(G, q, c, n), \A i \in 1 .. m : p[i] = q[i]
  PROVE  F[m] = G[m]
<1> DEFINE Good == {k \in Nat : k <= m => F[k] = G[k]}
<1>1. 0 \in Good
  BY DEF Taken
<1>2. ASSUME NEW k \in Nat, k \in Good
      PROVE  k + 1 \in Good
  <2> SUFFICES ASSUME k + 1 <= m
               PROVE  F[k + 1] = G[k + 1]
    OBVIOUS
  <2>1. k + 1 \in 1 .. Len(p) /\ k + 1 \in 1 .. Len(q) /\ (k + 1) - 1 = k
    OBVIOUS
  <2>2. F[k] = G[k] /\ p[k + 1] = q[k + 1]
    BY <1>2
  <2> QED
    BY <2>1, <2>2 DEF Taken
<1>3. m \in Good
  <2> HIDE DEF Good
  <2> QED
    BY <1>1, <1>2, Induction
<1> QED
  BY <1>3

LEMMA AsksEmpty ==
  ASSUME NEW c, NEW n
  PROVE  Asks(<< >>, c, n) = << >>
<1>1. Len(<< >>) = 0
  OBVIOUS
<1> QED
  BY <1>1, AsksTaken DEF Taken

LEMMA AsksAppend ==
  ASSUME NEW U, NEW q \in Seq(U), NEW r \in U, NEW c, NEW n
  PROVE  Asks(Append(q, r), c, n) = IF r.from = c /\ r.session = n
                                      THEN Append(Asks(q, c, n), r.fr.record_number)
                                      ELSE Asks(q, c, n)
<1> DEFINE p == Append(q, r)
<1>1. /\ Len(q) \in Nat /\ Len(p) = Len(q) + 1
      /\ \A i \in 1 .. Len(q) : p[i] = q[i]
      /\ p[Len(q) + 1] = r
  OBVIOUS
<1> HIDE DEF p
<1>2. PICK F : Taken(F, q, c, n) /\ Asks(q, c, n) = F[Len(q)]
  BY <1>1, AsksTaken
<1>3. PICK G : Taken(G, p, c, n) /\ Asks(p, c, n) = G[Len(p)]
  BY <1>1, AsksTaken
<1>4. F[Len(q)] = G[Len(q)]
  BY <1>1, <1>2, <1>3, TakenAgree
<1>5. Len(p) \in 1 .. Len(p) /\ Len(p) - 1 = Len(q)
  BY <1>1
<1> QED
  BY <1>1, <1>2, <1>3, <1>4, <1>5 DEF Taken, p

LEMMA AsksType ==
  ASSUME NEW q \in Seq(Request), NEW c, NEW n,
         \A i \in DOMAIN q : q[i].fr.record_number \in RecordNumber
  PROVE  Asks(q, c, n) \in Seq(RecordNumber)
<1>1. Len(q) \in Nat /\ DOMAIN q = 1 .. Len(q)
  BY LenProperties
<1>2. PICK F : Taken(F, q, c, n) /\ Asks(q, c, n) = F[Len(q)]
  BY <1>1, AsksTaken
<1> DEFINE Good == {k \in Nat : k <= Len(q) => F[k] \in Seq(RecordNumber)}
<1>3. 0 \in Good
  BY <1>2, EmptySeq DEF Taken
<1>4. ASSUME NEW k \in Nat, k \in Good
      PROVE  k + 1 \in Good
  <2> SUFFICES ASSUME k + 1 <= Len(q)
               PROVE  F[k + 1] \in Seq(RecordNumber)
    OBVIOUS
  <2>1. k + 1 \in 1 .. Len(q) /\ (k + 1) - 1 = k
    BY <1>1
  <2>2. F[k] \in Seq(RecordNumber)
    BY <1>1, <1>4
  <2>3. q[k + 1].fr.record_number \in RecordNumber
    BY <1>1, <2>1
  <2>4. Append(F[k], q[k + 1].fr.record_number) \in Seq(RecordNumber)
    BY <2>2, <2>3, AppendProperties
  <2> QED
    BY <1>2, <2>1, <2>2, <2>4 DEF Taken
<1>5. Len(q) \in Good
  <2> HIDE DEF Good
  <2> QED
    BY <1>1, <1>3, <1>4, Induction
<1> QED
  BY <1>1, <1>2, <1>5

LEMMA AsksNothing ==
  ASSUME NEW q, Len(q) \in Nat, NEW c, NEW n,
         \A i \in 1 .. Len(q) : ~(q[i].from = c /\ q[i].session = n)
  PROVE  Asks(q, c, n) = << >>
<1>1. PICK F : Taken(F, q, c, n) /\ Asks(q, c, n) = F[Len(q)]
  BY AsksTaken
<1> DEFINE Good == {k \in Nat : k <= Len(q) => F[k] = << >>}
<1>2. 0 \in Good
  BY <1>1 DEF Taken
<1>3. ASSUME NEW k \in Nat, k \in Good
      PROVE  k + 1 \in Good
  <2> SUFFICES ASSUME k + 1 <= Len(q)
               PROVE  F[k + 1] = << >>
    OBVIOUS
  <2>1. k + 1 \in 1 .. Len(q) /\ (k + 1) - 1 = k
    OBVIOUS
  <2>2. F[k] = << >>
    BY <1>3
  <2> QED
    BY <1>1, <2>1, <2>2 DEF Taken
<1>4. Len(q) \in Good
  <2> HIDE DEF Good
  <2> QED
    BY <1>2, <1>3, Induction
<1> QED
  BY <1>1, <1>4

\* Taking the first request off a queue.
LEMMA AsksTail ==
  ASSUME NEW q \in Seq(Request), q # << >>, NEW c, NEW n,
         \A i \in DOMAIN q : q[i].fr.record_number \in RecordNumber
  PROVE  Asks(q, c, n) = IF Head(q).from = c /\ Head(q).session = n
                           THEN <<Head(q).fr.record_number>> \o Asks(Tail(q), c, n)
                           ELSE Asks(Tail(q), c, n)
<1> DEFINE t == Tail(q)
           first == IF Head(q).from = c /\ Head(q).session = n
                      THEN <<Head(q).fr.record_number>> ELSE << >>
<1>1. /\ Len(q) \in Nat /\ DOMAIN q = 1 .. Len(q) /\ t \in Seq(Request)
      /\ Len(t) \in Nat /\ Len(q) = Len(t) + 1
      /\ Head(q) = q[1]
      /\ \A i \in 1 .. Len(t) : t[i] = q[i + 1]
  BY HeadTailProperties
<1> HIDE DEF t
<1>2. PICK F : Taken(F, q, c, n) /\ Asks(q, c, n) = F[Len(q)]
  BY <1>1, AsksTaken
<1>3. PICK G : Taken(G, t, c, n) /\ Asks(t, c, n) = G[Len(t)]
  BY <1>1, AsksTaken
<1>4. first \in Seq(RecordNumber) /\ F[1] = first
  <2>1. 1 \in 1 .. Len(q) /\ 1 - 1 = 0
    BY <1>1
  <2>2. F[1] = IF q[1].from = c /\ q[1].session = n
                 THEN Append(<< >>, q[1].fr.record_number) ELSE << >>
    BY <1>2, <2>1 DEF Taken
  <2>3. q[1].fr.record_number \in RecordNumber
    BY <1>1, <2>1
  <2> QED
    BY <1>1, <2>2, <2>3
<1> HIDE DEF first
<1> DEFINE Good == {k \in Nat : k <= Len(t) => /\ G[k] \in Seq(RecordNumber)
                                               /\ F[k + 1] = first \o G[k]}
<1>5. 0 \in Good
  <2>1. G[0] = << >> /\ << >> \in Seq(RecordNumber) /\ first \o << >> = first
    BY <1>3, <1>4 DEF Taken
  <2>2. F[0 + 1] = first \o G[0]
    BY <1>4, <2>1
  <2> QED
    BY <2>1, <2>2
<1>6. ASSUME NEW k \in Nat, k \in Good
      PROVE  k + 1 \in Good
  <2> SUFFICES ASSUME k + 1 <= Len(t)
               PROVE  G[k + 1] \in Seq(RecordNumber) /\ F[(k + 1) + 1] = first \o G[k + 1]
    OBVIOUS
  <2> DEFINE r == t[k + 1]
  <2>1. G[k] \in Seq(RecordNumber) /\ F[k + 1] = first \o G[k]
    BY <1>1, <1>6
  <2>2. /\ k + 1 \in 1 .. Len(t) /\ (k + 1) - 1 = k
        /\ (k + 1) + 1 \in 1 .. Len(q) /\ ((k + 1) + 1) - 1 = k + 1
        /\ q[(k + 1) + 1] = r
    BY <1>1
  <2>3. r.fr.record_number \in RecordNumber
    BY <1>1, <2>2
  <2> HIDE DEF r
  <2>4. G[k + 1] = IF r.from = c /\ r.session = n
                     THEN Append(G[k], r.fr.record_number) ELSE G[k]
    BY <1>3, <2>2 DEF Taken, r
  <2>5. F[(k + 1) + 1] = IF r.from = c /\ r.session = n
                           THEN Append(F[k + 1], r.fr.record_number) ELSE F[k + 1]
    BY <1>2, <2>2 DEF Taken
  <2>6. first \o Append(G[k], r.fr.record_number) = Append(first \o G[k], r.fr.record_number)
    BY <1>4, <2>1, <2>3, SMTT(30)
  <2>7. Append(G[k], r.fr.record_number) \in Seq(RecordNumber)
    BY <2>1, <2>3, AppendProperties
  <2>8. CASE r.from = c /\ r.session = n
    BY <2>1, <2>4, <2>5, <2>6, <2>7, <2>8
  <2>9. CASE ~(r.from = c /\ r.session = n)
    BY <2>1, <2>4, <2>5, <2>9
  <2> QED
    BY <2>8, <2>9
<1>7. Len(t) \in Good
  <2> HIDE DEF Good
  <2> QED
    BY <1>1, <1>5, <1>6, Induction
<1>8. Asks(q, c, n) = first \o Asks(t, c, n) /\ Asks(t, c, n) \in Seq(RecordNumber)
  BY <1>1, <1>2, <1>3, <1>7
<1> QED
  BY <1>8 DEF first, t

\* What is in a queue after a step.
LEMMA AfterAppend ==
  ASSUME NEW U, NEW q \in Seq(U), NEW r \in U
  PROVE  /\ Append(q, r) \in Seq(U)
         /\ Append(q, r) # << >>
         /\ \A i \in DOMAIN Append(q, r) :
              (i \in DOMAIN q /\ Append(q, r)[i] = q[i]) \/ Append(q, r)[i] = r
<1>1. /\ Append(q, r) \in Seq(U)
      /\ Len(Append(q, r)) = Len(q) + 1
      /\ \A i \in 1 .. Len(q) : Append(q, r)[i] = q[i]
      /\ Append(q, r)[Len(q) + 1] = r
  BY AppendProperties
<1>2. /\ DOMAIN Append(q, r) = 1 .. Len(q) + 1 /\ DOMAIN q = 1 .. Len(q) /\ Len(q) \in Nat
  BY <1>1, LenProperties
<1>3. Append(q, r) # << >>
  BY <1>1, <1>2, EmptySeq
<1> QED
  BY <1>1, <1>2, <1>3

LEMMA AfterTail ==
  ASSUME NEW U, NEW q \in Seq(U), q # << >>
  PROVE  /\ Tail(q) \in Seq(U) /\ Head(q) \in U /\ 1 \in DOMAIN q /\ Head(q) = q[1]
         /\ \A i \in DOMAIN Tail(q) : i + 1 \in DOMAIN q /\ Tail(q)[i] = q[i + 1]
<1>1. Len(q) \in Nat /\ Len(q) # 0 /\ DOMAIN q = 1 .. Len(q)
  BY EmptySeq, LenProperties
<1>2. /\ Tail(q) \in Seq(U) /\ Head(q) \in U /\ Head(q) = q[1]
      /\ Len(Tail(q)) = Len(q) - 1
      /\ \A i \in 1 .. Len(Tail(q)) : Tail(q)[i] = q[i + 1]
  BY HeadTailProperties
<1>3. DOMAIN Tail(q) = 1 .. Len(Tail(q))
  BY <1>2, LenProperties
<1> QED
  BY <1>1, <1>2, <1>3

--------------------------------------------------------------------------------
(***************************************************************************)
(* What arrives.                                                           *)
(***************************************************************************)

LEMMA ReceivedType ==
  ASSUME NEW fr \in FileRecord,
         fr.record_number \in 0 .. MaxRecords, fr.num_records \in Nat, fr.filesize \in Nat
  PROVE  /\ Received(fr) \in FileRecord
         /\ Received(fr).record_number = fr.record_number
         /\ Received(fr).num_records = fr.num_records % (Byte * Byte)
         /\ Received(fr).filesize = fr.filesize % (Byte * Byte)
         /\ Received(fr).buf = fr.buf
<1>0. /\ MaxRecords \in Nat /\ Byte * Byte \in Nat /\ MaxRecords < Byte * Byte
      /\ NameBytes \in Nat /\ Garbage \in Cell
  BY SwarmAssumption, WireAssumption
<1>1. /\ fr.record_number \in Nat
      /\ fr.record_number < Byte * Byte
  BY <1>0
<1>2. /\ Received(fr).record_number = fr.record_number % (Byte * Byte)
      /\ Received(fr).num_records = fr.num_records % (Byte * Byte)
      /\ Received(fr).filesize = fr.filesize % (Byte * Byte)
      /\ Received(fr).buf = fr.buf
      /\ \A k \in 1 .. NameBytes : Received(fr).filename[k] = fr.filename[k]
                                   \/ Received(fr).filename[k] = Garbage
  BY <1>1, RecordSurvives
<1>3. ASSUME NEW v \in Nat
      PROVE  v % (Byte * Byte) \in Nat
  <2>1. Byte * Byte > 0
    BY <1>0
  <2>2. v % (Byte * Byte) \in 0 .. Byte * Byte - 1
    BY <1>0, <2>1, DivMod
  <2> QED
    BY <1>0, <2>2
<1>4. Received(fr).record_number = fr.record_number
  BY <1>1, <1>2, IntWraps
<1>5. Received(fr) = [record_number |-> Received(fr).record_number,
                      num_records   |-> Received(fr).num_records,
                      filesize      |-> Received(fr).filesize,
                      buf           |-> Received(fr).buf,
                      filename      |-> Received(fr).filename]
  BY DEF Received, deserialize_record
<1>6. Received(fr).filename = [k \in 1 .. NameBytes |-> Received(fr).filename[k]]
  BY DEF Received, deserialize_record
<1>7. \A k \in 1 .. NameBytes : Received(fr).filename[k] \in Cell
  BY <1>0, <1>2 DEF FileRecord
<1>8. Received(fr).filename \in [1 .. NameBytes -> Cell]
  BY <1>6, <1>7
<1>9. /\ Received(fr).record_number \in Int
      /\ Received(fr).num_records \in Int
      /\ Received(fr).filesize \in Int
  BY <1>1, <1>2, <1>3, <1>4
<1>10. Received(fr).buf \in [1 .. BufBytes -> Cell]
  BY <1>2 DEF FileRecord
<1>11. Received(fr) \in FileRecord
  BY <1>5, <1>8, <1>9, <1>10, Zenon DEF FileRecord
<1> QED
  BY <1>2, <1>4, <1>11

LEMMA RequestArrives ==
  ASSUME TypeOK, NEW c \in Clients, num_records_downloaded[c] \in RecordNumber
  PROVE  /\ Received(Asked(c)) \in FileRecord
         /\ Received(Asked(c)).record_number = num_records_downloaded[c]
<1>1. /\ MaxRecords \in Nat /\ 1 <= MaxRecords /\ Garbage \in Cell
  BY SwarmAssumption
<1>2. num_records_downloaded[c] \in 0 .. MaxRecords /\ num_records_downloaded[c] \in Int
  BY DEF TypeOK
<1>3. Asked(c) \in FileRecord
  BY <1>1, <1>2 DEF Asked, FileRecord
<1>4. /\ Asked(c).record_number = num_records_downloaded[c]
      /\ Asked(c).num_records \in Nat
      /\ Asked(c).filesize \in Nat
  BY <1>1 DEF Asked
<1> QED
  BY <1>2, <1>3, <1>4, ReceivedType

LEMMA RecordType ==
  ASSUME NEW p \in Clients, NEW c, NEW i \in Nat
  PROVE  T(c)!Record(p, i) \in Buf
<1>1. Content[p] \in Seq(Data)
  BY SwarmAssumption
<1>2. CASE i < Len(Content[p])
  <2>1. i + 1 \in 1 .. Len(Content[p])
    BY <1>1, <1>2
  <2>2. Content[p][i + 1] \in Data
    BY <1>1, <2>1, ElementOfSeq
  <2> QED
    BY <1>2, <2>2 DEF T!Record, Buf
<1>3. CASE ~(i < Len(Content[p]))
  BY <1>3 DEF T!Record, Buf
<1> QED
  BY <1>2, <1>3

\* An answer says how long the file is, as far as two bytes can, and carries the
\* record asked for.
LEMMA AnswerArrives ==
  ASSUME NEW p \in Clients, NEW fr \in FileRecord, fr.record_number \in RecordNumber
  PROVE  LET a == Received(Answer(p, fr))
         IN  /\ a \in FileRecord
             /\ a.num_records = T(p)!RecordCount(p) /\ a.filesize = T(p)!RecordCount(p)
             /\ T(p)!RecordCount(p) \in Nat
             /\ a.buf[1] = T(p)!Record(p, fr.record_number)
             /\ a.buf[1] \in Buf
<1> DEFINE rec == T(p)!Record(p, fr.record_number)
           ans == Answer(p, fr)
<1>1. /\ MaxRecords \in Nat /\ BufBytes \in Nat /\ 1 \in 1 .. BufBytes /\ Buf \subseteq Cell
  BY SwarmAssumption, WireAssumption DEF Buf
<1>2. Len(Content[p]) \in Nat
  BY SwarmAssumption, LenProperties
<1>3. rec \in Buf
  BY <1>1, RecordType DEF RecordNumber
<1> HIDE DEF rec
<1>4. ans = [fr EXCEPT !.num_records = Len(Content[p]), !.filesize = Len(Content[p]),
                       !.buf = [k \in 1 .. BufBytes |-> rec]]
  BY DEF Answer, rec
<1> HIDE DEF ans
<1>5. [k \in 1 .. BufBytes |-> rec] \in [1 .. BufBytes -> Cell]
  BY <1>1, <1>3
<1>6. ans \in FileRecord
  <2> DEFINE n == Len(Content[p])
             b == [k \in 1 .. BufBytes |-> rec]
  <2>1. n \in Int /\ b \in [1 .. BufBytes -> Cell]
    BY <1>1, <1>2, <1>5
  <2> HIDE DEF n, b
  <2>2. [fr EXCEPT !.num_records = n, !.filesize = n, !.buf = b] \in FileRecord
    BY <2>1 DEF FileRecord
  <2> QED
    BY <1>4, <2>2 DEF n, b
<1>7. /\ ans.record_number = fr.record_number
      /\ ans.num_records = Len(Content[p]) /\ ans.filesize = Len(Content[p])
      /\ ans.buf[1] = rec
  BY <1>1, <1>4 DEF FileRecord
<1>8. fr.record_number \in 0 .. MaxRecords
  BY <1>1 DEF RecordNumber
<1>9. T(p)!RecordCount(p) = Len(Content[p]) % (Byte * Byte)
  BY DEF T!RecordCount
<1>10. T(p)!RecordCount(p) \in Nat
  <2>1. Byte * Byte \in Nat /\ Byte * Byte > 0
    BY WireAssumption
  <2>2. Len(Content[p]) % (Byte * Byte) \in 0 .. Byte * Byte - 1
    BY <1>2, <2>1, DivMod
  <2> QED
    BY <1>9, <2>1, <2>2
<1>11. /\ Received(ans) \in FileRecord
       /\ Received(ans).num_records = Len(Content[p]) % (Byte * Byte)
       /\ Received(ans).filesize = Len(Content[p]) % (Byte * Byte)
       /\ Received(ans).buf = ans.buf
  BY <1>2, <1>6, <1>7, <1>8, ReceivedType
<1> QED
  BY <1>3, <1>7, <1>9, <1>10, <1>11 DEF ans, rec

--------------------------------------------------------------------------------
(***************************************************************************)
(* Type correctness.                                                       *)
(***************************************************************************)

USE DEF InSession

\* What the first k records of file_buff make up is a sequence.
LEMMA WrittenType ==
  ASSUME TypeOK, NEW c \in Clients, num_records_downloaded[c] = num_records_file[c]
  PROVE  T(c)!Written \subseteq Seq(Buf)
<1>0. /\ MaxRecords \in Nat
      /\ file_buff[c] \in [RecordNumber -> Buf] /\ filesize[c] \in 0 .. MaxRecords \cup {Garbage}
  BY SwarmAssumption DEF TypeOK
<1> SUFFICES ASSUME NEW k \in 0 .. MaxRecords
             PROVE  [i \in 1 .. k |-> file_buff[c][i - 1]] \in Seq(Buf)
  BY <1>0 DEF T!Written
<1>1. \A i \in 1 .. k : i - 1 \in RecordNumber
  BY <1>0 DEF RecordNumber
<1>2. [i \in 1 .. k |-> file_buff[c][i - 1]] \in [1 .. k -> Buf]
  BY <1>0, <1>1
<1>3. k \in Nat
  BY <1>0
<1> QED
  BY <1>2, <1>3, SeqDef

LEMMA InitTypeOK == Init => TypeOK /\ RequestsSound /\ AnswersSound
<1> SUFFICES ASSUME Init
             PROVE  TypeOK /\ RequestsSound /\ AnswersSound
  OBVIOUS
<1>1. MaxRecords \in Nat /\ 0 < MaxRecords /\ MaxAttempts \in Nat /\ MaxLoss \in Nat /\ MaxSessions \in Nat
  BY SwarmAssumption
<1>2. << >> \in Seq(Request) /\ << >> \in Seq(FileRecord) /\ DOMAIN << >> = {}
  BY EmptySeq
<1>3. [i \in RecordNumber |-> Garbage] \in [RecordNumber -> Buf]
  BY DEF Buf
<1>4. \A c \in Clients : DOMAIN inbox[c] = {} /\ DOMAIN replies[c] = {} /\ replies[c] = << >>
  BY <1>2 DEF Init
<1>5. RequestsSound /\ AnswersSound
  BY <1>4 DEF RequestsSound, AnswersSound
<1>6. TypeOK
  BY <1>1, <1>2, <1>3, <1>4 DEF Init, TypeOK
<1> QED
  BY <1>5, <1>6

LEMMA RequestsStay ==
  ASSUME TypeOK, RequestsSound, UNCHANGED <<inbox, sessions, download_port>>,
         \A d \in Clients : InSession(d)' => InSession(d)
  PROVE  RequestsSound'
<1> SUFFICES ASSUME NEW q \in Clients, NEW i \in DOMAIN inbox[q]
             PROVE  LET r == inbox[q][i]
                    IN  /\ r.session <= sessions[r.from]
                        /\ (pc'[r.from] \in {"loop", "recv"} /\ r.session = sessions[r.from])
                              => download_port[r.from] = q
  BY DEF RequestsSound, IsOpen
<1>1. inbox[q][i] \in Request
  BY LenProperties, ElementOfSeq DEF TypeOK
<1>2. inbox[q][i].from \in Clients
  BY <1>1 DEF Request
<1> QED
  BY <1>2 DEF RequestsSound, IsOpen

\* A client that goes into an update or back to select has no session before
\* and none after.
LEMMA UpdateTypeOK ==
  ASSUME TypeOK, RequestsSound, AnswersSound, NEW c \in Clients,
         BeginUpdate(c) \/ EndUpdate(c)
  PROVE  /\ TypeOK' /\ RequestsSound' /\ AnswersSound'
         /\ \A d \in Clients : InSession(d)' = InSession(d) /\ (InSession(d) => pc'[d] = pc[d])
<1>1. /\ UNCHANGED <<sessions, transfer, inbox, replies>>
      /\ \E v \in {"select", "update"} : pc' = [pc EXCEPT ![c] = v]
      /\ pc[c] \in {"select", "update"}
  BY DEF BeginUpdate, EndUpdate
<1>2. /\ pc' \in [Clients -> {"select", "update", "loop", "recv"}]
      /\ \A d \in Clients : InSession(d)' = InSession(d) /\ (InSession(d) => pc'[d] = pc[d])
      /\ \A d \in Clients : pc'[d] = "recv" => pc[d] = "recv"
  BY <1>1 DEF TypeOK, InSession
<1>3. RequestsSound'
  BY <1>1, <1>2, RequestsStay DEF transfer
<1>4. AnswersSound'
  BY <1>1, <1>2 DEF AnswersSound
<1>5. overlapped' \in [Clients -> BOOLEAN]
  BY DEF BeginUpdate, EndUpdate, TypeOK
<1>6. TypeOK'
  BY <1>1, <1>2, <1>5 DEF TypeOK, transfer
<1> QED
  BY <1>2, <1>3, <1>4, <1>6

LEMMA BeginSessionTypeOK ==
  ASSUME TypeOK, RequestsSound, AnswersSound,
         NEW c \in Clients, NEW p \in Neighbors[c], BeginSession(c, p)
  PROVE  TypeOK' /\ RequestsSound' /\ AnswersSound'
<1>1. MaxRecords \in Nat /\ MaxSessions \in Nat /\ MaxAttempts \in Nat /\ p \in Clients
  BY SwarmAssumption
<1>2. UNCHANGED <<inbox, replies, num_records_downloaded, num_records_file, saved, losses>>
  BY DEF BeginSession
<1>3. TypeOK'
  <2>1. /\ pc' \in [Clients -> {"select", "update", "loop", "recv"}]
        /\ \A d \in Clients : pc'[d] = "recv" => pc[d] = "recv"
    BY DEF BeginSession, TypeOK
  <2>2. /\ sessions' \in [Clients -> 0 .. MaxSessions]
        /\ \A d \in Clients : InSession(d)' => sessions'[d] > 0
    <3>1. /\ sessions' = [sessions EXCEPT ![c] = @ + 1] /\ pc' = [pc EXCEPT ![c] = "loop"]
          /\ sessions[c] < MaxSessions
      BY DEF BeginSession
    <3>2. /\ sessions \in [Clients -> 0 .. MaxSessions] /\ pc \in [Clients -> {"select", "update", "loop", "recv"}]
          /\ \A d \in Clients : InSession(d) => sessions[d] > 0
      BY DEF TypeOK
    <3>3. sessions[c] + 1 \in 0 .. MaxSessions /\ sessions[c] + 1 > 0
      BY <1>1, <3>1, <3>2
    <3> QED
      BY <3>1, <3>2, <3>3
  <2>3. /\ current_records_downloaded' \in [Clients -> 0 .. MaxAttempts]
        /\ download_port' \in [Clients -> Clients]
        /\ filesize' \in [Clients -> Nat \cup {Garbage}]
        /\ \A d \in Clients : filesize'[d] \in {num_records_file[d], Garbage}
    BY <1>1, SMTT(30) DEF BeginSession, TypeOK
  <2>4. file_buff' \in [Clients -> [RecordNumber -> Buf]]
    BY DEF BeginSession, TypeOK, Buf
  <2>5. overlapped' \in [Clients -> BOOLEAN]
    BY DEF BeginSession, TypeOK
  <2> QED
    BY <1>2, <2>1, <2>2, <2>3, <2>4, <2>5 DEF TypeOK
<1>4. RequestsSound'
  <2> SUFFICES ASSUME NEW q \in Clients, NEW i \in DOMAIN inbox[q]
               PROVE  LET r == inbox[q][i]
                      IN  r.session <= sessions'[r.from]
                          /\ (IsOpen(r)' => download_port'[r.from] = q)
    BY <1>2 DEF RequestsSound
  <2> DEFINE r == inbox[q][i]
  <2>1. r \in Request /\ r.from \in Clients /\ r.session \in Int
    <3>1. inbox[q] \in Seq(Request)
      BY DEF TypeOK
    <3>2. r \in Request
      BY <3>1, LenProperties, ElementOfSeq
    <3> QED
      BY <3>2 DEF Request
  <2>2. r.session <= sessions[r.from] /\ (IsOpen(r) => download_port[r.from] = q)
    BY DEF RequestsSound
  <2> HIDE DEF r
  <2>3. CASE r.from = c
    <3>1. sessions'[c] = sessions[c] + 1 /\ sessions[c] \in Int
      BY <1>1 DEF BeginSession, TypeOK
    <3>2. r.session <= sessions'[c] /\ r.session # sessions'[c]
      BY <2>1, <2>2, <2>3, <3>1
    <3> QED
      BY <1>2, <2>3, <3>2 DEF IsOpen, r
  <2>4. CASE r.from # c
    <3>1. /\ sessions'[r.from] = sessions[r.from] /\ pc'[r.from] = pc[r.from]
          /\ download_port'[r.from] = download_port[r.from]
      BY <2>1, <2>4 DEF BeginSession, TypeOK
    <3> QED
      BY <1>2, <2>2, <3>1 DEF IsOpen, r
  <2> QED
    BY <2>3, <2>4
<1>5. AnswersSound'
  BY <1>2, SMTT(30) DEF AnswersSound, BeginSession, TypeOK
<1> QED
  BY <1>3, <1>4, <1>5

\* The request that c sends in a step.
NewRequest(c) == [from |-> c, session |-> sessions[c], fr |-> Received(Asked(c))]

LEMMA SendRequestSends ==
  ASSUME TypeOK, NEW c \in Clients, SendRequest(c)
  PROVE  /\ num_records_downloaded[c] \in RecordNumber
         /\ num_records_downloaded[c] < MaxRecords
         /\ current_records_downloaded[c] < MaxAttempts
         /\ NewRequest(c) \in Request
         /\ NewRequest(c).fr.record_number = num_records_downloaded[c]
         /\ NewRequest(c).from = c /\ NewRequest(c).session = sessions[c]
<1>0. MaxRecords \in Nat /\ MaxAttempts \in Nat /\ MaxSessions \in Nat
  BY SwarmAssumption
<1>1. /\ num_records_downloaded[c] < MaxRecords /\ num_records_downloaded[c] \in 0 .. MaxRecords
      /\ current_records_downloaded[c] < MaxAttempts
  BY DEF SendRequest, T!IsWanting, TypeOK
<1>2. num_records_downloaded[c] \in RecordNumber
  BY <1>0, <1>1 DEF RecordNumber
<1>3. /\ Received(Asked(c)) \in FileRecord
      /\ Received(Asked(c)).record_number = num_records_downloaded[c]
  BY <1>2, RequestArrives
<1>4. sessions[c] \in 0 .. MaxSessions /\ sessions[c] > 0
  BY DEF TypeOK, SendRequest
<1>5. sessions[c] \in 1 .. MaxSessions
  BY <1>0, <1>4
<1> QED
  BY <1>1, <1>2, <1>3, <1>5 DEF NewRequest, Request

LEMMA SendRequestQueue ==
  ASSUME TypeOK, NEW c \in Clients, SendRequest(c)
  PROVE  /\ inbox' \in [Clients -> Seq(Request)]
         /\ \A q \in Clients : \A i \in DOMAIN inbox'[q] :
              \/ i \in DOMAIN inbox[q] /\ inbox'[q][i] = inbox[q][i]
              \/ q = download_port[c] /\ inbox'[q][i] = NewRequest(c)
         /\ \A q \in Clients : inbox'[q] # inbox[q] =>
              /\ q = download_port[c] /\ q \in Listening
              /\ inbox'[q] = Append(inbox[q], NewRequest(c))
<1>1. /\ NewRequest(c) \in Request
  BY SendRequestSends
<1>2. download_port[c] \in Clients /\ inbox[download_port[c]] \in Seq(Request)
      /\ inbox \in [Clients -> Seq(Request)]
  BY DEF TypeOK
<1>3. CASE UNCHANGED inbox
  BY <1>2, <1>3
<1>4. CASE /\ download_port[c] \in Listening
           /\ inbox' = [inbox EXCEPT ![download_port[c]] = Append(@, NewRequest(c))]
  <2> DEFINE p == download_port[c]
             a == Append(inbox[p], NewRequest(c))
  <2>1. /\ a \in Seq(Request)
        /\ \A i \in DOMAIN a : (i \in DOMAIN inbox[p] /\ a[i] = inbox[p][i]) \/ a[i] = NewRequest(c)
    BY <1>1, <1>2, AfterAppend
  <2>2. inbox' = [inbox EXCEPT ![p] = a]
    BY <1>4
  <2> HIDE DEF a
  <2>3. inbox'[p] = a /\ \A q \in Clients \ {p} : inbox'[q] = inbox[q]
    BY <1>2, <2>2
  <2>4. inbox' \in [Clients -> Seq(Request)]
    BY <1>2, <2>1, <2>2
  <2> QED
    BY <1>4, <2>1, <2>3, <2>4 DEF a
<1> QED
  BY <1>3, <1>4 DEF SendRequest, NewRequest

LEMMA SendRequestTypeOK ==
  ASSUME TypeOK, RequestsSound, AnswersSound, NEW c \in Clients, SendRequest(c)
  PROVE  TypeOK' /\ RequestsSound' /\ AnswersSound'
<1>0. MaxRecords \in Nat /\ MaxAttempts \in Nat /\ MaxLoss \in Nat
  BY SwarmAssumption
<1>1. /\ UNCHANGED <<sessions, num_records_downloaded, num_records_file, download_port,
                     file_buff, filesize, replies, saved, overlapped>>
      /\ pc[c] = "loop" /\ pc' = [pc EXCEPT ![c] = "recv"]
  BY DEF SendRequest
<1>2. /\ num_records_downloaded[c] \in RecordNumber
      /\ num_records_downloaded[c] < MaxRecords
      /\ current_records_downloaded[c] < MaxAttempts
      /\ NewRequest(c).fr.record_number = num_records_downloaded[c]
      /\ NewRequest(c).from = c /\ NewRequest(c).session = sessions[c]
  BY SendRequestSends
<1>3. /\ inbox' \in [Clients -> Seq(Request)]
      /\ \A q \in Clients : \A i \in DOMAIN inbox'[q] :
           \/ i \in DOMAIN inbox[q] /\ inbox'[q][i] = inbox[q][i]
           \/ q = download_port[c] /\ inbox'[q][i] = NewRequest(c)
      /\ \A q \in Clients : inbox'[q] # inbox[q] => q \in Listening
  BY SendRequestQueue
<1>4. \A d \in Clients : (InSession(d)') = (InSession(d))
  BY <1>1 DEF TypeOK
<1>5. TypeOK'
  <2>1. pc' \in [Clients -> {"select", "update", "loop", "recv"}]
        /\ \A d \in Clients : pc'[d] = "recv" => d = c \/ pc[d] = "recv"
    BY <1>1 DEF TypeOK
  <2>2. \A d \in Clients : pc'[d] = "recv" => num_records_downloaded[d] < MaxRecords
    BY <1>2, <2>1 DEF TypeOK
  <2>3. current_records_downloaded' \in [Clients -> 0 .. MaxAttempts]
    <3>1. current_records_downloaded' = [current_records_downloaded EXCEPT ![c] = @ + 1]
      BY DEF SendRequest
    <3>2. /\ current_records_downloaded \in [Clients -> 0 .. MaxAttempts]
          /\ current_records_downloaded[c] + 1 \in 0 .. MaxAttempts
      BY <1>0, <1>2 DEF TypeOK
    <3> QED
      BY <3>1, <3>2
  <2>4. losses' \in [Clients -> 0 .. MaxLoss]
    <3>1. losses \in [Clients -> 0 .. MaxLoss]
      BY DEF TypeOK
    <3>2. \/ losses' = losses
          \/ losses' = [losses EXCEPT ![c] = @ + 1] /\ losses[c] + 1 \in 0 .. MaxLoss
      BY <1>0, <3>1 DEF SendRequest
    <3> QED
      BY <3>1, <3>2
  <2>5. \A q \in Clients : \A i \in DOMAIN inbox'[q] :
           inbox'[q][i].fr.record_number \in RecordNumber
    BY <1>2, <1>3, ZenonT(60) DEF TypeOK
  <2>6. \A q \in Clients \ Listening : inbox'[q] = << >>
    BY <1>3 DEF TypeOK
  <2> QED
    BY <1>1, <1>3, <2>1, <2>2, <2>3, <2>4, <2>5, <2>6 DEF TypeOK
<1>6. RequestsSound'
  <2> SUFFICES ASSUME NEW q \in Clients, NEW i \in DOMAIN inbox'[q]
               PROVE  LET r == inbox'[q][i]
                      IN  /\ r.session <= sessions[r.from]
                          /\ (pc'[r.from] \in {"loop", "recv"} /\ r.session = sessions[r.from])
                                => download_port[r.from] = q
    BY <1>1 DEF RequestsSound, IsOpen
  <2>1. CASE i \in DOMAIN inbox[q] /\ inbox'[q][i] = inbox[q][i]
    <3>1. inbox[q][i] \in Request
      BY <2>1, LenProperties, ElementOfSeq DEF TypeOK
    <3>2. inbox[q][i].from \in Clients
      BY <3>1 DEF Request
    <3> QED
      BY <1>4, <2>1, <3>2 DEF RequestsSound, IsOpen
  <2>2. CASE q = download_port[c] /\ inbox'[q][i] = NewRequest(c)
    BY <1>2, <2>2 DEF TypeOK
  <2> QED
    BY <1>3, <2>1, <2>2
<1>7. AnswersSound'
  BY <1>1, <1>4 DEF AnswersSound
<1> QED
  BY <1>5, <1>6, <1>7

LEMMA RecvReplyTypeOK ==
  ASSUME TypeOK, RequestsSound, AnswersSound, NEW c \in Clients, RecvReply(c)
  PROVE  TypeOK' /\ RequestsSound' /\ AnswersSound'
<1> DEFINE n == num_records_downloaded[c]
           r == Head(replies[c])
<1>0. MaxRecords \in Nat
  BY SwarmAssumption
<1>1. /\ UNCHANGED <<sessions, current_records_downloaded, download_port, inbox, saved,
                     losses, overlapped>>
      /\ pc[c] = "recv" /\ replies[c] # << >>
      /\ pc' = [pc EXCEPT ![c] = "loop"]
      /\ replies' = [replies EXCEPT ![c] = Tail(@)]
      /\ num_records_file' = [num_records_file EXCEPT ![c] = r.num_records]
      /\ filesize' = [filesize EXCEPT ![c] = r.filesize]
      /\ file_buff' = [file_buff EXCEPT ![c][n] = r.buf[1]]
      /\ num_records_downloaded' = [num_records_downloaded EXCEPT ![c] = n + 1]
  BY DEF RecvReply
<1>2. /\ Tail(replies[c]) \in Seq(FileRecord) /\ 1 \in DOMAIN replies[c] /\ r = replies[c][1]
      /\ \A i \in DOMAIN Tail(replies[c]) :
           i + 1 \in DOMAIN replies[c] /\ Tail(replies[c])[i] = replies[c][i + 1]
  <2>1. replies[c] \in Seq(FileRecord)
    BY DEF TypeOK
  <2> QED
    BY <1>1, <2>1, AfterTail
<1>3. r.num_records \in Nat /\ r.filesize = r.num_records /\ r.buf[1] \in Buf
  BY <1>2 DEF AnswersSound
<1> HIDE DEF r
<1>4. n \in 0 .. MaxRecords /\ n < MaxRecords
  BY <1>1 DEF TypeOK
<1>5. /\ pc' \in [Clients -> {"select", "update", "loop", "recv"}]
      /\ \A d \in Clients : (InSession(d)') = (InSession(d))
      /\ \A d \in Clients : pc'[d] = "recv" => d # c /\ pc[d] = "recv"
  BY <1>1 DEF TypeOK
<1>6. RequestsSound'
  BY <1>1, <1>5, RequestsStay
<1>7. \A d \in Clients : replies'[d] = IF d = c THEN Tail(replies[c]) ELSE replies[d]
  BY <1>1 DEF TypeOK
<1>8. AnswersSound'
  <2> SUFFICES ASSUME NEW d \in Clients
               PROVE  /\ ~InSession(d)' => replies'[d] = << >>
                      /\ \A i \in DOMAIN replies'[d] :
                           /\ replies'[d][i].num_records \in Nat
                           /\ replies'[d][i].filesize = replies'[d][i].num_records
                           /\ replies'[d][i].buf[1] \in Buf
    BY DEF AnswersSound
  <2>1. CASE d = c
    BY <1>1, <1>2, <1>5, <1>7, <2>1 DEF AnswersSound
  <2>2. CASE d # c
    BY <1>5, <1>7, <2>2 DEF AnswersSound
  <2> QED
    BY <2>1, <2>2
<1>9. TypeOK'
  <2>1. /\ num_records_downloaded' \in [Clients -> 0 .. MaxRecords]
        /\ \A d \in Clients : pc'[d] = "recv" => num_records_downloaded'[d] < MaxRecords
    <3>1. n + 1 \in 0 .. MaxRecords
      BY <1>0, <1>4
    <3> QED
      BY <1>1, <1>5, <3>1 DEF TypeOK
  <2>2. /\ num_records_file' \in [Clients -> Nat]
        /\ filesize' \in [Clients -> Nat \cup {Garbage}]
        /\ \A d \in Clients : filesize'[d] \in {num_records_file'[d], Garbage}
    BY <1>1, <1>3 DEF TypeOK
  <2>3. file_buff' \in [Clients -> [RecordNumber -> Buf]]
    BY <1>1, <1>3 DEF TypeOK
  <2>4. replies' \in [Clients -> Seq(FileRecord)]
    BY <1>1, <1>2 DEF TypeOK
  <2> QED
    BY <1>1, <1>5, <2>1, <2>2, <2>3, <2>4 DEF TypeOK
<1> QED
  BY <1>6, <1>8, <1>9

LEMMA RecvTimeoutTypeOK ==
  ASSUME TypeOK, RequestsSound, AnswersSound, NEW c \in Clients, RecvTimeout(c)
  PROVE  TypeOK' /\ RequestsSound' /\ AnswersSound'
<1>1. /\ UNCHANGED <<sessions, transfer, inbox, replies, overlapped>>
      /\ pc[c] = "recv" /\ pc' = [pc EXCEPT ![c] = "loop"]
  BY DEF RecvTimeout
<1>2. /\ pc' \in [Clients -> {"select", "update", "loop", "recv"}]
      /\ \A d \in Clients : (InSession(d)') = (InSession(d))
      /\ \A d \in Clients : pc'[d] = "recv" => pc[d] = "recv"
  BY <1>1 DEF TypeOK
<1>3. RequestsSound'
  BY <1>1, <1>2, RequestsStay DEF transfer
<1>4. AnswersSound'
  BY <1>1, <1>2 DEF AnswersSound
<1>5. TypeOK'
  BY <1>1, <1>2 DEF TypeOK, transfer
<1> QED
  BY <1>3, <1>4, <1>5

LEMMA EndSessionTypeOK ==
  ASSUME TypeOK, RequestsSound, AnswersSound, NEW c \in Clients, EndSession(c)
  PROVE  TypeOK' /\ RequestsSound' /\ AnswersSound'
<1>1. /\ UNCHANGED <<sessions, num_records_downloaded, num_records_file,
                     current_records_downloaded, download_port, file_buff, filesize, inbox,
                     losses, overlapped>>
      /\ pc[c] = "loop" /\ pc' = [pc EXCEPT ![c] = "select"]
      /\ replies' = [replies EXCEPT ![c] = << >>]
  BY DEF EndSession
<1>2. /\ pc' \in [Clients -> {"select", "update", "loop", "recv"}]
      /\ \A d \in Clients : InSession(d)' => InSession(d)
      /\ \A d \in Clients : d # c => pc'[d] = pc[d]
  BY <1>1 DEF TypeOK
<1>3. RequestsSound'
  BY <1>1, <1>2, RequestsStay
<1>4. AnswersSound'
  <2>1. \A d \in Clients : replies'[d] = IF d = c THEN << >> ELSE replies[d]
    BY <1>1 DEF TypeOK
  <2>2. DOMAIN << >> = {}
    OBVIOUS
  <2> QED
    BY <1>2, <2>1, <2>2 DEF AnswersSound
<1>5. saved' \in [Clients -> Seq(Buf) \cup {NotSaved}]
  <2>1. saved \in [Clients -> Seq(Buf) \cup {NotSaved}]
    BY DEF TypeOK
  <2>2. \/ saved' = saved
        \/ /\ num_records_downloaded[c] = num_records_file[c]
           /\ \E file \in T(c)!Written : saved' = [saved EXCEPT ![c] = file]
    BY DEF EndSession
  <2>3. num_records_downloaded[c] = num_records_file[c] => T(c)!Written \subseteq Seq(Buf)
    BY WrittenType
  <2> QED
    BY <2>1, <2>2, <2>3
<1>6. replies' \in [Clients -> Seq(FileRecord)]
  BY <1>1, EmptySeq DEF TypeOK
<1>7. TypeOK'
  <2>1. \A d \in Clients : pc'[d] = "recv" => pc[d] = "recv"
    BY <1>1 DEF TypeOK
  <2> QED
    BY <1>1, <1>2, <1>5, <1>6, <2>1 DEF TypeOK
<1> QED
  BY <1>3, <1>4, <1>7

\* The answer that p gives to the first request in its queue.
NewReply(p) == Received(Answer(p, Head(inbox[p]).fr))

LEMMA ServeAnswers ==
  ASSUME TypeOK, RequestsSound, NEW p \in Clients, Serve(p)
  PROVE  LET r == Head(inbox[p])
         IN  /\ r \in Request /\ r.from \in Clients /\ r.session \in Int
             /\ r.fr \in FileRecord /\ r.fr.record_number \in RecordNumber
             /\ Tail(inbox[p]) \in Seq(Request)
             /\ \A i \in DOMAIN Tail(inbox[p]) :
                  i + 1 \in DOMAIN inbox[p] /\ Tail(inbox[p])[i] = inbox[p][i + 1]
             /\ r.session <= sessions[r.from]
             /\ IsOpen(r) => download_port[r.from] = p
             /\ NewReply(p) \in FileRecord
             /\ NewReply(p).num_records = T(p)!RecordCount(p)
             /\ NewReply(p).filesize = T(p)!RecordCount(p)
             /\ T(p)!RecordCount(p) \in Nat
             /\ NewReply(p).buf[1] = T(p)!Record(p, r.fr.record_number)
             /\ NewReply(p).buf[1] \in Buf
<1> DEFINE r == Head(inbox[p])
<1>1. inbox[p] \in Seq(Request) /\ inbox[p] # << >>
  BY DEF Serve, TypeOK
<1>2. /\ r \in Request /\ 1 \in DOMAIN inbox[p] /\ r = inbox[p][1]
      /\ Tail(inbox[p]) \in Seq(Request)
      /\ \A i \in DOMAIN Tail(inbox[p]) :
           i + 1 \in DOMAIN inbox[p] /\ Tail(inbox[p])[i] = inbox[p][i + 1]
  BY <1>1, AfterTail
<1>3. r.session <= sessions[r.from] /\ (IsOpen(r) => download_port[r.from] = p)
  BY <1>2 DEF RequestsSound
<1>4. r.fr.record_number \in RecordNumber
  BY <1>2 DEF TypeOK
<1>5. r.from \in Clients /\ r.session \in Int /\ r.fr \in FileRecord
  BY <1>2, SwarmAssumption DEF Request
<1> HIDE DEF r
<1>6. LET a == Received(Answer(p, r.fr))
      IN  /\ a \in FileRecord
          /\ a.num_records = T(p)!RecordCount(p) /\ a.filesize = T(p)!RecordCount(p)
          /\ T(p)!RecordCount(p) \in Nat
          /\ a.buf[1] = T(p)!Record(p, r.fr.record_number)
          /\ a.buf[1] \in Buf
  BY <1>4, <1>5, AnswerArrives
<1> QED
  BY <1>2, <1>3, <1>4, <1>5, <1>6 DEF NewReply, r

\* What an answer adds.
LEMMA ServeReplies ==
  ASSUME TypeOK, RequestsSound, AnswersSound, NEW p \in Clients, Serve(p)
  PROVE  LET r == Head(inbox[p])
         IN  \A d \in Clients :
               IF d = r.from /\ IsOpen(r)
                 THEN replies'[d] = Append(replies[d], NewReply(p))
                 ELSE replies'[d] = replies[d]
<1> DEFINE r == Head(inbox[p])
<1>1. r.from \in Clients
  BY ServeAnswers
<1>2. replies' = IF IsOpen(r) THEN [replies EXCEPT ![r.from] = Append(@, NewReply(p))]
                              ELSE replies
  BY DEF Serve, Delivered, NewReply
<1>3. replies \in [Clients -> Seq(FileRecord)]
  BY DEF TypeOK
<1> HIDE DEF r
<1> QED
  BY <1>1, <1>2, <1>3 DEF r

LEMMA ServeTypeOK ==
  ASSUME TypeOK, RequestsSound, AnswersSound, NEW p \in Clients, Serve(p)
  PROVE  TypeOK' /\ RequestsSound' /\ AnswersSound'
<1> DEFINE r == Head(inbox[p])
<1>1. /\ UNCHANGED <<pc, sessions, transfer, overlapped>>
      /\ pc[p] = "select" /\ inbox[p] # << >>
      /\ inbox' = [inbox EXCEPT ![p] = Tail(@)]
      /\ inbox \in [Clients -> Seq(Request)]
      /\ replies \in [Clients -> Seq(FileRecord)]
  BY DEF Serve, TypeOK
<1>2. /\ r.from \in Clients
      /\ Tail(inbox[p]) \in Seq(Request)
      /\ \A i \in DOMAIN Tail(inbox[p]) :
           i + 1 \in DOMAIN inbox[p] /\ Tail(inbox[p])[i] = inbox[p][i + 1]
      /\ NewReply(p) \in FileRecord
      /\ NewReply(p).num_records = T(p)!RecordCount(p)
      /\ NewReply(p).filesize = T(p)!RecordCount(p)
      /\ T(p)!RecordCount(p) \in Nat
      /\ NewReply(p).buf[1] \in Buf
  BY ServeAnswers
<1>3. \A d \in Clients :
        IF d = r.from /\ IsOpen(r) THEN replies'[d] = Append(replies[d], NewReply(p))
                                   ELSE replies'[d] = replies[d]
  BY ServeReplies
<1>4. replies' = IF IsOpen(r) THEN [replies EXCEPT ![r.from] = Append(@, NewReply(p))]
                              ELSE replies
  BY DEF Serve, Delivered, NewReply
<1> HIDE DEF r
<1>5. \A q \in Clients : inbox'[q] = IF q = p THEN Tail(inbox[p]) ELSE inbox[q]
  BY <1>1
<1>6. \A q \in Clients : \A i \in DOMAIN inbox'[q] :
        \E j \in DOMAIN inbox[q] : inbox'[q][i] = inbox[q][j]
  BY <1>2, <1>5
<1>7. \A d \in Clients : \A i \in DOMAIN replies'[d] :
           \/ i \in DOMAIN replies[d] /\ replies'[d][i] = replies[d][i]
           \/ replies'[d][i] = NewReply(p)
  <2>1. ASSUME NEW d \in Clients
        PROVE  \A i \in DOMAIN Append(replies[d], NewReply(p)) :
                 \/ i \in DOMAIN replies[d] /\ Append(replies[d], NewReply(p))[i] = replies[d][i]
                 \/ Append(replies[d], NewReply(p))[i] = NewReply(p)
    <3>1. replies[d] \in Seq(FileRecord)
      BY <1>1
    <3> QED
      BY <1>2, <3>1, AfterAppend
  <2> QED
    BY <1>3, <2>1
<1>8. TypeOK'
  <2>1. inbox' \in [Clients -> Seq(Request)]
    BY <1>1, <1>2
  <2>2. replies' \in [Clients -> Seq(FileRecord)]
    <3>1. CASE IsOpen(r)
      <4>1. Append(replies[r.from], NewReply(p)) \in Seq(FileRecord)
        BY <1>1, <1>2, AppendProperties
      <4> QED
        BY <1>1, <1>2, <1>4, <3>1, <4>1
    <3>2. CASE ~IsOpen(r)
      BY <1>1, <1>4, <3>2
    <3> QED
      BY <3>1, <3>2
  <2>3. \A q \in Clients : \A i \in DOMAIN inbox'[q] :
          inbox'[q][i].fr.record_number \in RecordNumber
    BY <1>6 DEF TypeOK
  <2>4. \A q \in Clients \ Listening : inbox'[q] = << >>
    BY <1>1, <1>5 DEF TypeOK
  <2> QED
    BY <1>1, <2>1, <2>2, <2>3, <2>4 DEF TypeOK, transfer
<1>9. RequestsSound'
  <2> SUFFICES ASSUME NEW q \in Clients, NEW i \in DOMAIN inbox'[q]
               PROVE  LET s == inbox'[q][i]
                      IN  /\ s.session <= sessions[s.from]
                          /\ (InSession(s.from) /\ s.session = sessions[s.from])
                                => download_port[s.from] = q
    BY <1>1 DEF RequestsSound, IsOpen, transfer
  <2> QED
    BY <1>6 DEF RequestsSound, IsOpen
<1>10. AnswersSound'
  <2>1. ASSUME NEW d \in Clients, ~InSession(d)'
        PROVE  replies'[d] = << >>
    BY <1>1, <1>3, <2>1 DEF AnswersSound, IsOpen
  <2>2. ASSUME NEW d \in Clients, NEW i \in DOMAIN replies'[d]
        PROVE  /\ replies'[d][i].num_records \in Nat
               /\ replies'[d][i].filesize = replies'[d][i].num_records
               /\ replies'[d][i].buf[1] \in Buf
    BY <1>2, <1>7 DEF AnswersSound
  <2> QED
    BY <2>1, <2>2 DEF AnswersSound
<1> QED
  BY <1>8, <1>9, <1>10

LEMMA NextTypeOK ==
  TypeOK /\ RequestsSound /\ AnswersSound /\ [Next]_vars
    => (TypeOK /\ RequestsSound /\ AnswersSound)'
<1> SUFFICES ASSUME TypeOK, RequestsSound, AnswersSound, [Next]_vars
             PROVE  TypeOK' /\ RequestsSound' /\ AnswersSound'
  OBVIOUS
<1>1. CASE UNCHANGED vars
  <2>1. UNCHANGED <<pc, sessions, transfer, inbox, replies, overlapped>>
    BY <1>1 DEF vars
  <2>2. TypeOK'
    BY <2>1 DEF transfer, TypeOK
  <2>3. RequestsSound'
    BY <2>1, RequestsStay DEF transfer
  <2>4. AnswersSound'
    BY <2>1 DEF AnswersSound
  <2> QED
    BY <2>2, <2>3, <2>4
<1>2. CASE \/ \E c \in Listening : BeginUpdate(c)
           \/ \E c \in Clients : EndUpdate(c)
  BY <1>2, UpdateTypeOK, SwarmAssumption
<1>3. CASE \E c \in Clients : \E p \in Neighbors[c] : BeginSession(c, p)
  BY <1>3, BeginSessionTypeOK
<1>4. CASE \/ \E c \in Clients : SendRequest(c)
           \/ \E c \in Clients : RecvReply(c)
           \/ \E c \in Clients : RecvTimeout(c)
           \/ \E c \in Clients : EndSession(c)
           \/ \E p \in Clients : Serve(p)
  BY <1>4, SendRequestTypeOK, RecvReplyTypeOK, RecvTimeoutTypeOK, EndSessionTypeOK,
     ServeTypeOK
<1> QED
  BY <1>1, <1>2, <1>3, <1>4 DEF Next

\* Every variable of every client has its type, however long the files are:
\* record numbers stay within the buffers of both sides, what is written is as
\* long as what was counted, and a client without a task never gets a request.
THEOREM TypeCorrect == Spec => []TypeOK
<1> QED
  BY InitTypeOK, NextTypeOK, PTL DEF Spec

--------------------------------------------------------------------------------
(***************************************************************************)
(* Each client implements module Transfer.                                 *)
(***************************************************************************)

\* An answer as module Transfer keeps it.
Kept(a) == [num_records |-> a.num_records, buf |-> a.buf[1]]

LEMMA FunctionIsSeq ==
  ASSUME NEW U, NEW n \in Nat, NEW f \in [1 .. n -> U]
  PROVE  f \in Seq(U)
  BY SeqDef

LEMMA SameLength ==
  ASSUME NEW m \in Nat, NEW n \in Nat, 1 .. m = 1 .. n
  PROVE  m = n
<1>1. m \in 1 .. m \/ m = 0
  OBVIOUS
<1>2. n \in 1 .. n \/ n = 0
  OBVIOUS
<1>3. m \in 1 .. n \/ m = 0
  BY <1>1
<1>4. n \in 1 .. m \/ n = 0
  BY <1>2
<1> QED
  BY <1>1, <1>2, <1>3, <1>4

LEMMA AnswersType ==
  ASSUME NEW q \in Seq(FileRecord)
  PROVE  /\ Answers(q) \in Seq([num_records : Int, buf : Cell])
         /\ Len(Answers(q)) = Len(q)
         /\ DOMAIN Answers(q) = 1 .. Len(q)
         /\ \A i \in 1 .. Len(q) : Answers(q)[i] = Kept(q[i])
<1>1. 1 \in 1 .. BufBytes
  BY SwarmAssumption, WireAssumption
<1>2. Len(q) \in Nat /\ DOMAIN q = 1 .. Len(q)
  BY LenProperties
<1>3. \A i \in 1 .. Len(q) : Kept(q[i]) \in [num_records : Int, buf : Cell]
  <2> SUFFICES ASSUME NEW i \in 1 .. Len(q)
               PROVE  Kept(q[i]) \in [num_records : Int, buf : Cell]
    OBVIOUS
  <2>1. q[i] \in FileRecord
    BY ElementOfSeq
  <2> QED
    BY <1>1, <2>1 DEF FileRecord, Kept
<1>4. Answers(q) = [i \in 1 .. Len(q) |-> Kept(q[i])]
  BY <1>2, Zenon DEF Answers, Kept
<1>5. Answers(q) \in [1 .. Len(q) -> [num_records : Int, buf : Cell]]
  <2> DEFINE R == [num_records : Int, buf : Cell]
             D == 1 .. Len(q)
  <2>1. \A i \in D : Kept(q[i]) \in R
    BY <1>3
  <2> HIDE DEF R, D
  <2>2. [i \in D |-> Kept(q[i])] \in [D -> R]
    BY <2>1
  <2>3. Answers(q) = [i \in D |-> Kept(q[i])]
    BY <1>4, Zenon DEF D
  <2>4. Answers(q) \in [D -> R]
    BY <2>2, <2>3
  <2> QED
    BY <2>4 DEF D, R
<1>6. Answers(q) \in Seq([num_records : Int, buf : Cell])
  <2> DEFINE R == [num_records : Int, buf : Cell]
  <2>1. Answers(q) \in [1 .. Len(q) -> R]
    BY <1>5
  <2> HIDE DEF R
  <2>2. Answers(q) \in Seq(R)
    BY <1>2, <2>1, FunctionIsSeq, SMTT(30)
  <2> QED
    BY <2>2 DEF R
<1>7. Len(Answers(q)) = Len(q)
  <2>1. DOMAIN Answers(q) = 1 .. Len(Answers(q)) /\ Len(Answers(q)) \in Nat
    BY <1>6, LenProperties
  <2>2. DOMAIN Answers(q) = 1 .. Len(q)
    BY <1>4, Zenon
  <2> QED
    BY <1>2, <2>1, <2>2, SameLength
<1> QED
  BY <1>4, <1>6, <1>7

LEMMA AnswersEmpty == Answers(<< >>) = << >>
<1>1. << >> \in Seq(FileRecord) /\ Len(<< >>) = 0
  BY EmptySeq
<1>2. Answers(<< >>) \in Seq([num_records : Int, buf : Cell]) /\ Len(Answers(<< >>)) = 0
  BY <1>1, AnswersType
<1> QED
  BY <1>2, EmptySeq

LEMMA AnswersAppend ==
  ASSUME NEW q \in Seq(FileRecord), NEW a \in FileRecord
  PROVE  Answers(Append(q, a)) = Append(Answers(q), Kept(a))
<1> DEFINE R == [num_records : Int, buf : Cell]
           b == Append(q, a)
           s == Append(Answers(q), Kept(a))
<1>1. /\ b \in Seq(FileRecord) /\ Len(b) = Len(q) + 1 /\ Len(q) \in Nat
      /\ \A i \in 1 .. Len(q) : b[i] = q[i]
      /\ b[Len(q) + 1] = a
  BY AppendProperties, LenProperties
<1>2. Kept(a) \in R
  <2>1. 1 \in 1 .. BufBytes
    BY SwarmAssumption, WireAssumption
  <2> QED
    BY <2>1 DEF FileRecord, Kept
<1>3. /\ Answers(q) \in Seq(R) /\ Len(Answers(q)) = Len(q)
      /\ \A i \in 1 .. Len(q) : Answers(q)[i] = Kept(q[i])
  BY AnswersType
<1> HIDE DEF b
<1>4. /\ Answers(b) \in Seq(R) /\ Len(Answers(b)) = Len(b)
      /\ \A i \in 1 .. Len(b) : Answers(b)[i] = Kept(b[i])
  BY <1>1, AnswersType
<1>5. /\ s \in Seq(R) /\ Len(s) = Len(q) + 1
      /\ \A i \in 1 .. Len(q) : s[i] = Answers(q)[i]
      /\ s[Len(q) + 1] = Kept(a)
  BY <1>2, <1>3, AppendProperties
<1> HIDE DEF s
<1>6. ASSUME NEW i \in 1 .. Len(q) + 1
      PROVE  Answers(b)[i] = s[i]
  <2>1. CASE i = Len(q) + 1
    BY <1>1, <1>4, <1>5, <2>1
  <2>2. CASE i \in 1 .. Len(q)
    BY <1>1, <1>3, <1>4, <1>5, <2>2
  <2> QED
    BY <1>1, <2>1, <2>2
<1>7. Answers(b) = s
  <2>1. Len(Answers(b)) = Len(s) /\ \A i \in 1 .. Len(Answers(b)) : Answers(b)[i] = s[i]
    BY <1>1, <1>4, <1>5, <1>6
  <2> HIDE DEF R
  <2> QED
    BY <1>4, <1>5, <2>1, SeqEqual
<1> QED
  BY <1>7 DEF b, s

LEMMA AnswersTail ==
  ASSUME NEW q \in Seq(FileRecord), q # << >>
  PROVE  /\ Answers(q) # << >>
         /\ Head(Answers(q)) = Kept(Head(q))
         /\ Tail(Answers(q)) = Answers(Tail(q))
<1> DEFINE R == [num_records : Int, buf : Cell]
           t == Tail(q)
           s == Tail(Answers(q))
<1>1. /\ t \in Seq(FileRecord) /\ Len(t) = Len(q) - 1 /\ Len(q) \in Nat /\ Len(q) # 0
      /\ Head(q) = q[1]
      /\ \A i \in 1 .. Len(t) : t[i] = q[i + 1]
  BY HeadTailProperties, LenProperties, EmptySeq
<1>2. /\ Answers(q) \in Seq(R) /\ Len(Answers(q)) = Len(q)
      /\ \A i \in 1 .. Len(q) : Answers(q)[i] = Kept(q[i])
  BY AnswersType
<1>3. Answers(q) # << >>
  BY <1>1, <1>2, EmptySeq
<1> HIDE DEF t
<1>4. /\ Answers(t) \in Seq(R) /\ Len(Answers(t)) = Len(t)
      /\ \A i \in 1 .. Len(t) : Answers(t)[i] = Kept(t[i])
  BY <1>1, AnswersType
<1>5. /\ s \in Seq(R) /\ Len(s) = Len(q) - 1
      /\ Head(Answers(q)) = Answers(q)[1]
      /\ \A i \in 1 .. Len(s) : s[i] = Answers(q)[i + 1]
  <2> HIDE DEF R
  <2> QED
    BY <1>2, <1>3, HeadTailProperties
<1> HIDE DEF s
<1>6. Head(Answers(q)) = Kept(Head(q))
  BY <1>1, <1>2, <1>5
<1>7. s = Answers(t)
  <2>1. Len(Answers(t)) = Len(s)
    BY <1>1, <1>4, <1>5
  <2>2. ASSUME NEW i \in 1 .. Len(s)
        PROVE  s[i] = Answers(t)[i]
    <3>1. i \in 1 .. Len(t) /\ i + 1 \in 1 .. Len(q)
      BY <1>1, <1>5
    <3>2. s[i] = Kept(q[i + 1]) /\ Answers(t)[i] = Kept(q[i + 1])
      BY <1>1, <1>2, <1>4, <1>5, <3>1
    <3> QED
      BY <3>2
  <2> HIDE DEF R
  <2> QED
    BY <1>4, <1>5, <2>1, <2>2, SeqEqual
<1> QED
  BY <1>3, <1>6, <1>7 DEF s, t

LEMMA SameQueue ==
  ASSUME NEW d \in Clients,
         InSession(d)' = InSession(d),
         InSession(d) =>
           /\ sessions'[d] = sessions[d] /\ download_port'[d] = download_port[d]
           /\ inbox'[download_port[d]] = inbox[download_port[d]]
  PROVE  Outstanding(d)' = Outstanding(d)
  BY DEF Outstanding

LEMMA Untouched ==
  ASSUME NEW d \in Clients,
         InSession(d)' = InSession(d), InSession(d) => pc'[d] = pc[d],
         num_records_downloaded'[d] = num_records_downloaded[d],
         num_records_file'[d] = num_records_file[d],
         current_records_downloaded'[d] = current_records_downloaded[d],
         download_port'[d] = download_port[d],
         file_buff'[d] = file_buff[d],
         filesize'[d] = filesize[d],
         Outstanding(d)' = Outstanding(d),
         replies'[d] = replies[d],
         saved'[d] = saved[d],
         losses'[d] = losses[d]
  PROVE  UNCHANGED T(d)!vars
  BY DEF T!vars, T!session

LEMMA BeginSessionTransfer ==
  ASSUME TypeOK, RequestsSound, AnswersSound, UpdateIsDue,
         NEW c \in Clients, NEW p \in Neighbors[c], BeginSession(c, p), NEW d \in Clients
  PROVE  IF d = c THEN T(d)!BeginSession(p) ELSE UNCHANGED T(d)!vars
<1>0. p \in Clients
  BY SwarmAssumption
<1>1. /\ pc[c] = "update" /\ num_records_downloaded[c] % InterestPeriod = 0
      /\ pc' = [pc EXCEPT ![c] = "loop"]
      /\ sessions' = [sessions EXCEPT ![c] = @ + 1]
      /\ current_records_downloaded' = [current_records_downloaded EXCEPT ![c] = 0]
      /\ download_port' = [download_port EXCEPT ![c] = p]
      /\ file_buff' = [file_buff EXCEPT ![c] = [i \in RecordNumber |-> Garbage]]
      /\ filesize' = [filesize EXCEPT ![c] = Garbage]
      /\ UNCHANGED <<num_records_downloaded, num_records_file, saved, losses, inbox, replies>>
  BY DEF BeginSession, UpdateIsDue
<1>2. CASE d # c
  <2>1. /\ pc'[d] = pc[d] /\ sessions'[d] = sessions[d] /\ download_port'[d] = download_port[d]
        /\ current_records_downloaded'[d] = current_records_downloaded[d]
        /\ file_buff'[d] = file_buff[d] /\ filesize'[d] = filesize[d]
    BY <1>1, <1>2 DEF TypeOK
  <2>2. Outstanding(d)' = Outstanding(d)
    BY <1>1, <2>1, SameQueue DEF InSession
  <2>3. UNCHANGED T(d)!vars
    BY <1>1, <2>1, <2>2, Untouched DEF InSession
  <2> QED
    BY <1>2, <2>3
<1>3. CASE d = c
  <2>1. /\ pc'[c] = "loop" /\ sessions'[c] = sessions[c] + 1 /\ download_port'[c] = p
        /\ current_records_downloaded'[c] = 0
        /\ file_buff'[c] = [i \in RecordNumber |-> Garbage] /\ filesize'[c] = Garbage
    BY <1>1 DEF TypeOK
  <2>2. Outstanding(c)' = << >>
    <3>1. Len(inbox[p]) \in Nat /\ inbox[p] \in Seq(Request) /\ DOMAIN inbox[p] = 1 .. Len(inbox[p])
      BY <1>0, LenProperties DEF TypeOK
    <3>2. ASSUME NEW i \in 1 .. Len(inbox[p])
          PROVE  ~(inbox[p][i].from = c /\ inbox[p][i].session = sessions[c] + 1)
      <4>1. inbox[p][i].session <= sessions[inbox[p][i].from]
        BY <1>0, <3>1 DEF RequestsSound
      <4>2. sessions[c] \in Int
        BY DEF TypeOK
      <4> QED
        BY <4>1, <4>2
    <3>3. Asks(inbox[p], c, sessions[c] + 1) = << >>
      BY <3>1, <3>2, AsksNothing
    <3> QED
      BY <1>1, <2>1, <3>3 DEF Outstanding, InSession
  <2>3. Answers(replies[c]) = << >> /\ replies'[c] = replies[c]
    BY <1>1, AnswersEmpty DEF AnswersSound, InSession
  <2>4. T(c)!BeginSession(p)
    BY <1>1, <2>1, <2>2, <2>3 DEF InSession, T!BeginSession, T!RecordNumber, RecordNumber
  <2> QED
    BY <1>3, <2>4
<1> QED
  BY <1>2, <1>3

LEMMA SendRequestTransfer ==
  ASSUME TypeOK, RequestsSound, AnswersSound,
         NEW c \in Clients, SendRequest(c), NEW d \in Clients
  PROVE  IF d = c THEN T(d)!SendRequest ELSE UNCHANGED T(d)!vars
<1> DEFINE p == download_port[c]
           A(e) == Asks(inbox[download_port[e]], e, sessions[e])
<1>1. /\ pc[c] = "loop" /\ pc' = [pc EXCEPT ![c] = "recv"] /\ T(c)!IsWanting
      /\ current_records_downloaded' = [current_records_downloaded EXCEPT ![c] = @ + 1]
      /\ UNCHANGED <<sessions, num_records_downloaded, num_records_file, download_port,
                     file_buff, filesize, replies, saved, overlapped>>
      /\ losses' = losses \/ (losses[c] < MaxLoss /\ losses' = [losses EXCEPT ![c] = @ + 1])
  BY DEF SendRequest
<1>2. /\ NewRequest(c) \in Request
      /\ NewRequest(c).fr.record_number = num_records_downloaded[c]
      /\ NewRequest(c).from = c /\ NewRequest(c).session = sessions[c]
  BY SendRequestSends
<1>3. \A q \in Clients : inbox'[q] # inbox[q] =>
        q = download_port[c] /\ inbox'[q] = Append(inbox[q], NewRequest(c))
  BY SendRequestQueue
<1>4. /\ inbox[download_port[d]] \in Seq(Request) /\ download_port[d] \in Clients
      /\ download_port[c] \in Clients /\ inbox[p] \in Seq(Request)
  BY DEF TypeOK
<1>5. CASE d # c
  <2>1. /\ pc'[d] = pc[d] /\ losses'[d] = losses[d]
        /\ current_records_downloaded'[d] = current_records_downloaded[d]
    BY <1>1, <1>5 DEF TypeOK
  <2>2. Asks(inbox'[download_port[d]], d, sessions[d]) = Asks(inbox[download_port[d]], d, sessions[d])
    <3>1. CASE inbox'[download_port[d]] = inbox[download_port[d]]
      BY <3>1
    <3>2. CASE inbox'[download_port[d]] = Append(inbox[download_port[d]], NewRequest(c))
      <4>1. NewRequest(c).from # d
        BY <1>2, <1>5
      <4> QED
        BY <1>2, <1>4, <3>2, <4>1, AsksAppend
    <3> QED
      BY <1>3, <1>4, <3>1, <3>2
  <2>3. Outstanding(d)' = Outstanding(d)
    BY <1>1, <2>1, <2>2 DEF InSession, Outstanding
  <2>4. UNCHANGED T(d)!vars
    BY <1>1, <2>1, <2>3, Untouched DEF InSession
  <2> QED
    BY <1>5, <2>4
<1>6. CASE d = c
  <2>1. /\ pc'[c] = "recv"
        /\ current_records_downloaded'[c] = current_records_downloaded[c] + 1
    BY <1>1 DEF TypeOK
  <2>2. /\ Outstanding(c) = Asks(inbox[p], c, sessions[c])
        /\ Outstanding(c)' = Asks(inbox'[p], c, sessions[c])
    BY <1>1, <2>1 DEF InSession, Outstanding
  <2>3. inbox'[p] = Append(inbox[p], NewRequest(c)) =>
          Outstanding(c)' = Append(Outstanding(c), num_records_downloaded[c])
    <3>1. Asks(Append(inbox[p], NewRequest(c)), c, sessions[c])
            = Append(Asks(inbox[p], c, sessions[c]), num_records_downloaded[c])
      BY <1>2, <1>4, AsksAppend
    <3> QED
      BY <2>2, <3>1
  <2>4. \/ /\ p \in Listening
           /\ Outstanding(c)' = Append(Outstanding(c), num_records_downloaded[c])
           /\ losses'[c] = losses[c]
        \/ /\ p \notin Listening
           /\ Outstanding(c)' = Outstanding(c) /\ losses'[c] = losses[c]
        \/ /\ losses[c] < MaxLoss /\ losses'[c] = losses[c] + 1
           /\ Outstanding(c)' = Outstanding(c)
    <3>1. inbox \in [Clients -> Seq(Request)] /\ losses \in [Clients -> 0 .. MaxLoss]
      BY DEF TypeOK
    <3>2. CASE /\ p \in Listening
               /\ inbox' = [inbox EXCEPT ![p] = Append(@, NewRequest(c))]
               /\ UNCHANGED losses
      <4>1. inbox'[p] = Append(inbox[p], NewRequest(c))
        BY <1>4, <3>1, <3>2
      <4> QED
        BY <2>3, <3>2, <4>1
    <3>3. CASE p \notin Listening /\ UNCHANGED <<inbox, losses>>
      BY <2>2, <3>3
    <3>4. CASE /\ losses[c] < MaxLoss
               /\ losses' = [losses EXCEPT ![c] = @ + 1]
               /\ UNCHANGED inbox
      BY <2>2, <3>1, <3>4
    <3> QED
      BY <3>2, <3>3, <3>4 DEF SendRequest, NewRequest
  <2>5. T(c)!SendRequest
    BY <1>1, <2>1, <2>4 DEF InSession, T!SendRequest, T!RequestedRecord
  <2> QED
    BY <1>6, <2>5
<1> QED
  BY <1>5, <1>6

LEMMA RecvReplyTransfer ==
  ASSUME TypeOK, RequestsSound, AnswersSound,
         NEW c \in Clients, RecvReply(c), NEW d \in Clients
  PROVE  IF d = c THEN T(d)!RecvReply ELSE UNCHANGED T(d)!vars
<1> DEFINE n == num_records_downloaded[c]
           r == Head(replies[c])
<1>1. /\ UNCHANGED <<sessions, current_records_downloaded, download_port, inbox, saved,
                     losses, overlapped>>
      /\ pc[c] = "recv" /\ replies[c] # << >>
      /\ pc' = [pc EXCEPT ![c] = "loop"]
      /\ replies' = [replies EXCEPT ![c] = Tail(@)]
      /\ num_records_file' = [num_records_file EXCEPT ![c] = r.num_records]
      /\ filesize' = [filesize EXCEPT ![c] = r.filesize]
      /\ file_buff' = [file_buff EXCEPT ![c][n] = r.buf[1]]
      /\ num_records_downloaded' = [num_records_downloaded EXCEPT ![c] = n + 1]
  BY DEF RecvReply
<1>2. Outstanding(d)' = Outstanding(d)
  <2>1. InSession(d)' = InSession(d)
    BY <1>1 DEF TypeOK, InSession
  <2> QED
    BY <1>1, <2>1, SameQueue DEF InSession
<1>3. CASE d # c
  <2>1. /\ pc'[d] = pc[d] /\ replies'[d] = replies[d]
        /\ num_records_file'[d] = num_records_file[d]
        /\ filesize'[d] = filesize[d] /\ file_buff'[d] = file_buff[d]
        /\ num_records_downloaded'[d] = num_records_downloaded[d]
    BY <1>1, <1>3 DEF TypeOK
  <2>2. UNCHANGED T(d)!vars
    BY <1>1, <1>2, <2>1, Untouched DEF InSession
  <2> QED
    BY <1>3, <2>2
<1>4. CASE d = c
  <2>1. /\ pc'[c] = "loop" /\ replies'[c] = Tail(replies[c])
        /\ num_records_file'[c] = r.num_records
        /\ filesize'[c] = r.filesize
        /\ file_buff'[c] = [file_buff[c] EXCEPT ![n] = r.buf[1]]
        /\ num_records_downloaded'[c] = n + 1
    BY <1>1 DEF TypeOK
  <2>2. replies[c] \in Seq(FileRecord)
    BY DEF TypeOK
  <2>3. r.filesize = r.num_records
    <3>1. 1 \in DOMAIN replies[c] /\ r = replies[c][1]
      BY <1>1, <2>2, AfterTail
    <3> QED
      BY <3>1 DEF AnswersSound
  <2>4. /\ Answers(replies[c]) # << >>
        /\ Head(Answers(replies[c])) = Kept(r)
        /\ Tail(Answers(replies[c])) = Answers(Tail(replies[c]))
    BY <1>1, <2>2, AnswersTail
  <2>5. Kept(r).num_records = r.num_records /\ Kept(r).buf = r.buf[1]
    BY DEF Kept
  <2> HIDE DEF r
  <2>6. T(c)!RecvReply
    BY <1>1, <1>2, <1>4, <2>1, <2>3, <2>4, <2>5 DEF InSession, T!RecvReply
  <2> QED
    BY <1>4, <2>6
<1> QED
  BY <1>3, <1>4

LEMMA RecvTimeoutTransfer ==
  ASSUME TypeOK, RequestsSound, AnswersSound,
         NEW c \in Clients, RecvTimeout(c), NEW d \in Clients
  PROVE  IF d = c THEN T(d)!RecvTimeout ELSE UNCHANGED T(d)!vars
<1>1. /\ UNCHANGED <<sessions, transfer, inbox, replies, overlapped>>
      /\ pc[c] = "recv" /\ replies[c] = << >> /\ pc' = [pc EXCEPT ![c] = "loop"]
  BY DEF RecvTimeout
<1>2. Outstanding(d)' = Outstanding(d)
  <2>1. InSession(d)' = InSession(d)
    BY <1>1 DEF TypeOK, InSession
  <2> QED
    BY <1>1, <2>1, SameQueue DEF InSession, transfer
<1>3. CASE d # c
  <2>1. pc'[d] = pc[d]
    BY <1>1, <1>3 DEF TypeOK
  <2>2. UNCHANGED T(d)!vars
    BY <1>1, <1>2, <2>1, Untouched DEF InSession, transfer
  <2> QED
    BY <1>3, <2>2
<1>4. CASE d = c
  <2>1. pc'[c] = "loop"
    BY <1>1 DEF TypeOK
  <2>2. Answers(replies[c]) = << >>
    BY <1>1, AnswersEmpty
  <2>3. T(c)!RecvTimeout
    BY <1>1, <1>2, <1>4, <2>1, <2>2 DEF InSession, T!RecvTimeout, T!session, transfer
  <2> QED
    BY <1>4, <2>3
<1> QED
  BY <1>3, <1>4

LEMMA EndSessionTransfer ==
  ASSUME TypeOK, RequestsSound, AnswersSound,
         NEW c \in Clients, EndSession(c), NEW d \in Clients
  PROVE  IF d = c THEN T(d)!EndSession ELSE UNCHANGED T(d)!vars
<1>1. /\ UNCHANGED <<sessions, num_records_downloaded, num_records_file,
                     current_records_downloaded, download_port, file_buff, filesize, inbox,
                     losses, overlapped>>
      /\ pc[c] = "loop" /\ pc' = [pc EXCEPT ![c] = "select"] /\ ~T(c)!IsWanting
      /\ replies' = [replies EXCEPT ![c] = << >>]
  BY DEF EndSession
<1>2. IF num_records_downloaded[c] = num_records_file[c]
        THEN \E file \in T(c)!Written : saved' = [saved EXCEPT ![c] = file]
        ELSE saved' = saved
  BY DEF EndSession
<1>3. CASE d # c
  <2>1. pc'[d] = pc[d] /\ replies'[d] = replies[d] /\ saved'[d] = saved[d]
    BY <1>1, <1>2, <1>3 DEF TypeOK
  <2>2. Outstanding(d)' = Outstanding(d)
    BY <1>1, <2>1, SameQueue DEF InSession
  <2>3. UNCHANGED T(d)!vars
    BY <1>1, <2>1, <2>2, Untouched DEF InSession
  <2> QED
    BY <1>3, <2>3
<1>4. CASE d = c
  <2>1. pc'[c] = "select" /\ replies'[c] = << >>
    BY <1>1 DEF TypeOK
  <2>2. IF num_records_downloaded[c] = num_records_file[c] THEN saved'[c] \in T(c)!Written
                                                          ELSE saved'[c] = saved[c]
    BY <1>2 DEF TypeOK
  <2>3. Outstanding(c)' = << >> /\ Answers(replies'[c]) = << >>
    BY <2>1, AnswersEmpty DEF InSession, Outstanding
  <2>4. T(c)!EndSession
    BY <1>1, <2>1, <2>2, <2>3 DEF InSession, T!EndSession, T!session
  <2> QED
    BY <1>4, <2>4
<1> QED
  BY <1>3, <1>4

LEMMA ServeTransfer ==
  ASSUME TypeOK, RequestsSound, AnswersSound,
         NEW p \in Clients, Serve(p), NEW d \in Clients
  PROVE  IF d = Head(inbox[p]).from /\ IsOpen(Head(inbox[p])) THEN T(d)!Serve
                                                              ELSE UNCHANGED T(d)!vars
<1> DEFINE r == Head(inbox[p])
           k == r.fr.record_number
           n == sessions[d]
           rest == Asks(Tail(inbox[p]), d, n)
<1>1. /\ UNCHANGED <<pc, sessions, transfer, overlapped>>
      /\ inbox[p] # << >>
      /\ inbox \in [Clients -> Seq(Request)]
      /\ inbox' = [inbox EXCEPT ![p] = Tail(@)]
      /\ replies[d] \in Seq(FileRecord) /\ download_port[d] \in Clients
  BY DEF Serve, TypeOK
<1>2. /\ r.from \in Clients /\ k \in RecordNumber
      /\ IsOpen(r) => download_port[r.from] = p
      /\ NewReply(p) \in FileRecord
      /\ NewReply(p).num_records = T(p)!RecordCount(p)
      /\ NewReply(p).buf[1] = T(p)!Record(p, k)
      /\ Tail(inbox[p]) \in Seq(Request)
      /\ \A i \in DOMAIN Tail(inbox[p]) :
           i + 1 \in DOMAIN inbox[p] /\ Tail(inbox[p])[i] = inbox[p][i + 1]
  BY ServeAnswers
<1>3. IF d = r.from /\ IsOpen(r) THEN replies'[d] = Append(replies[d], NewReply(p))
                                 ELSE replies'[d] = replies[d]
  BY ServeReplies
<1>4. \A q \in Clients : inbox'[q] = IF q = p THEN Tail(inbox[p]) ELSE inbox[q]
  BY <1>1
<1>5. Asks(inbox[p], d, n) = IF r.from = d /\ r.session = n THEN <<k>> \o rest ELSE rest
  <2>1. inbox[p] \in Seq(Request) /\ \A i \in DOMAIN inbox[p] :
                                        inbox[p][i].fr.record_number \in RecordNumber
    BY <1>1 DEF TypeOK
  <2> QED
    BY <1>1, <2>1, AsksTail
<1>6. rest \in Seq(RecordNumber)
  <2>1. \A i \in DOMAIN Tail(inbox[p]) : Tail(inbox[p])[i].fr.record_number \in RecordNumber
    BY <1>2 DEF TypeOK
  <2> QED
    BY <1>2, <2>1, AsksType
<1> HIDE DEF r, k, rest
<1>7. CASE d = r.from /\ IsOpen(r)
  <2>1. InSession(d) /\ r.session = n /\ download_port[d] = p
    BY <1>2, <1>7 DEF IsOpen
  <2>2. Outstanding(d) = <<k>> \o rest /\ Outstanding(d)' = rest
    BY <1>1, <1>4, <1>5, <1>7, <2>1 DEF InSession, Outstanding, transfer, rest
  <2>3. /\ <<k>> \o rest # << >> /\ Head(<<k>> \o rest) = k /\ Tail(<<k>> \o rest) = rest
    BY <1>2, <1>6
  <2>4. /\ replies'[d] = Append(replies[d], NewReply(p))
        /\ Answers(Append(replies[d], NewReply(p))) = Append(Answers(replies[d]), Kept(NewReply(p)))
    BY <1>1, <1>2, <1>3, <1>7, AnswersAppend
  <2>5. Kept(NewReply(p)) = [num_records |-> T(d)!RecordCount(p), buf |-> T(d)!Record(p, k)]
    BY <1>2 DEF Kept, T!Record, T!RecordCount
  <2>6. pc[d] \in {"loop", "recv"}
    BY <2>1 DEF InSession
  <2>7. T(d)!Serve
    BY <1>1, <2>1, <2>2, <2>3, <2>4, <2>5, <2>6 DEF InSession, T!Serve, T!session, transfer
  <2> QED
    BY <1>7, <2>7 DEF r
<1>8. CASE ~(d = r.from /\ IsOpen(r))
  <2>1. Outstanding(d)' = Outstanding(d)
    <3>1. CASE ~InSession(d) \/ download_port[d] # p
      BY <1>1, <1>4, <3>1, SameQueue DEF InSession, transfer
    <3>2. CASE InSession(d) /\ download_port[d] = p
      <4>1. ~(r.from = d /\ r.session = n)
        BY <1>8, <3>2 DEF IsOpen
      <4>2. Asks(inbox[p], d, n) = rest
        BY <1>5, <4>1
      <4> QED
        BY <1>1, <1>4, <3>2, <4>2 DEF InSession, Outstanding, transfer, rest
    <3> QED
      BY <3>1, <3>2
  <2>2. UNCHANGED T(d)!vars
    BY <1>1, <1>3, <1>8, <2>1, Untouched DEF InSession, transfer
  <2> QED
    BY <1>8, <2>2 DEF r
<1> QED
  BY <1>7, <1>8

LEMMA UpdateTransfer ==
  ASSUME TypeOK, RequestsSound, AnswersSound, NEW c \in Clients, NEW d \in Clients,
         BeginUpdate(c) \/ EndUpdate(c)
  PROVE  UNCHANGED T(d)!vars
<1>1. UNCHANGED <<sessions, transfer, inbox, replies>>
  BY DEF BeginUpdate, EndUpdate
<1>2. InSession(d)' = InSession(d) /\ (InSession(d) => pc'[d] = pc[d])
  BY UpdateTypeOK
<1>3. Outstanding(d)' = Outstanding(d)
  BY <1>1, <1>2, SameQueue DEF transfer
<1> QED
  BY <1>1, <1>2, <1>3, Untouched DEF transfer

\* The steps of a client as module Transfer sees them.
LEMMA StepOf ==
  ASSUME TypeOK, RequestsSound, AnswersSound, UpdateIsDue, [Next]_vars, NEW d \in Clients
  PROVE  \/ \E p \in Neighbors[d] : BeginSession(d, p) /\ T(d)!BeginSession(p)
         \/ SendRequest(d) /\ T(d)!SendRequest
         \/ RecvReply(d) /\ T(d)!RecvReply
         \/ RecvTimeout(d) /\ T(d)!RecvTimeout
         \/ EndSession(d) /\ T(d)!EndSession
         \/ T(d)!Serve
         \/ UNCHANGED T(d)!vars
<1>1. CASE UNCHANGED vars
  <2>1. Outstanding(d)' = Outstanding(d)
    BY <1>1, SameQueue DEF vars, transfer, InSession
  <2>2. UNCHANGED T(d)!vars
    BY <1>1, <2>1, Untouched DEF vars, transfer, InSession
  <2> QED
    BY <2>2
<1>2. ASSUME NEW c \in Clients, NEW p \in Neighbors[c], BeginSession(c, p)
      PROVE  (d = c /\ T(d)!BeginSession(p)) \/ UNCHANGED T(d)!vars
  BY <1>2, BeginSessionTransfer
<1>3. ASSUME NEW c \in Clients, SendRequest(c)
      PROVE  (d = c /\ T(d)!SendRequest) \/ UNCHANGED T(d)!vars
  BY <1>3, SendRequestTransfer
<1>4. ASSUME NEW c \in Clients, RecvReply(c)
      PROVE  (d = c /\ T(d)!RecvReply) \/ UNCHANGED T(d)!vars
  BY <1>4, RecvReplyTransfer
<1>5. ASSUME NEW c \in Clients, RecvTimeout(c)
      PROVE  (d = c /\ T(d)!RecvTimeout) \/ UNCHANGED T(d)!vars
  BY <1>5, RecvTimeoutTransfer
<1>6. ASSUME NEW c \in Clients, EndSession(c)
      PROVE  (d = c /\ T(d)!EndSession) \/ UNCHANGED T(d)!vars
  BY <1>6, EndSessionTransfer
<1>7. ASSUME NEW p \in Clients, Serve(p)
      PROVE  T(d)!Serve \/ UNCHANGED T(d)!vars
  BY <1>7, ServeTransfer
<1>8. ASSUME NEW c \in Clients, BeginUpdate(c) \/ EndUpdate(c)
      PROVE  UNCHANGED T(d)!vars
  BY <1>8, UpdateTransfer
<1> QED
  BY <1>1, <1>2, <1>3, <1>4, <1>5, <1>6, <1>7, <1>8, SwarmAssumption DEF Next

LEMMA NextTransfer ==
  TypeOK /\ RequestsSound /\ AnswersSound /\ UpdateIsDue /\ [Next]_vars
    => \A d \in Clients : [T(d)!Next]_(T(d)!vars)
<1> SUFFICES ASSUME TypeOK, RequestsSound, AnswersSound, UpdateIsDue, [Next]_vars,
                    NEW d \in Clients
             PROVE  [T(d)!Next]_(T(d)!vars)
  OBVIOUS
<1>1. Neighbors[d] \subseteq Clients
  BY SwarmAssumption
<1> QED
  BY <1>1, StepOf DEF T!Next

LEMMA NextUpdateIsDue ==
  ASSUME TypeOK, UpdateIsDue, [Next]_vars
  PROVE  UpdateIsDue'
<1>1. ASSUME NEW c \in Clients, BeginUpdate(c)
      PROVE  UpdateIsDue'
  BY <1>1 DEF BeginUpdate, transfer, UpdateIsDue, TypeOK
<1>2. ASSUME UNCHANGED num_records_downloaded,
             \A d \in Clients : pc'[d] = "update" => pc[d] = "update"
      PROVE  UpdateIsDue'
  BY <1>2 DEF UpdateIsDue
<1>3. ASSUME NEW c \in Clients, EndUpdate(c)
      PROVE  UpdateIsDue'
  BY <1>2, <1>3 DEF EndUpdate, transfer, TypeOK
<1>4. ASSUME NEW c \in Clients, NEW p \in Neighbors[c], BeginSession(c, p)
      PROVE  UpdateIsDue'
  BY <1>2, <1>4 DEF BeginSession, TypeOK
<1>5. ASSUME NEW c \in Clients, SendRequest(c) \/ RecvTimeout(c) \/ EndSession(c)
      PROVE  UpdateIsDue'
  BY <1>2, <1>5 DEF SendRequest, RecvTimeout, EndSession, transfer, TypeOK
<1>6. ASSUME NEW c \in Clients, RecvReply(c)
      PROVE  UpdateIsDue'
  <2>1. /\ pc' = [pc EXCEPT ![c] = "loop"]
        /\ num_records_downloaded' = [num_records_downloaded EXCEPT ![c] = num_records_downloaded[c] + 1]
    BY <1>6 DEF RecvReply
  <2>2. ASSUME NEW d \in Clients, pc'[d] = "update"
        PROVE  d # c /\ pc[d] = "update" /\ num_records_downloaded'[d] = num_records_downloaded[d]
    BY <2>1, <2>2 DEF TypeOK
  <2> QED
    BY <2>2 DEF UpdateIsDue
<1>7. ASSUME NEW p \in Clients, Serve(p)
      PROVE  UpdateIsDue'
  BY <1>2, <1>7 DEF Serve, transfer
<1>8. CASE UNCHANGED vars
  BY <1>2, <1>8 DEF vars, transfer
<1> QED
  BY <1>1, <1>3, <1>4, <1>5, <1>6, <1>7, <1>8, SwarmAssumption DEF Next

LEMMA InitTransfer ==
  ASSUME Init
  PROVE  \A c \in Clients : T(c)!Init
<1> SUFFICES ASSUME NEW c \in Clients
             PROVE  T(c)!Init
  OBVIOUS
<1>1. Outstanding(c) = << >>
  BY DEF Init, InSession, Outstanding
<1>2. Answers(replies[c]) = << >>
  BY AnswersEmpty DEF Init
<1> QED
  BY <1>1, <1>2 DEF Init, InSession, T!Init, T!RecordNumber, RecordNumber

\* However many clients download from each other and serve at once, with the
\* requests of all of them in the sockets they share, each client takes only
\* steps that module Transfer allows it with a peer that may be late: what is
\* proved there for late peers holds for every client here.
THEOREM EachIsATransfer == Spec => EachImplementsTransfer
<1>1. Init => /\ TypeOK /\ RequestsSound /\ AnswersSound /\ UpdateIsDue
              /\ \A c \in Clients : T(c)!Init
  BY InitTypeOK, InitTransfer DEF Init, UpdateIsDue
<1>2. /\ TypeOK /\ RequestsSound /\ AnswersSound /\ UpdateIsDue /\ [Next]_vars
        => (TypeOK /\ RequestsSound /\ AnswersSound /\ UpdateIsDue)'
      /\ TypeOK /\ RequestsSound /\ AnswersSound /\ UpdateIsDue /\ [Next]_vars
        => [\A c \in Clients : [T(c)!Next]_(T(c)!vars)]_vars
  BY NextTypeOK, NextUpdateIsDue, NextTransfer
<1> QED
  BY <1>1, <1>2, PTL DEF Spec, EachImplementsTransfer

--------------------------------------------------------------------------------
(***************************************************************************)
(* Sessions that meet no update and no session of their peer's.            *)
(***************************************************************************)

LEMMA NextPeerIsPrompt ==
  ASSUME TypeOK, PeerIsPrompt, [Next]_vars
  PROVE  PeerIsPrompt' /\ \A c \in Clients : overlapped[c] => overlapped'[c]
<1>1. ASSUME UNCHANGED <<download_port, overlapped>>,
             \A d \in Clients : InSession(d)' => InSession(d),
             \A d \in Clients : pc[d] = "select" => pc'[d] = "select"
      PROVE  PeerIsPrompt' /\ \A c \in Clients : overlapped[c] => overlapped'[c]
  BY <1>1 DEF PeerIsPrompt, TypeOK
<1>2. ASSUME NEW c \in Clients, BeginUpdate(c)
      PROVE  PeerIsPrompt' /\ \A d \in Clients : overlapped[d] => overlapped'[d]
  <2>1. /\ pc' = [pc EXCEPT ![c] = "update"] /\ pc[c] = "select"
        /\ UNCHANGED download_port
        /\ \A d \in Clients :
             overlapped'[d] = (\/ overlapped[d]
                               \/ pc[d] \in {"loop", "recv"} /\ download_port[d] = c)
    BY <1>2, Zenon DEF BeginUpdate, transfer
  <2>2. ASSUME NEW d \in Clients, InSession(d)'
        PROVE  /\ download_port'[d] \in Neighbors[d]
               /\ ~overlapped'[d] => pc'[download_port'[d]] = "select"
    <3>0. pc'[d] \in {"loop", "recv"} /\ pc'[c] = "update"
      BY <2>1, <2>2 DEF TypeOK
    <3>1. d # c /\ pc[d] \in {"loop", "recv"}
      BY <2>1, <3>0 DEF TypeOK
    <3>2. /\ download_port[d] \in Neighbors[d]
          /\ ~overlapped[d] => pc[download_port[d]] = "select"
      BY <3>1 DEF PeerIsPrompt
    <3>3. ~overlapped'[d] => ~overlapped[d] /\ download_port[d] # c
      BY <2>1, <3>1
    <3>4. download_port[d] # c => pc'[download_port[d]] = pc[download_port[d]]
      BY <2>1 DEF TypeOK
    <3> QED
      BY <2>1, <3>2, <3>3, <3>4
  <2> QED
    BY <2>1, <2>2 DEF PeerIsPrompt
<1>3. ASSUME NEW c \in Clients, NEW p \in Neighbors[c], BeginSession(c, p)
      PROVE  PeerIsPrompt' /\ \A d \in Clients : overlapped[d] => overlapped'[d]
  <2>1. /\ pc' = [pc EXCEPT ![c] = "loop"] /\ pc[c] = "update"
        /\ download_port' = [download_port EXCEPT ![c] = p]
        /\ overlapped' = [overlapped EXCEPT ![c] = @ \/ pc[p] # "select"]
    BY <1>3 DEF BeginSession
  <2>2. \A q \in Clients : pc[q] = "select" => pc'[q] = "select"
    BY <2>1 DEF TypeOK
  <2>3. p \in Clients
    BY SwarmAssumption
  <2>4. ASSUME NEW d \in Clients, InSession(d)'
        PROVE  /\ download_port'[d] \in Neighbors[d]
               /\ ~overlapped'[d] => pc'[download_port'[d]] = "select"
    <3>1. CASE d = c
      <4>1. download_port'[d] = p /\ (~overlapped'[d] => pc[p] = "select")
        BY <2>1, <3>1 DEF TypeOK
      <4> QED
        BY <2>2, <2>3, <3>1, <4>1
    <3>2. CASE d # c
      <4>1. download_port'[d] = download_port[d] /\ overlapped'[d] = overlapped[d] /\ InSession(d)
        BY <2>1, <2>4, <3>2 DEF InSession, TypeOK
      <4>2. download_port[d] \in Clients
        BY DEF TypeOK
      <4> QED
        BY <2>2, <4>1, <4>2 DEF PeerIsPrompt
    <3> QED
      BY <3>1, <3>2
  <2>5. \A d \in Clients : overlapped[d] => overlapped'[d]
    BY <2>1 DEF TypeOK
  <2> QED
    BY <2>4, <2>5 DEF PeerIsPrompt
<1>4. ASSUME NEW c \in Clients,
             EndUpdate(c) \/ SendRequest(c) \/ RecvReply(c) \/ RecvTimeout(c) \/ EndSession(c)
      PROVE  /\ UNCHANGED <<download_port, overlapped>>
             /\ \A d \in Clients : InSession(d)' => InSession(d)
             /\ \A d \in Clients : pc[d] = "select" => pc'[d] = "select"
  <2>1. UNCHANGED <<download_port, overlapped>>
    BY <1>4 DEF EndUpdate, SendRequest, RecvReply, RecvTimeout, EndSession, transfer
  <2>2. /\ pc[c] # "select"
        /\ \E v : pc' = [pc EXCEPT ![c] = v] /\ (v \in {"loop", "recv"} => InSession(c))
    BY <1>4 DEF EndUpdate, SendRequest, RecvReply, RecvTimeout, EndSession, InSession
  <2> QED
    BY <2>1, <2>2 DEF TypeOK, InSession
<1>5. ASSUME NEW p \in Clients, Serve(p)
      PROVE  UNCHANGED <<download_port, overlapped, pc>>
  BY <1>5 DEF Serve, transfer
<1>6. CASE UNCHANGED <<download_port, overlapped, pc>>
  BY <1>1, <1>6 DEF InSession
<1>7. UNCHANGED vars => UNCHANGED <<download_port, overlapped, pc>>
  BY DEF vars, transfer
<1> QED
  BY <1>1, <1>2, <1>3, <1>4, <1>5, <1>6, <1>7, SwarmAssumption DEF Next

\* With a peer in select, a timeout finds no request still waiting.
LEMMA TimeoutIsLoss ==
  ASSUME PeerIsPrompt, NEW c \in Clients, ~overlapped[c], RecvTimeout(c)
  PROVE  Outstanding(c) = << >>
  BY DEF RecvTimeout, PeerIsPrompt, InSession

LEMMA NextPromptInv ==
  ASSUME TypeOK, PeerIsPrompt, NEW d \in Clients, CanArrive(d), T(d)!PromptInv,
         \/ \E p \in Neighbors[d] : T(d)!BeginSession(p)
         \/ T(d)!SendRequest
         \/ T(d)!RecvReply
         \/ T(d)!RecvTimeout /\ Outstanding(d) = << >>
         \/ T(d)!EndSession
         \/ T(d)!Serve
         \/ UNCHANGED T(d)!vars
  PROVE  T(d)!PromptInv'
<1> DEFINE N == Len(Wanted[d])
           nd == num_records_downloaded[d]
           p == download_port[d]
<1>0. /\ N \in Nat /\ N > 0 /\ N % InterestPeriod # 0 /\ N + MaxLoss <= MaxAttempts
      /\ InterestPeriod \in Nat \ {0} /\ Wanted[d] \in Seq(Data)
  <2>1. N \in Nat /\ InterestPeriod \in Nat \ {0} /\ Wanted[d] \in Seq(Data)
    BY SwarmAssumption, LenProperties
  <2>2. N % InterestPeriod # 0 /\ N + MaxLoss <= MaxAttempts
    BY DEF CanArrive
  <2>3. ASSUME NEW k \in Nat \ {0} PROVE 0 % k = 0
    OBVIOUS
  <2>4. 0 % InterestPeriod = 0
    BY <2>1, <2>3
  <2> HIDE DEF N
  <2>5. N # 0
    BY <2>2, <2>4
  <2> QED
    BY <2>1, <2>2, <2>5
<1>a. /\ nd \in 0 .. MaxRecords /\ MaxRecords \in Nat /\ MaxRecords > 0 /\ MaxLoss \in Nat
      /\ losses[d] \in 0 .. MaxLoss /\ current_records_downloaded[d] \in 0 .. MaxAttempts
      /\ MaxAttempts \in Nat
      /\ file_buff[d] \in [RecordNumber -> Buf]
      /\ pc[d] \in {"select", "update", "loop", "recv"}
      /\ N <= MaxRecords
  <2>1. MaxRecords \in Nat /\ MaxRecords > 0 /\ MaxLoss \in Nat /\ MaxAttempts \in Nat
    BY SwarmAssumption
  <2> QED
    BY <2>1 DEF TypeOK, CanArrive
<1>b. pc[d] \in {"loop", "recv"} /\ p \in Listening => Content[p] = Wanted[d]
  BY SwarmAssumption DEF PeerIsPrompt, CanArrive
<1>c. ASSUME NEW i \in Nat, i < N, pc[d] \in {"loop", "recv"}, p \in Listening
      PROVE  T(d)!Record(p, i) = Wanted[d][i + 1]
  BY <1>b, <1>c DEF T!Record
<1>1. ASSUME NEW q \in Neighbors[d], T(d)!BeginSession(q)
      PROVE  T(d)!PromptInv'
  <2>1. nd = 0 /\ saved[d] = NotSaved /\ num_records_file[d] = MaxRecords
    BY <1>0, <1>1 DEF T!BeginSession, T!PromptInv
  <2> QED
    BY <1>0, <1>1, <2>1, <1>a DEF T!BeginSession, T!PromptInv
<1>2. CASE T(d)!SendRequest
  <2>1. pc[d] = "loop" /\ Outstanding(d) = << >> /\ Answers(replies[d]) = << >>
    BY <1>2 DEF T!SendRequest, T!PromptInv
  <2>2. nd < N
    BY <1>0, <1>2, <1>a DEF T!SendRequest, T!IsWanting, T!PromptInv
  <2>3. Append(Outstanding(d), nd) = <<nd>>
    BY <2>1
  <2>4. /\ nd > 0 => /\ num_records_file[d] = N /\ filesize[d] = N
                     /\ p \in Listening
        /\ nd = 0 => num_records_file[d] = MaxRecords /\ filesize[d] = Garbage
        /\ \A i \in 0 .. nd - 1 : file_buff[d][i] = Wanted[d][i + 1]
        /\ p \in Listening => current_records_downloaded[d] <= nd + losses[d]
        /\ saved[d] = NotSaved
    BY <1>a, <2>1 DEF T!PromptInv
  <2>6. CASE p \in Listening /\ Outstanding(d)' = <<nd>> /\ losses'[d] = losses[d]
    BY <1>2, <1>a, <2>1, <2>2, <2>4, <2>6 DEF T!SendRequest, T!PromptInv
  <2>7. CASE /\ Outstanding(d)' = << >>
             /\ \/ p \notin Listening
                \/ losses'[d] = losses[d] + 1
    BY <1>2, <1>a, <2>1, <2>2, <2>4, <2>7 DEF T!SendRequest, T!PromptInv
  <2> QED
    BY <1>2, <2>1, <2>3, <2>6, <2>7 DEF T!SendRequest, T!RequestedRecord
<1>3. CASE T(d)!RecvReply
  <2>1. /\ Answers(replies[d]) = <<[num_records |-> N, buf |-> T(d)!Record(p, nd)]>>
        /\ Outstanding(d) = << >>
        /\ p \in Listening
        /\ nd < N
        /\ pc[d] = "recv"
    BY <1>3 DEF T!RecvReply, T!PromptInv
  <2>2. /\ Head(Answers(replies[d])).num_records = N
        /\ Head(Answers(replies[d])).buf = Wanted[d][nd + 1]
        /\ Tail(Answers(replies[d])) = << >>
    BY <1>a, <1>c, <2>1
  <2>3. nd \in RecordNumber /\ N <= MaxRecords
    BY <1>0, <1>a, <1>b, <2>1 DEF RecordNumber
  <2>4. \A i \in 0 .. nd : file_buff'[d][i] = Wanted[d][i + 1]
    <3>1. \A i \in 0 .. nd - 1 : file_buff[d][i] = Wanted[d][i + 1]
      BY <2>1 DEF T!PromptInv
    <3>2. file_buff'[d] = [file_buff[d] EXCEPT ![nd] = Wanted[d][nd + 1]]
      BY <1>3, <2>2 DEF T!RecvReply
    <3>3. file_buff[d] \in [RecordNumber -> Buf] /\ nd \in Nat
      BY <1>a
    <3>4. nd \in DOMAIN file_buff[d] /\ DOMAIN file_buff[d] = RecordNumber
      BY <3>3, <2>3
    <3>5. \A i \in 0 .. nd - 1 : i \in RecordNumber
      BY <3>3, <2>3, <1>a DEF RecordNumber
    <3> HIDE DEF nd
    <3>6. \A i \in RecordNumber : file_buff'[d][i] = IF i = nd THEN Wanted[d][nd + 1] ELSE file_buff[d][i]
      BY <3>2, <3>4
    <3>7. \A i \in 0 .. nd : i = nd \/ i \in 0 .. nd - 1
      BY <3>3
    <3> QED
      BY <3>1, <3>5, <3>6, <3>7, <2>3
  <2>5. /\ pc'[d] = "loop" /\ saved'[d] = saved[d]
        /\ num_records_downloaded'[d] = nd + 1
        /\ num_records_file'[d] = N /\ filesize'[d] = N
        /\ download_port'[d] = p /\ losses'[d] = losses[d]
        /\ current_records_downloaded'[d] = current_records_downloaded[d]
        /\ Outstanding(d)' = << >> /\ Answers(replies'[d]) = << >>
    BY <1>3, <2>1, <2>2 DEF T!RecvReply
  <2>6. saved[d] = NotSaved /\ current_records_downloaded[d] <= (nd + 1) + losses[d]
    BY <1>a, <2>1 DEF T!PromptInv
  <2>7. nd + 1 <= N /\ nd + 1 > 0 /\ \A i \in 0 .. (nd + 1) - 1 : file_buff'[d][i] = Wanted[d][i + 1]
    BY <1>0, <1>a, <2>1, <2>4
  <2>8. /\ num_records_downloaded'[d] <= N /\ num_records_downloaded'[d] # 0
        /\ num_records_file'[d] = N /\ filesize'[d] = N /\ download_port'[d] \in Listening
    BY <1>0, <1>a, <2>1, <2>5, <2>7
  <2>9. \A i \in 0 .. num_records_downloaded'[d] - 1 : file_buff'[d][i] = Wanted[d][i + 1]
    BY <2>5, <2>7
  <2>10. current_records_downloaded'[d] <= num_records_downloaded'[d] + losses'[d] + 0
    BY <1>a, <2>5, <2>6
  <2>11. pc'[d] = "loop" /\ saved'[d] = NotSaved /\ Outstanding(d)' = << >> /\ Answers(replies'[d]) = << >>
    BY <2>5, <2>6
  <2> HIDE DEF N, nd, p
  <2>12. N = Len(Wanted[d])
    BY DEF N
  <2> QED
    BY <2>8, <2>9, <2>10, <2>11, <2>12 DEF T!PromptInv
<1>4. CASE T(d)!RecvTimeout /\ Outstanding(d) = << >>
  BY <1>4 DEF T!RecvTimeout, T!session, T!PromptInv
<1>5. CASE T(d)!EndSession
  <2>1. /\ pc[d] = "loop" /\ Outstanding(d) = << >> /\ Answers(replies[d]) = << >>
        /\ saved[d] = NotSaved
    BY <1>5 DEF T!EndSession, T!PromptInv
  <2>2. CASE nd = 0
    <3>1. num_records_file[d] # nd /\ num_records_file[d] = MaxRecords
      BY <2>1, <2>2, <1>a DEF T!PromptInv
    <3> QED
      BY <1>5, <2>1, <2>2, <3>1 DEF T!EndSession, T!session, T!PromptInv
  <2>3. CASE nd > 0
    <3>1. num_records_file[d] = N /\ filesize[d] = N /\ p \in Listening
      BY <2>1, <2>3 DEF T!PromptInv
    <3>2. current_records_downloaded[d] <= nd + MaxLoss
      BY <2>1, <3>1, <1>a DEF T!PromptInv
    <3>3. nd = N
      BY <1>5, <1>0, <1>a, <1>b, <2>1, <3>1, <3>2 DEF T!EndSession, T!IsWanting, T!PromptInv
    <3>4. \A i \in 1 .. N : file_buff[d][i - 1] = Wanted[d][i]
      BY <1>0, <2>1, <3>3 DEF T!PromptInv
    <3>5. Wanted[d] \in [1 .. N -> Data]
      BY <1>0, LenProperties
    <3>6. [i \in 1 .. N |-> file_buff[d][i - 1]] = Wanted[d]
      BY <3>4, <3>5
    <3>7. T(d)!Written = {Wanted[d]}
      <4>1. N # Garbage
        BY <1>0, SwarmAssumption
      <4> QED
        BY <3>1, <3>6, <4>1 DEF T!Written
    <3>8. saved'[d] = Wanted[d]
      BY <1>5, <3>1, <3>3, <3>7 DEF T!EndSession
    <3> QED
      BY <1>5, <2>1, <3>3, <3>8 DEF T!EndSession, T!session, T!PromptInv
  <2> QED
    BY <1>a, <2>2, <2>3
<1>6. CASE T(d)!Serve
  <2>1. /\ Outstanding(d) = <<nd>> /\ Answers(replies[d]) = << >> /\ pc[d] = "recv"
        /\ p \in Listening
    BY <1>6 DEF T!Serve, T!PromptInv
  <2>2. Answers(replies'[d]) = <<[num_records |-> N, buf |-> T(d)!Record(p, nd)]>>
    <3>1. T(d)!RecordCount(p) = N
      <4>1. Content[p] = Wanted[d] /\ N \in Nat /\ N < Byte * Byte
        BY <1>0, <1>a, <1>b, <2>1, SwarmAssumption, WireAssumption
      <4>2. N % (Byte * Byte) = N
        BY <4>1, IntWraps
      <4> QED
        BY <4>1, <4>2 DEF T!RecordCount
    <3> QED
      BY <1>6, <2>1, <3>1 DEF T!Serve
  <2>3. Outstanding(d)' = << >>
    BY <1>6, <2>1 DEF T!Serve
  <2> QED
    BY <1>6, <2>1, <2>2, <2>3 DEF T!Serve, T!session, T!PromptInv, T!Record
<1>7. CASE UNCHANGED T(d)!vars
  BY <1>7 DEF T!vars, T!session, T!PromptInv
<1> QED
  BY <1>1, <1>2, <1>3, <1>4, <1>5, <1>6, <1>7

Inv == /\ TypeOK /\ RequestsSound /\ AnswersSound /\ UpdateIsDue
       /\ PeerIsPrompt /\ PromptInvs

LEMMA InitInv == Init => Inv
<1> SUFFICES ASSUME Init
             PROVE  Inv
  OBVIOUS
<1>1. TypeOK /\ RequestsSound /\ AnswersSound
  BY InitTypeOK
<1>2. PeerIsPrompt /\ UpdateIsDue
  BY DEF Init, PeerIsPrompt, UpdateIsDue
<1>3. PromptInvs
  <2>1. \A c \in Clients : T(c)!Init
    BY InitTransfer
  <2> QED
    BY <2>1 DEF PromptInvs, T!Init, T!PromptInv
<1> QED
  BY <1>1, <1>2, <1>3 DEF Inv

LEMMA NextInv == Inv /\ [Next]_vars => Inv'
<1> SUFFICES ASSUME Inv, [Next]_vars
             PROVE  Inv'
  OBVIOUS
<1>0. TypeOK /\ RequestsSound /\ AnswersSound /\ UpdateIsDue /\ PeerIsPrompt /\ PromptInvs
  BY DEF Inv
<1>1. (TypeOK /\ RequestsSound /\ AnswersSound /\ UpdateIsDue)'
  BY <1>0, NextTypeOK, NextUpdateIsDue
<1>2. PeerIsPrompt' /\ \A c \in Clients : overlapped[c] => overlapped'[c]
  BY <1>0, NextPeerIsPrompt
<1>3. PromptInvs'
  <2> SUFFICES ASSUME NEW c \in Clients, CanArrive(c), ~overlapped'[c]
               PROVE  T(c)!PromptInv'
    BY DEF PromptInvs, CanArrive
  <2>1. ~overlapped[c] /\ T(c)!PromptInv
    BY <1>0, <1>2 DEF PromptInvs
  <2>2. \/ \E p \in Neighbors[c] : T(c)!BeginSession(p)
        \/ T(c)!SendRequest
        \/ T(c)!RecvReply
        \/ T(c)!RecvTimeout /\ RecvTimeout(c)
        \/ T(c)!EndSession
        \/ T(c)!Serve
        \/ UNCHANGED T(c)!vars
    BY <1>0, StepOf
  <2>3. RecvTimeout(c) => Outstanding(c) = << >>
    BY <1>0, <2>1, TimeoutIsLoss
  <2> QED
    BY <1>0, <2>1, <2>2, <2>3, NextPromptInv
<1> QED
  BY <1>1, <1>2, <1>3 DEF Inv

\* A client whose sessions never met with an update or a session of its peer's
\* saves the right file or none: its requests were queued at a peer in select, so that no answer was
\* late, whoever else that peer served and whatever old requests it still had.
THEOREM IntactWithoutOverlap == Spec => []IntactUnlessOverlapped
<1>1. Inv => IntactUnlessOverlapped
  BY DEF Inv, PromptInvs, IntactUnlessOverlapped, T!PromptInv
<1> QED
  BY <1>1, InitInv, NextInv, PTL DEF Spec

================================================================================
