----------------------------- MODULE TransferProofs -----------------------------
(***************************************************************************)
(* Proofs about module Transfer, for every set of peers, every file and    *)
(* every bound.                                                            *)
(***************************************************************************)
EXTENDS Transfer, SequenceTheorems, TLAPS

\* A number below the divisor is its own remainder.
LEMMA Remainder ==
  ASSUME NEW n \in Nat, NEW k \in Nat, k > 0
  PROVE  n % k \in 0 .. k - 1 /\ (n < k => n % k = n)
<1>1. /\ n % k \in 0 .. k - 1
      /\ n \div k \in Int
      /\ n = (n \div k) * k + (n % k)
  <2>1. n % k \in 0 .. k - 1
    BY SMT
  <2>2. n \div k \in Int
    BY SMT
  <2>3. n = (n \div k) * k + (n % k)
    BY <2>1, <2>2, Z3
  <2> QED
    BY <2>1, <2>2, <2>3
<1>2. ASSUME n < k
      PROVE  n % k = n
  <2>1. PICK q \in Int, t \in 0 .. k - 1 : t = n % k /\ n = q * k + t
    BY <1>1, <1>2
  <2>2. ~(q > 0)
    <3> SUFFICES ASSUME q > 0
                 PROVE  FALSE
      OBVIOUS
    <3>1. PICK m \in Nat : q = m + 1
      <4>1. q - 1 \in Nat /\ q = (q - 1) + 1
        OBVIOUS
      <4> QED
        BY <4>1
    <3>2. m * k \in Nat /\ q * k = m * k + k
      BY <3>1
    <3> QED
      BY <1>2, <2>1, <3>2
  <2>3. ~(q < 0)
    <3> SUFFICES ASSUME q < 0
                 PROVE  FALSE
      OBVIOUS
    <3>1. PICK m \in Nat : q = -1 - m
      <4>1. -1 - q \in Nat /\ q = -1 - (-1 - q)
        OBVIOUS
      <4> QED
        BY <4>1
    <3>2. m * k \in Nat /\ q * k = -k - m * k
      BY <3>1
    <3> QED
      BY <1>2, <2>1, <3>2
  <2>4. q = 0
    BY <2>2, <2>3
  <2> QED
    BY <2>1, <2>4
<1> QED
  BY <1>1, <1>2

USE TransferAssumption

--------------------------------------------------------------------------------
(***************************************************************************)
(* Lemmas on the operators the model is built from.                        *)
(***************************************************************************)

\* A record sent by a peer is a record or garbage, whatever number is asked for.
LEMMA RecordType ==
  ASSUME NEW p \in Peers, NEW i \in Nat
  PROVE  Record(p, i) \in Buf
<1>1. Content[p] \in Seq(Data)
  OBVIOUS
<1>2. CASE i < Len(Content[p])
  <2>1. i + 1 \in 1 .. Len(Content[p])
    BY <1>1, <1>2
  <2>2. Content[p][i + 1] \in Data
    BY <1>1, <2>1, ElementOfSeq
  <2> QED
    BY <1>2, <2>2 DEF Record, Buf
<1>3. CASE ~(i < Len(Content[p]))
  BY <1>3 DEF Record, Buf
<1> QED
  BY <1>2, <1>3

\* The count that answers carry is in two bytes, and the length of a file that
\* fits.
LEMMA RecordCountType ==
  ASSUME NEW p \in Peers
  PROVE  /\ RecordCount(p) \in 0 .. CountRange - 1
         /\ Len(Content[p]) <= MaxRecords => RecordCount(p) = Len(Content[p])
<1>1. /\ Len(Content[p]) \in Nat /\ CountRange \in Nat /\ CountRange > 0
      /\ Len(Content[p]) <= MaxRecords => Len(Content[p]) < CountRange
  OBVIOUS
<1>2. PICK n \in Nat : n = Len(Content[p])
  BY <1>1
<1>3. RecordCount(p) = n % CountRange
  BY <1>2 DEF RecordCount
<1>4. RecordCount(p) \in 0 .. CountRange - 1
  BY <1>1, <1>3, Remainder
<1>5. n < CountRange => RecordCount(p) = n
  BY <1>1, <1>3, Remainder
<1> QED
  BY <1>1, <1>2, <1>4, <1>5

\* A file whose length is no multiple of the period is not empty.
LEMMA WantedLength ==
  ASSUME OddLength
  PROVE  Len(Wanted) \in Nat /\ Len(Wanted) > 0
<1>1. Len(Wanted) \in Nat
  OBVIOUS
<1>2. InterestPeriod \in Nat \ {0}
  OBVIOUS
<1>3. ASSUME NEW k \in Nat \ {0} PROVE 0 % k = 0
  OBVIOUS
<1>4. Len(Wanted) # 0
  BY <1>2, <1>3 DEF OddLength
<1> QED
  BY <1>1, <1>4

\* What the first k records of file_buff make up is a sequence.
LEMMA WrittenType ==
  ASSUME file_buff \in [RecordNumber -> Buf],
         filesize \in 0 .. MaxRecords \cup {Garbage}
  PROVE  Written \subseteq Seq(Buf)
<1> SUFFICES ASSUME NEW k \in 0 .. MaxRecords
             PROVE  [i \in 1 .. k |-> file_buff[i - 1]] \in Seq(Buf)
  BY DEF Written
<1>1. \A i \in 1 .. k : i - 1 \in RecordNumber
  BY DEF RecordNumber
<1>2. [i \in 1 .. k |-> file_buff[i - 1]] \in [1 .. k -> Buf]
  BY <1>1
<1>3. k \in Nat
  OBVIOUS
<1> QED
  BY <1>2, <1>3, SeqDef

--------------------------------------------------------------------------------
(***************************************************************************)
(* Type correctness.                                                       *)
(***************************************************************************)

LEMMA InitTypeOK == Init => TypeOK
  BY EmptySeq DEF Init, TypeOK, RecordNumber, Buf

LEMMA NextTypeOK == TypeOK /\ [Next]_vars => TypeOK'
<1> SUFFICES ASSUME TypeOK, [Next]_vars
             PROVE  TypeOK'
  OBVIOUS
<1> USE DEF TypeOK
<1>1. ASSUME NEW p \in Peers, BeginSession(p)
      PROVE  TypeOK'
  BY <1>1, EmptySeq DEF BeginSession, RecordNumber, Buf
<1>2. CASE SendRequest
  <2>1. RequestedRecord \in RecordNumber
    BY <1>2 DEF SendRequest, IsWanting, RequestedRecord, RecordNumber
  <2>2. Append(requests, RequestedRecord) \in Seq(RecordNumber)
    BY <2>1, AppendProperties
  <2>3. requests' \in Seq(RecordNumber)
    BY <1>2, <2>2 DEF SendRequest
  <2>4. current_records_downloaded' \in 0 .. MaxAttempts
    BY <1>2 DEF SendRequest, IsWanting
  <2> QED
    BY <1>2, <2>3, <2>4 DEF SendRequest, IsWanting
<1>3. CASE RecvReply
  <2>1. Head(replies) \in Reply /\ Tail(replies) \in Seq(Reply)
    BY <1>3, HeadTailProperties DEF RecvReply
  <2>2. Head(replies).num_records \in Nat /\ Head(replies).buf \in Buf
    BY <2>1 DEF Reply
  <2>3. file_buff' \in [RecordNumber -> Buf]
    BY <1>3, <2>2 DEF RecvReply
  <2> QED
    BY <1>3, <2>1, <2>2, <2>3 DEF RecvReply
<1>4. CASE RecvTimeout
  BY <1>4 DEF RecvTimeout, session
<1>5. CASE EndSession
  <2>1. CASE num_records_downloaded = num_records_file
    <3>1. filesize \in 0 .. MaxRecords \cup {Garbage}
      BY <2>1
    <3>2. saved' \in Seq(Buf)
      BY <1>5, <2>1, <3>1, WrittenType DEF EndSession
    <3> QED
      BY <1>5, <3>2 DEF EndSession, session
  <2>2. CASE num_records_downloaded # num_records_file
    BY <1>5, <2>2 DEF EndSession, session
  <2> QED
    BY <2>1, <2>2
<1>6. CASE Serve
  <2>1. Head(requests) \in RecordNumber /\ Tail(requests) \in Seq(RecordNumber)
    BY <1>6, HeadTailProperties DEF Serve
  <2>2. Record(download_port, Head(requests)) \in Buf
    BY <2>1, RecordType DEF RecordNumber
  <2>3. RecordCount(download_port) \in 0 .. CountRange - 1
    BY RecordCountType
  <2>4. replies' \in Seq(Reply)
    BY <1>6, <2>2, <2>3 DEF Serve, Reply
  <2> QED
    BY <1>6, <2>1, <2>4 DEF Serve, session
<1>7. CASE UNCHANGED vars
  BY <1>7 DEF vars, session
<1> QED
  BY <1>1, <1>2, <1>3, <1>4, <1>5, <1>6, <1>7 DEF Next

\* Every record number the two sides use is inside their buffers, and so is what
\* is written, whatever is lost, late or garbage and however long the files of
\* the peers are (client_client_comms, the request branch of client_listener).
THEOREM TypeCorrect == Spec => []TypeOK
<1> QED
  BY InitTypeOK, NextTypeOK, PTL DEF Spec

--------------------------------------------------------------------------------
(***************************************************************************)
(* A saved file is final, whatever is late or lost.                        *)
(***************************************************************************)

LEMMA InitCountInv ==
  ASSUME OddLength, Init
  PROVE  CountInv
<1>1. Len(Wanted) \in Nat
  OBVIOUS
<1> QED
  BY <1>1 DEF Init, CountInv

LEMMA NextCountInv ==
  ASSUME AllHoldIt, ItFits, OddLength, TypeOK, CountInv, [Next]_vars
  PROVE  CountInv'
<1> DEFINE N == Len(Wanted)
<1>0. N \in Nat /\ N > 0
  BY WantedLength
<1> USE DEF TypeOK, CountInv
<1>1. ASSUME NEW p \in Peers, BeginSession(p)
      PROVE  CountInv'
  <2>1. num_records_downloaded # N
    BY <1>1 DEF BeginSession, OddLength
  <2>2. saved = NotSaved
    BY <2>1
  <2>3. DOMAIN replies' = {}
    BY <1>1 DEF BeginSession
  <2> QED
    BY <1>1, <2>2, <2>3 DEF BeginSession
<1>2. CASE SendRequest
  <2>1. num_records_downloaded < N
    BY <1>0, <1>2 DEF SendRequest, IsWanting
  <2>2. requests' # << >> => download_port \in Listening
    BY <1>2 DEF SendRequest
  <2> QED
    BY <1>2, <2>1, <2>2 DEF SendRequest
<1>3. CASE RecvReply
  <2>1. replies # << >> /\ replies \in Seq(Reply)
    BY <1>3 DEF RecvReply
  <2>2. 1 \in DOMAIN replies /\ Head(replies) = replies[1]
    BY <2>1, EmptySeq, LenProperties
  <2>3. Head(replies).num_records = N
    BY <2>2
  <2>4. \A i \in DOMAIN Tail(replies) : Tail(replies)[i].num_records = N
    BY <2>1, HeadTailProperties, LenProperties
  <2>5. num_records_downloaded + 1 <= N
    BY <1>0, <1>3 DEF RecvReply
  <2> QED
    BY <1>3, <2>1, <2>3, <2>4, <2>5 DEF RecvReply
<1>4. CASE RecvTimeout
  BY <1>4 DEF RecvTimeout, session
<1>5. CASE EndSession
  <2>1. CASE num_records_downloaded = num_records_file
    BY <1>5, <2>1 DEF EndSession, session
  <2>2. CASE num_records_downloaded # num_records_file
    BY <1>5, <2>2 DEF EndSession, session
  <2> QED
    BY <2>1, <2>2
<1>6. CASE Serve
  <2>1. /\ download_port \in Listening
        /\ RecordCount(download_port) = N
    BY <1>6, RecordCountType DEF Serve, AllHoldIt, ItFits
  <2> DEFINE r == [num_records |-> N, buf |-> Record(download_port, Head(requests))]
  <2>2. replies' = Append(replies, r)
    BY <1>6, <2>1 DEF Serve
  <2>3. \A i \in DOMAIN Append(replies, r) :
          Append(replies, r)[i].num_records = N
    <3>1. replies \in Seq(Reply \cup {r}) /\ r \in Reply \cup {r}
      BY SeqMonotonic
    <3>2. /\ Append(replies, r) \in Seq(Reply \cup {r})
          /\ Len(Append(replies, r)) = Len(replies) + 1
          /\ \A i \in 1 .. Len(replies) : Append(replies, r)[i] = replies[i]
          /\ Append(replies, r)[Len(replies) + 1] = r
      BY <3>1, AppendProperties
    <3>3. DOMAIN Append(replies, r) = 1 .. Len(replies) + 1 /\ DOMAIN replies = 1 .. Len(replies)
      BY <3>1, <3>2, LenProperties
    <3>4. ASSUME NEW i \in 1 .. Len(replies) + 1
          PROVE  Append(replies, r)[i].num_records = N
      <4>1. CASE i = Len(replies) + 1
        BY <4>1, <3>2
      <4>2. CASE i \in 1 .. Len(replies)
        BY <4>2, <3>2, <3>3
      <4> QED
        BY <4>1, <4>2
    <3> QED
      BY <3>3, <3>4
  <2> HIDE DEF r
  <2>4. \A i \in DOMAIN replies' : replies'[i].num_records = N
    BY <2>2, <2>3
  <2> QED
    BY <1>6, <2>1, <2>4 DEF Serve, session
<1>7. CASE UNCHANGED vars
  BY <1>7 DEF vars, session
<1> QED
  BY <1>1, <1>2, <1>3, <1>4, <1>5, <1>6, <1>7 DEF Next

\* If the sharing clients agree on the file, it fits in the buffer and its length
\* is no multiple of the update period, an output file once written is never touched again: CountInv
\* ties it to a full counter, which holds off every further session.
THEOREM SavedFileIsFinal ==
  ASSUME AllHoldIt, ItFits, OddLength
  PROVE  Spec => SavedIsFinal
<1>1. Init => TypeOK /\ CountInv
  BY InitTypeOK, InitCountInv
<1>2. TypeOK /\ CountInv /\ [Next]_vars => (TypeOK /\ CountInv)'
  BY NextTypeOK, NextCountInv
<1>3. TypeOK /\ CountInv /\ [Next]_vars => [saved = NotSaved]_saved
  <2> SUFFICES ASSUME TypeOK, CountInv, Next, saved' # saved
               PROVE  saved = NotSaved
    BY DEF vars
  <2>1. EndSession
    BY DEF Next, BeginSession, SendRequest, RecvReply, RecvTimeout, Serve
  <2> QED
    BY <2>1 DEF EndSession, CountInv
<1> QED
  BY <1>1, <1>2, <1>3, PTL DEF Spec, SavedIsFinal

--------------------------------------------------------------------------------
(***************************************************************************)
(* Late answers lag, they do not run ahead.                                *)
(***************************************************************************)

LEMMA NextLagInv ==
  ASSUME TypeOK, LagInv, AnswersOnlyLag, [Next]_vars
  PROVE  LagInv' /\ AnswersOnlyLag'
<1> USE DEF TypeOK
<1>1. ASSUME NEW p \in Peers, BeginSession(p)
      PROVE  LagInv' /\ AnswersOnlyLag'
  BY <1>1 DEF BeginSession, LagInv, AnswersOnlyLag
<1>2. CASE SendRequest
  <2>1. pc # "select" /\ UNCHANGED <<num_records_downloaded, download_port, file_buff, replies>>
    BY <1>2 DEF SendRequest
  <2>2. \A i \in DOMAIN requests' : requests'[i] <= num_records_downloaded
    <3>1. CASE requests' = Append(requests, RequestedRecord)
      <4>1. /\ Len(Append(requests, RequestedRecord)) = Len(requests) + 1
            /\ \A i \in 1 .. Len(requests) :
                 Append(requests, RequestedRecord)[i] = requests[i]
            /\ Append(requests, RequestedRecord)[Len(requests) + 1] = RequestedRecord
            /\ Append(requests, RequestedRecord) \in Seq(Nat)
        <5>1. requests \in Seq(Nat) /\ RequestedRecord \in Nat
          BY SeqMonotonic DEF RecordNumber, RequestedRecord
        <5> QED
          BY <5>1, AppendProperties
      <4>2. /\ DOMAIN requests' = 1 .. Len(requests) + 1
            /\ DOMAIN requests = 1 .. Len(requests)
            /\ Len(requests) \in Nat
        BY <3>1, <4>1, LenProperties
      <4>3. ASSUME NEW i \in 1 .. Len(requests) + 1
            PROVE  requests'[i] <= num_records_downloaded
        <5>1. CASE i = Len(requests) + 1
          BY <5>1, <3>1, <4>1 DEF RequestedRecord
        <5>2. CASE i \in 1 .. Len(requests)
          BY <5>2, <2>1, <3>1, <4>1, <4>2 DEF LagInv
        <5> QED
          BY <4>2, <5>1, <5>2, SMTT(30)
      <4> QED
        BY <4>2, <4>3
    <3>2. CASE requests' = requests
      BY <3>2, <2>1 DEF LagInv
    <3> QED
      BY <1>2, <3>1, <3>2 DEF SendRequest
  <2> QED
    BY <1>2, <2>1, <2>2 DEF SendRequest, LagInv, AnswersOnlyLag
<1>3. CASE RecvReply
  <2>1. replies # << >> /\ pc = "recv"
    BY <1>3 DEF RecvReply
  <2>2. 1 \in DOMAIN replies /\ Head(replies) = replies[1]
    BY <2>1, EmptySeq, LenProperties
  <2>3. PICK k \in 0 .. num_records_downloaded : Head(replies).buf = Record(download_port, k)
    BY <2>1, <2>2 DEF LagInv
  <2>4. AnswersOnlyLag'
    BY <1>3, <2>1, <2>3 DEF RecvReply, AnswersOnlyLag, RecordNumber
  <2>5. \A i \in DOMAIN Tail(replies) :
          i + 1 \in DOMAIN replies /\ Tail(replies)[i] = replies[i + 1]
    BY <2>1, HeadTailProperties, LenProperties
  <2>6. 0 .. num_records_downloaded \subseteq 0 .. num_records_downloaded + 1
    OBVIOUS
  <2>7. \A i \in DOMAIN requests : requests[i] <= num_records_downloaded + 1
    BY <2>1, LenProperties, ElementOfSeq DEF LagInv, RecordNumber
  <2>8. LagInv'
    BY <1>3, <2>1, <2>5, <2>6, <2>7 DEF RecvReply, LagInv
  <2> QED
    BY <2>4, <2>8
<1>4. CASE RecvTimeout
  BY <1>4 DEF RecvTimeout, session, LagInv, AnswersOnlyLag
<1>5. CASE EndSession
  BY <1>5 DEF EndSession, LagInv, AnswersOnlyLag
<1>6. CASE Serve
  <2>1. requests # << >> /\ pc # "select"
    BY <1>6 DEF Serve
  <2>2. 1 \in DOMAIN requests /\ Head(requests) = requests[1]
    BY <2>1, EmptySeq, LenProperties
  <2>3. Head(requests) \in 0 .. num_records_downloaded
    BY <2>1, <2>2, ElementOfSeq, LenProperties DEF LagInv, RecordNumber
  <2>4. \A i \in DOMAIN Tail(requests) :
          i + 1 \in DOMAIN requests /\ Tail(requests)[i] = requests[i + 1]
    BY <2>1, HeadTailProperties, LenProperties
  <2> DEFINE r == [num_records |-> RecordCount(download_port),
                   buf |-> Record(download_port, Head(requests))]
  <2>5. ASSUME NEW i \in DOMAIN Append(replies, r)
        PROVE  \E k \in 0 .. num_records_downloaded :
                 Append(replies, r)[i].buf = Record(download_port, k)
    <3>1. replies \in Seq(Reply \cup {r}) /\ r \in Reply \cup {r}
      BY SeqMonotonic
    <3>2. /\ Append(replies, r) \in Seq(Reply \cup {r})
          /\ Len(Append(replies, r)) = Len(replies) + 1
          /\ \A j \in 1 .. Len(replies) : Append(replies, r)[j] = replies[j]
          /\ Append(replies, r)[Len(replies) + 1] = r
      BY <3>1, AppendProperties
    <3>3. i \in 1 .. Len(replies) + 1 /\ DOMAIN replies = 1 .. Len(replies)
      BY <3>1, <3>2, LenProperties
    <3>4. CASE i = Len(replies) + 1
      BY <2>3, <3>2, <3>4
    <3>5. CASE i \in 1 .. Len(replies)
      BY <2>1, <3>2, <3>3, <3>5 DEF LagInv
    <3> QED
      BY <3>3, <3>4, <3>5
  <2>6. replies' = Append(replies, r)
    BY <1>6 DEF Serve
  <2> HIDE DEF r
  <2>7. UNCHANGED <<pc, num_records_downloaded, download_port, file_buff>>
    BY <1>6 DEF Serve, session
  <2>8. \A i \in DOMAIN requests' : requests'[i] <= num_records_downloaded
    BY <1>6, <2>1, <2>4 DEF Serve, LagInv
  <2> QED
    BY <2>1, <2>5, <2>6, <2>7, <2>8 DEF LagInv, AnswersOnlyLag
<1>7. CASE UNCHANGED vars
  BY <1>7 DEF vars, session, LagInv, AnswersOnlyLag
<1> QED
  BY <1>1, <1>2, <1>3, <1>4, <1>5, <1>6, <1>7 DEF Next

\* With nothing assumed about peers, losses or timing, a record is never stored
\* ahead of its place: requests carry the counter, the counter only grows, and
\* so every answer still under way is for the current record or one before it.
THEOREM AnswersNeverRunAhead == Spec => []AnswersOnlyLag
<1>1. Init => TypeOK /\ LagInv /\ AnswersOnlyLag
  BY InitTypeOK DEF Init, LagInv, AnswersOnlyLag
<1>2. TypeOK /\ LagInv /\ AnswersOnlyLag /\ [Next]_vars => (TypeOK /\ LagInv /\ AnswersOnlyLag)'
  BY NextTypeOK, NextLagInv
<1> QED
  BY <1>1, <1>2, PTL DEF Spec

--------------------------------------------------------------------------------
(***************************************************************************)
(* With prompt peers the download implements module Delivery.              *)
(***************************************************************************)

LEMMA InitPromptInv == Init => PromptInv
  BY DEF Init, PromptInv

LEMMA NextPromptInv ==
  ASSUME ~LateAnswers, AllHoldIt, ItFits, OddLength, AttemptsToSpare,
         TypeOK, PromptInv, [Next]_vars
  PROVE  PromptInv' /\ [D!Save]_saved
<1> DEFINE N == Len(Wanted)
           nd == num_records_downloaded
<1>0. N \in Nat /\ N > 0 /\ N % InterestPeriod # 0
  BY WantedLength DEF OddLength
<1>a. nd \in Nat /\ MaxRecords \in Nat /\ MaxRecords > 0
  BY DEF TypeOK
<1>b. ASSUME NEW i \in Nat, i < N, NEW p \in Listening
      PROVE  Record(p, i) = Wanted[i + 1]
  BY <1>b DEF AllHoldIt, Record
<1>c. N <= MaxRecords
  BY DEF ItFits
<1>1. ASSUME NEW p \in Peers, BeginSession(p)
      PROVE  PromptInv' /\ UNCHANGED saved
  <2>1. nd = 0 /\ saved = NotSaved /\ num_records_file = MaxRecords
    BY <1>0, <1>1 DEF BeginSession, PromptInv
  <2> QED
    BY <1>0, <1>1, <2>1, <1>a DEF BeginSession, PromptInv, TypeOK
<1>2. CASE SendRequest
  <2>0. losses \in Nat /\ current_records_downloaded \in Nat
    BY DEF TypeOK
  <2>1. pc = "loop" /\ requests = << >> /\ replies = << >>
    BY <1>2 DEF SendRequest, PromptInv
  <2>2. nd < N
    BY <1>0, <1>2, <1>a DEF SendRequest, IsWanting, PromptInv
  <2>3. Append(requests, RequestedRecord) = <<nd>>
    BY <2>1 DEF RequestedRecord
  <2>4. /\ nd > 0 => /\ num_records_file = N /\ filesize = N
                     /\ download_port \in Listening
        /\ nd = 0 => num_records_file = MaxRecords /\ filesize = Garbage
        /\ \A i \in 0 .. nd - 1 : file_buff[i] = Wanted[i + 1]
        /\ download_port \in Listening => current_records_downloaded <= nd + losses
        /\ saved = NotSaved
    BY <1>a, <2>1, <2>0 DEF PromptInv
  <2>6. CASE download_port \in Listening /\ requests' = <<nd>> /\ UNCHANGED losses
    BY <1>2, <1>a, <2>1, <2>2, <2>0, <2>4, <2>6 DEF SendRequest, PromptInv
  <2>7. CASE /\ requests' = << >>
             /\ \/ download_port \notin Listening
                \/ losses' = losses + 1
    BY <1>2, <1>a, <2>1, <2>2, <2>0, <2>4, <2>7 DEF SendRequest, PromptInv
  <2> QED
    BY <1>2, <2>1, <2>3, <2>6, <2>7 DEF SendRequest
<1>3. CASE RecvReply
  <2>1. /\ replies = <<[num_records |-> N, buf |-> Record(download_port, nd)]>>
        /\ requests = << >>
        /\ download_port \in Listening
        /\ nd < N
    BY <1>3 DEF RecvReply, PromptInv
  <2>2. /\ Head(replies).num_records = N
        /\ Head(replies).buf = Wanted[nd + 1]
        /\ Tail(replies) = << >>
    BY <1>a, <1>b, <2>1
  <2>3. nd \in RecordNumber
    BY <1>3, <1>a DEF RecvReply, TypeOK, RecordNumber
  <2>4. \A i \in 0 .. nd : file_buff'[i] = Wanted[i + 1]
    BY <1>3, <1>a, <2>2, <2>3, <1>0, <1>c, <2>1 DEF RecvReply, PromptInv, TypeOK, RecordNumber
  <2> QED
    BY <1>3, <1>0, <1>a, <2>1, <2>2, <2>4 DEF RecvReply, PromptInv, TypeOK
<1>4. CASE RecvTimeout
  BY <1>4 DEF RecvTimeout, session, PromptInv
<1>5. CASE EndSession
  <2>1. pc = "loop" /\ requests = << >> /\ replies = << >> /\ saved = NotSaved
    BY <1>5 DEF EndSession, PromptInv
  <2>2. CASE nd = 0
    <3>1. num_records_file # nd
      BY <2>1, <2>2, <1>a DEF PromptInv
    <3> QED
      BY <1>5, <2>1, <2>2, <3>1 DEF EndSession, session, PromptInv
  <2>3. CASE nd > 0
    <3>1. num_records_file = N /\ filesize = N /\ download_port \in Listening
      BY <2>1, <2>3 DEF PromptInv
    <3>2. current_records_downloaded <= nd + MaxLoss
      BY <2>1, <3>1, <1>a DEF PromptInv, TypeOK
    <3>3. nd = N
      BY <1>5, <1>0, <1>a, <1>c, <2>1, <3>1, <3>2
         DEF EndSession, IsWanting, PromptInv, AttemptsToSpare, TypeOK
    <3>4. \A i \in 1 .. N : file_buff[i - 1] = Wanted[i]
      BY <1>0, <2>1, <3>3 DEF PromptInv
    <3>5. Wanted \in [1 .. N -> Data]
      BY LenProperties
    <3>6. [i \in 1 .. N |-> file_buff[i - 1]] = Wanted
      BY <3>4, <3>5
    <3>7. Written = {Wanted}
      BY <1>0, <3>1, <3>6 DEF Written
    <3>8. saved' = Wanted
      BY <1>5, <3>1, <3>3, <3>7 DEF EndSession
    <3> QED
      BY <1>5, <2>1, <3>3, <3>8 DEF EndSession, session, PromptInv, D!Save
  <2> QED
    BY <1>a, <2>2, <2>3
<1>6. CASE Serve
  <2>1. /\ requests = <<nd>> /\ replies = << >> /\ pc = "recv"
        /\ download_port \in Listening
    BY <1>6 DEF Serve, PromptInv
  <2>2. replies' = <<[num_records |-> N, buf |-> Record(download_port, nd)]>>
    <3>1. RecordCount(download_port) = N
      BY <1>c, <2>1, RecordCountType DEF AllHoldIt
    <3> QED
      BY <1>6, <2>1, <3>1 DEF Serve
  <2>3. requests' = << >>
    BY <1>6, <2>1 DEF Serve
  <2> QED
    BY <1>6, <2>1, <2>2, <2>3 DEF Serve, session, PromptInv
<1>7. CASE UNCHANGED vars
  BY <1>7 DEF vars, session, PromptInv
<1> QED
  BY <1>1, <1>2, <1>3, <1>4, <1>5, <1>6, <1>7 DEF Next, SendRequest, RecvReply,
     RecvTimeout, Serve, vars

\* If peers are prompt and agree on the file, it fits in the buffer, its length is
\* no multiple of the update period, and a session has attempts for all its records and all the
\* losses there can be, then the output file is what module Delivery promises:
\* it is written once, with the right content (client_client_comms).
THEOREM PromptDelivery ==
  ASSUME ~LateAnswers, AllHoldIt, ItFits, OddLength, AttemptsToSpare
  PROVE  Spec => Delivers
<1>1. Init => TypeOK /\ PromptInv /\ D!Init
  BY InitTypeOK, InitPromptInv DEF Init, D!Init
<1>2. TypeOK /\ PromptInv /\ [Next]_vars => (TypeOK /\ PromptInv)' /\ [D!Save]_saved
  BY NextTypeOK, NextPromptInv
<1> QED
  BY <1>1, <1>2, PTL DEF Spec, Delivers, D!Spec

================================================================================
