------------------------------- MODULE WireProofs -------------------------------
(***************************************************************************)
(* What survives the encoding of a file record.                            *)
(***************************************************************************)
EXTENDS Wire, TLAPS, SequenceTheorems

\* Division with remainder, for integers of either sign.
LEMMA DivMod ==
  ASSUME NEW u \in Int, NEW d \in Nat, d > 0
  PROVE  /\ u \div d \in Int
         /\ u % d \in 0 .. d - 1
         /\ u = (u \div d) * d + (u % d)
<1>1. u % d \in 0 .. d - 1
  BY SMT
<1>2. u \div d \in Int
  BY SMT
<1>3. u = (u \div d) * d + (u % d)
  BY <1>1, <1>2, Z3
<1> QED BY <1>1, <1>2, <1>3

LEMMA OneRemainder ==
  ASSUME NEW d \in Nat, NEW k \in Int, NEW m \in Int,
         NEW t \in 0 .. d - 1, NEW u \in 0 .. d - 1, k * d + t = m * d + u
  PROVE  t = u
<1>1. ASSUME NEW i \in Int, NEW j \in Int, NEW v \in 0 .. d - 1, NEW w \in 0 .. d - 1,
             i * d + v = j * d + w, i < j
      PROVE  FALSE
  <2>1. PICK n \in Nat : j = i + 1 + n
    <3>1. j - i - 1 \in Nat /\ j = i + 1 + (j - i - 1)
      BY <1>1
    <3> QED BY <3>1
  <2>2. n * d \in Nat /\ i * d \in Int
    OBVIOUS
  <2>3. j * d = i * d + d + n * d
    BY <2>1
  <2> QED BY <1>1, <2>2, <2>3
<1>2. k = m
  BY <1>1
<1>3. k * d \in Int
  OBVIOUS
<1> QED BY <1>2, <1>3

\* Two bytes carry a number modulo the numbers that two bytes can hold.
LEMMA IntWraps ==
  ASSUME NEW v \in Nat
  PROVE  /\ ((v \div Byte) % Byte) * Byte + (v % Byte) = v % (Byte * Byte)
         /\ v < Byte * Byte => v % (Byte * Byte) = v
<1> DEFINE W == Byte * Byte
<1>1. Byte \in Nat /\ Byte > 0 /\ W \in Nat /\ W > 0
  BY WireAssumption
<1>2. PICK q \in Int, r \in 0 .. Byte - 1 : q = v \div Byte /\ r = v % Byte /\ v = q * Byte + r
  <2>1. /\ v \div Byte \in Int
        /\ v % Byte \in 0 .. Byte - 1
        /\ v = (v \div Byte) * Byte + (v % Byte)
    BY <1>1, DivMod
  <2> QED BY <2>1
<1>3. PICK k \in Int, t \in 0 .. Byte - 1 : t = q % Byte /\ q = k * Byte + t
  <2>1. /\ q \div Byte \in Int
        /\ q % Byte \in 0 .. Byte - 1
        /\ q = (q \div Byte) * Byte + (q % Byte)
    BY <1>1, DivMod
  <2> QED BY <2>1
<1>4. t * Byte + r \in 0 .. W - 1
  <2>1. PICK n \in Nat : Byte = t + 1 + n
    <3>1. Byte - t - 1 \in Nat /\ Byte = t + 1 + (Byte - t - 1)
      BY <1>1
    <3> QED BY <3>1
  <2>2. n * Byte \in Nat /\ t * Byte \in Nat
    BY <1>1
  <2>3. W = t * Byte + Byte + n * Byte
    BY <1>1, <2>1
  <2> HIDE DEF W
  <2> QED BY <1>1, <2>2, <2>3
<1>5. v = k * W + (t * Byte + r)
  <2>1. q * Byte = k * W + t * Byte
    BY <1>1, <1>3
  <2>2. k * W \in Int /\ t * Byte \in Int
    BY <1>1
  <2> HIDE DEF W
  <2> QED BY <1>2, <2>1, <2>2
<1>6. /\ v \div W \in Int
      /\ v % W \in 0 .. W - 1
      /\ v = (v \div W) * W + (v % W)
  <2> HIDE DEF W
  <2> QED BY <1>1, DivMod
<1>7. t * Byte + r = v % W
  <2> HIDE DEF W
  <2> QED BY <1>1, <1>4, <1>5, <1>6, OneRemainder
<1>8. v < W => v % W = v
  <2>1. v < W => v \in 0 .. W - 1
    BY <1>1
  <2>2. v = 0 * W + v
    BY <1>1
  <2> HIDE DEF W
  <2> QED BY <1>1, <1>6, <2>1, <2>2, OneRemainder
<1> QED BY <1>2, <1>3, <1>7, <1>8

\* Sequence s is x followed by y.
IsJoined(s, x, y) ==
  /\ Len(s) = Len(x) + Len(y)
  /\ \A k \in 1 .. Len(x) : s[k] = x[k]
  /\ \A k \in 1 .. Len(y) : s[Len(x) + k] = y[k]

LEMMA Concatenated ==
  ASSUME NEW U, NEW x \in Seq(U), NEW y \in Seq(U)
  PROVE  x \o y \in Seq(U) /\ IsJoined(x \o y, x, y)
<1>1. x \o y \in Seq(U)
  OBVIOUS
<1>2. Len(x \o y) = Len(x) + Len(y)
  OBVIOUS
<1>3. \A k \in 1 .. Len(x) : (x \o y)[k] = x[k]
  BY ConcatProperties
<1>4. \A k \in 1 .. Len(y) : (x \o y)[Len(x) + k] = y[k]
  <2>1. Len(x) \in Nat /\ Len(y) \in Nat
    OBVIOUS
  <2> SUFFICES ASSUME NEW k \in 1 .. Len(y)
               PROVE  (x \o y)[Len(x) + k] = y[k]
    OBVIOUS
  <2>2. Len(x) + k \in 1 .. Len(x) + Len(y) /\ ~ (Len(x) + k <= Len(x))
    BY <2>1
  <2>3. Len(x) + k - Len(x) = k
    BY <2>1
  <2> QED BY <2>2, <2>3, ConcatProperties
<1> QED BY <1>1, <1>2, <1>3, <1>4 DEF IsJoined

\* Sequence s is three pairs and two longer parts, one behind the other.
HasParts(s, a, b, c, x, y) ==
  /\ Len(s) = 6 + Len(x) + Len(y)
  /\ s[1] = a[1] /\ s[2] = a[2]
  /\ s[3] = b[1] /\ s[4] = b[2]
  /\ s[5] = c[1] /\ s[6] = c[2]
  /\ \A k \in 1 .. Len(x) : s[6 + k] = x[k]
  /\ \A k \in 1 .. Len(y) : s[6 + Len(x) + k] = y[k]

LEMMA JoinedHasParts ==
  ASSUME NEW a, NEW b, NEW c, NEW x, NEW y, NEW ab, NEW h, NEW hx, NEW s,
         Len(a) = 2, Len(b) = 2, Len(c) = 2, Len(x) \in Nat, Len(y) \in Nat,
         IsJoined(ab, a, b), IsJoined(h, ab, c), IsJoined(hx, h, x), IsJoined(s, hx, y)
  PROVE  HasParts(s, a, b, c, x, y)
<1>1. Len(ab) = 4 /\ Len(h) = 6 /\ Len(hx) = 6 + Len(x) /\ Len(s) = 6 + Len(x) + Len(y)
  BY DEF IsJoined
<1>2. ab[1] = a[1] /\ ab[2] = a[2] /\ ab[2 + 1] = b[1] /\ ab[2 + 2] = b[2]
  BY DEF IsJoined
<1>3. \A k \in 1 .. 4 : h[k] = ab[k]
  BY <1>1 DEF IsJoined
<1>4. h[4 + 1] = c[1] /\ h[4 + 2] = c[2]
  BY <1>1 DEF IsJoined
<1>5. \A k \in 1 .. 6 : hx[k] = h[k]
  BY <1>1 DEF IsJoined
<1>6. \A k \in 1 .. Len(x) : hx[6 + k] = x[k]
  BY <1>1 DEF IsJoined
<1>7. \A k \in 1 .. 6 + Len(x) : s[k] = hx[k]
  BY <1>1 DEF IsJoined
<1>8. \A k \in 1 .. Len(y) : s[6 + Len(x) + k] = y[k]
  BY <1>1 DEF IsJoined
<1>9. \A k \in 1 .. 6 : s[k] = h[k]
  BY <1>5, <1>7
<1>10. \A k \in 1 .. Len(x) : s[6 + k] = x[k]
  BY <1>6, <1>7
<1>11. /\ s[1] = a[1] /\ s[2] = a[2]
       /\ s[3] = b[1] /\ s[4] = b[2]
       /\ s[5] = c[1] /\ s[6] = c[2]
  BY <1>2, <1>3, <1>4, <1>9
<1> QED BY <1>1, <1>8, <1>10, <1>11 DEF HasParts

\* Where each byte of a serialized record lies.
LEMMA Layout ==
  ASSUME NEW fr \in FileRecord
  PROVE  HasParts(serialize_record(fr),
                  serialize_int(fr.record_number), serialize_int(fr.num_records),
                  serialize_int(fr.filesize), fr.buf, fr.filename)
<1>1. ASSUME NEW v \in Int
      PROVE  serialize_int(v) \in Seq(Int \cup Cell) /\ Len(serialize_int(v)) = 2
  <2>1. (v \div Byte) % Byte \in Int \cup Cell /\ v % Byte \in Int \cup Cell
    BY WireAssumption, DivMod
  <2> QED BY <2>1 DEF serialize_int
<1>2. fr.record_number \in Int /\ fr.num_records \in Int /\ fr.filesize \in Int
  BY DEF FileRecord
<1>3. PICK a, b, c, x, y : /\ a = serialize_int(fr.record_number)
                           /\ b = serialize_int(fr.num_records)
                           /\ c = serialize_int(fr.filesize)
                           /\ x = fr.buf
                           /\ y = fr.filename
  OBVIOUS
<1>4. /\ a \in Seq(Int \cup Cell) /\ Len(a) = 2
      /\ b \in Seq(Int \cup Cell) /\ Len(b) = 2
      /\ c \in Seq(Int \cup Cell) /\ Len(c) = 2
  BY <1>1, <1>2, <1>3
<1>5. /\ x \in Seq(Int \cup Cell) /\ Len(x) \in Nat
      /\ y \in Seq(Int \cup Cell) /\ Len(y) \in Nat
  BY <1>3, WireAssumption DEF FileRecord
<1>6. PICK ab : ab = a \o b
  OBVIOUS
<1>7. PICK h : h = ab \o c
  OBVIOUS
<1>8. PICK hx : hx = h \o x
  OBVIOUS
<1>9. PICK s : s = hx \o y
  OBVIOUS
<1>10. ab \in Seq(Int \cup Cell) /\ IsJoined(ab, a, b)
  BY <1>4, <1>6, Concatenated
<1>11. h \in Seq(Int \cup Cell) /\ IsJoined(h, ab, c)
  BY <1>4, <1>7, <1>10, Concatenated
<1>12. hx \in Seq(Int \cup Cell) /\ IsJoined(hx, h, x)
  BY <1>5, <1>8, <1>11, Concatenated
<1>13. IsJoined(s, hx, y)
  BY <1>5, <1>9, <1>12, Concatenated
<1>14. HasParts(s, a, b, c, x, y)
  BY <1>4, <1>5, <1>10, <1>11, <1>12, <1>13, JoinedHasParts
<1>15. serialize_record(fr) = s
  BY <1>3, <1>6, <1>7, <1>8, <1>9 DEF serialize_record
<1> QED BY <1>3, <1>14, <1>15

\* A record arrives with its numbers modulo what two bytes can hold and with its
\* contents, although it is longer than the datagram; of the name arrives what
\* fits, and the rest is read from behind the buffer (serialize_record,
\* deserialize_record, and the client_buf of either side).
THEOREM RecordSurvives ==
  ASSUME NEW fr \in FileRecord,
         fr.record_number \in Nat, fr.num_records \in Nat, fr.filesize \in Nat
  PROVE  /\ Received(fr).record_number = fr.record_number % (Byte * Byte)
         /\ Received(fr).num_records = fr.num_records % (Byte * Byte)
         /\ Received(fr).filesize = fr.filesize % (Byte * Byte)
         /\ Received(fr).buf = fr.buf
         /\ \A k \in 1 .. NameBytes :
              Received(fr).filename[k] = IF 6 + BufBytes + k <= DatagramBytes
                                           THEN fr.filename[k] ELSE Garbage
<1> DEFINE s == serialize_record(fr)
           L == IF Len(s) < DatagramBytes THEN Len(s) ELSE DatagramBytes
           d == Datagram(s)
<1>0. BufBytes \in Nat /\ NameBytes \in Nat /\ DatagramBytes \in Nat /\ 6 + BufBytes <= DatagramBytes
  BY WireAssumption
<1>1. /\ Len(s) = 6 + BufBytes + NameBytes
      /\ s[1] = serialize_int(fr.record_number)[1] /\ s[2] = serialize_int(fr.record_number)[2]
      /\ s[3] = serialize_int(fr.num_records)[1] /\ s[4] = serialize_int(fr.num_records)[2]
      /\ s[5] = serialize_int(fr.filesize)[1] /\ s[6] = serialize_int(fr.filesize)[2]
      /\ \A k \in 1 .. BufBytes : s[6 + k] = fr.buf[k]
      /\ \A k \in 1 .. NameBytes : s[6 + BufBytes + k] = fr.filename[k]
  <2>1. HasParts(s, serialize_int(fr.record_number), serialize_int(fr.num_records),
                 serialize_int(fr.filesize), fr.buf, fr.filename)
    BY Layout
  <2>2. Len(fr.buf) = BufBytes /\ Len(fr.filename) = NameBytes
    BY <1>0 DEF FileRecord
  <2> QED BY <2>1, <2>2 DEF HasParts
<1>2. Received(fr) = deserialize_record(d)
  BY DEF Received
<1>3. d = SubSeq(s, 1, L)
  BY DEF Datagram
<1> HIDE DEF s, d
<1>4. L \in Nat /\ L >= 6 + BufBytes /\ L <= Len(s)
  BY <1>0, <1>1
<1>5. Len(d) = L /\ \A k \in 1 .. L : d[k] = s[k]
  BY <1>3, <1>4
<1>6. \A k \in 1 .. 6 : d[k] = s[k]
  BY <1>0, <1>4, <1>5
<1>7. /\ deserialize_int(d, 1) = fr.record_number % (Byte * Byte)
      /\ deserialize_int(d, 3) = fr.num_records % (Byte * Byte)
      /\ deserialize_int(d, 5) = fr.filesize % (Byte * Byte)
  <2>1. ASSUME NEW v \in Nat
        PROVE  serialize_int(v)[1] * Byte + serialize_int(v)[2] = v % (Byte * Byte)
    BY IntWraps DEF serialize_int
  <2>2. /\ deserialize_int(d, 1) = s[1] * Byte + s[2]
        /\ deserialize_int(d, 3) = s[3] * Byte + s[4]
        /\ deserialize_int(d, 5) = s[5] * Byte + s[6]
    BY <1>6 DEF deserialize_int
  <2> QED BY <1>1, <2>1, <2>2
<1>8. \A k \in 1 .. BufBytes : At(d, 6 + k) = fr.buf[k]
  <2> SUFFICES ASSUME NEW k \in 1 .. BufBytes
               PROVE  At(d, 6 + k) = fr.buf[k]
    OBVIOUS
  <2>1. 6 + k \in 1 .. L
    BY <1>0, <1>4
  <2> QED BY <1>1, <1>5, <2>1 DEF At
<1>9. fr.buf = [k \in 1 .. BufBytes |-> fr.buf[k]]
  BY DEF FileRecord
<1>10. \A k \in 1 .. NameBytes :
         At(d, 6 + BufBytes + k) = IF 6 + BufBytes + k <= DatagramBytes
                                     THEN fr.filename[k] ELSE Garbage
  <2> SUFFICES ASSUME NEW k \in 1 .. NameBytes
               PROVE  At(d, 6 + BufBytes + k) = IF 6 + BufBytes + k <= DatagramBytes
                                                  THEN fr.filename[k] ELSE Garbage
    OBVIOUS
  <2>1. CASE 6 + BufBytes + k <= DatagramBytes
    <3>1. Len(s) = 6 + BufBytes + NameBytes
      BY <1>1
    <3>2. 6 + BufBytes + k \in Nat /\ 1 <= 6 + BufBytes + k /\ 6 + BufBytes + k <= Len(s)
      BY <1>0, <3>1
    <3>3. 6 + BufBytes + k <= L
      BY <2>1, <3>2
    <3>4. 6 + BufBytes + k \in 1 .. L
      BY <1>4, <3>2, <3>3
    <3> QED BY <1>1, <1>5, <2>1, <3>4 DEF At
  <2>2. CASE ~ (6 + BufBytes + k <= DatagramBytes)
    <3>1. Len(s) = 6 + BufBytes + NameBytes
      BY <1>1
    <3>2. DatagramBytes < 6 + BufBytes + k /\ DatagramBytes < Len(s)
      BY <1>0, <2>2, <3>1
    <3>3. L = DatagramBytes
      BY <1>0, <3>1, <3>2
    <3>4. ~ (6 + BufBytes + k <= L)
      BY <2>2, <3>3
    <3> QED BY <1>5, <2>2, <3>4 DEF At
  <2> QED BY <2>1, <2>2
<1>11. Received(fr).buf = fr.buf
  BY <1>2, <1>8, <1>9 DEF deserialize_record
<1>12. /\ Received(fr).record_number = deserialize_int(d, 1)
       /\ Received(fr).num_records = deserialize_int(d, 3)
       /\ Received(fr).filesize = deserialize_int(d, 5)
       /\ \A k \in 1 .. NameBytes : Received(fr).filename[k] = At(d, 6 + BufBytes + k)
  BY <1>2 DEF deserialize_record
<1> QED BY <1>7, <1>10, <1>11, <1>12

================================================================================
