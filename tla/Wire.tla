---------------------------------- MODULE Wire ----------------------------------
(***************************************************************************)
(* How a file record becomes a datagram and back (serialize_record and     *)
(* deserialize_record of utility.c): three integers of two bytes each, the *)
(* contents, the file name.  The record is longer than the datagrams that  *)
(* both sides send and receive; the name, which comes last, is cut.        *)
(***************************************************************************)
EXTENDS Integers, Sequences

CONSTANTS
  Byte,           \* values of a byte (256)
  BufBytes,       \* sizeof(fr->buf) (32)
  NameBytes,      \* sizeof(fr->filename) (256)
  DatagramBytes,  \* sizeof(client_buf) (256)
  Cell,           \* what buf and filename are made of
  Garbage         \* what lies behind a buffer

ASSUME WireAssumption ==
  /\ Byte \in Nat \ {0}
  /\ {BufBytes, NameBytes, DatagramBytes} \subseteq Nat
  /\ 6 + BufBytes <= DatagramBytes

FileRecord == [record_number : Int, num_records : Int, filesize : Int,
               buf : [1 .. BufBytes -> Cell], filename : [1 .. NameBytes -> Cell]]

serialize_int(value) == <<(value \div Byte) % Byte, value % Byte>>

deserialize_int(buffer, k) == buffer[k] * Byte + buffer[k + 1]

\* Mutation: the file size comes first.
serialize_record_Reordered(fr) ==
  serialize_int(fr.filesize) \o serialize_int(fr.record_number)
    \o serialize_int(fr.num_records) \o fr.buf \o fr.filename

serialize_record(fr) ==
  serialize_int(fr.record_number) \o serialize_int(fr.num_records)
    \o serialize_int(fr.filesize) \o fr.buf \o fr.filename

\* What recvfrom leaves in a buffer of the size of the datagram.
Datagram(bytes) ==
  SubSeq(bytes, 1, IF Len(bytes) < DatagramBytes THEN Len(bytes) ELSE DatagramBytes)

\* Reading on behind the buffer.
At(buffer, k) == IF k <= Len(buffer) THEN buffer[k] ELSE Garbage

deserialize_record(buffer) ==
  [record_number |-> deserialize_int(buffer, 1),
   num_records   |-> deserialize_int(buffer, 3),
   filesize      |-> deserialize_int(buffer, 5),
   buf           |-> [k \in 1 .. BufBytes |-> At(buffer, 6 + k)],
   filename      |-> [k \in 1 .. NameBytes |-> At(buffer, 6 + BufBytes + k)]]

\* A record as the other side gets it.
Received(fr) == deserialize_record(Datagram(serialize_record(fr)))

================================================================================
