------------------------------- MODULE MCTransfer -------------------------------
(***************************************************************************)
(* Small instances of Transfer.  The constants of the code, 625 records,   *)
(* 800 attempts and a period of 8, become 7, 8 and 3: as in the code a     *)
(* session can fetch the longest file with attempts to spare, and the      *)
(* longest file (625 = 8 * 78 + 1) is one record past a multiple of the    *)
(* period.                                                                 *)
(***************************************************************************)
EXTENDS Transfer, TLC

CONSTANTS p, q, r

\* Files of distinct records.
File(n)   == [i \in 1 .. n |-> i]
Records   == 1 .. MaxRecords

FourRecords == File(4)
FiveRecords == File(5)

\* All peers hold the file that is wanted.
AllHold   == [x \in Peers |-> Wanted]

================================================================================
