--------------------------------- MODULE MCSwarm ---------------------------------
(***************************************************************************)
(* Swarm for TLC.  Client a has the file and a task, b wants that file and *)
(* may ask a or d, on whose port nobody listens; a itself may ask its own  *)
(* port, read from the junk of an update, or b, whose own file is too long *)
(* for its buffer and, the count being two bytes, arrives as one record.   *)
(***************************************************************************)
EXTENDS Swarm

CONSTANTS a, b, d, r1, r2

File      == <<r1, r2>>
LongFile  == <<r2, r1, r2, r1, r2>>
AllClients == {a, b, d}
Live      == {a, b}
Names     == [c \in AllClients |-> IF c = a THEN {a, b} ELSE IF c = b THEN {a, d} ELSE {}]
Holds     == [c \in AllClients |-> IF c = a THEN File ELSE IF c = b THEN LongFile ELSE << >>]
Wants     == [c \in AllClients |-> File]
Records   == {r1, r2}
Cells     == Records \cup {Garbage}

================================================================================
