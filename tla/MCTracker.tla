------------------------------- MODULE MCTracker -------------------------------
(***************************************************************************)
(* Small instances of Tracker: three clients, two files.                   *)
(***************************************************************************)
EXTENDS Tracker, TLC

CONSTANTS a, b, c, f, g

\* Clients a and b are after one file and c after another.  Either all share,
\* or one for each file.
TwoTasks    == (a :> f) @@ (b :> f) @@ (c :> g)
AllShare    == Nodes
OneOfEach   == {a, c}

\* All are due at once, or b one tick after the others.
StartAtOnce == [n \in Nodes |-> 0]
StartLater  == (a :> 0) @@ (b :> 1) @@ (c :> 0)

================================================================================
