--------------------------------- MODULE MCConfig ---------------------------------
(***************************************************************************)
(* Config for TLC: two clients, so that one record has a neighbor and one  *)
(* has none; numbers from none to one too many; two tasks that differ in   *)
(* everything; terminators.                                                *)
(***************************************************************************)
EXTENDS Config

CONSTANTS foo, bar

Names == {foo, bar}

Lines ==
  {[words |-> 1, value |-> v] : v \in -1 .. MAX_CLIENTS + 1}
  \cup {[words |-> 2, id |-> i, name |-> foo] : i \in {-1, 0, 1}}
  \cup {[words |-> 3, id |-> i, delay |-> 10, drop |-> 5] : i \in {-1, 1}}
  \cup {[words |-> 4, id |-> i, name |-> foo, start |-> 0, share |-> 1] : i \in {-1, 0, 1}}
  \cup {[words |-> 4, id |-> i, name |-> bar, start |-> 5, share |-> 0] : i \in {0, 1}}

================================================================================
