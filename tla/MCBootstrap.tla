------------------------------ MODULE MCBootstrap ------------------------------
(***************************************************************************)
(* Small instances of Bootstrap: two or three clients, a table of three    *)
(* records for the tracker, a backlog of two.                              *)
(***************************************************************************)
EXTENDS Bootstrap, TLC

CONSTANTS c1, c2, c3

\* Clients do the same and are interchangeable.
ClientSymmetry == Permutations(Clients)

================================================================================
