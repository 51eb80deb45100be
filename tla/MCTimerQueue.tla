------------------------------ MODULE MCTimerQueue ------------------------------
(***************************************************************************)
(* A small instance of TimerQueue: seconds of three microseconds, and      *)
(* timeouts below, of exactly, and above a second, so that sums of one     *)
(* second (which are not carried) and carries of more than one occur.      *)
(***************************************************************************)
EXTENDS TimerQueue

CallbackResults == {-1, 0, 2}

================================================================================
