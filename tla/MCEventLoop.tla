------------------------------- MODULE MCEventLoop -------------------------------
(***************************************************************************)
(* EventLoop for TLC: a second of two microseconds, so that the sum of     *)
(* exactly one second comes up; timeouts of more and of less than one, or  *)
(* of three as in the code; sessions that outlast the timer.               *)
(***************************************************************************)
EXTENDS EventLoop

================================================================================
