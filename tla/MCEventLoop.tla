---------------------------- MODULE MCEventLoop -----------------------------
(* The instance of EventLoop for TLC. *)
EXTENDS EventLoop

CONSTANTS a, b, c

ThreeTasks == {a, b, c}
=============================================================================
