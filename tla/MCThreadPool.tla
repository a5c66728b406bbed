---------------------------- MODULE MCThreadPool ----------------------------
(* The instances of ThreadPool for TLC. *)
EXTENDS ThreadPool

CONSTANTS t1, t2, a, b, c

TwoThreads == {t1, t2}
TwoTasks == {a, b}
ThreeTasks == {a, b, c}
=============================================================================
