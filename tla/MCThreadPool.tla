---------------------------- MODULE MCThreadPool ----------------------------
(* An instance of ThreadPool for TLC: two workers and one other thread, all *)
(* of which add tasks, and three tasks.                                    *)
EXTENDS ThreadPool

=============================================================================
