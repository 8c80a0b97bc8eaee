---------------------------- MODULE MCThreadPool ----------------------------
(* ThreadPool on small sets of threads and tasks.                          *)
EXTENDS ThreadPool
=============================================================================
