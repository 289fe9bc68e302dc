---------------------------- MODULE MCTaskQueue -----------------------------
(* TaskQueue for model checking: the threads are interchangeable. *)
EXTENDS TaskQueue, TLC

ThreadSymmetry == Permutations(Thread)
=============================================================================
