----------------------------- MODULE MCTaskList -----------------------------
(* TaskList for model checking: addresses and threads are interchangeable. *)
EXTENDS TaskList, TLC

AddressSymmetry == Permutations(Node) \cup Permutations(Thread)
=============================================================================
