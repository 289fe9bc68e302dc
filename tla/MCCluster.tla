----------------------------- MODULE MCCluster ------------------------------
(* Cluster for model checking: workers and task ids are interchangeable. *)
EXTENDS Cluster

ClusterSymmetry == Permutations(Worker) \cup Permutations(TaskId)
=============================================================================
