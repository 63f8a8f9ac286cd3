---------------------------- MODULE MCSolveJobs ----------------------------
(* Model-checking instance of SolveJobs: the client threads and the job    *)
(* ids are interchangeable.                                                *)
EXTENDS SolveJobs, TLC

Symmetry == Permutations(Clients) \cup Permutations(Jobs)
=============================================================================
