------------------------------ MODULE MCJobQueue ------------------------------
(* JobQueue on a small instance: the sets are model values of the .cfg files. *)
EXTENDS JobQueue, TLC

\* Workers are interchangeable, and so are jobs before they are enqueued.
Symmetry == Permutations(Workers) \cup Permutations(Jobs)
=============================================================================
