---------------------------- MODULE MCScanPipeline ----------------------------
(* ScanPipeline on a small instance: the sets are model values of the .cfg    *)
(* files.                                                                     *)
EXTENDS ScanPipeline, TLC

\* Workers are interchangeable, and so are scans before they are requested.
Symmetry == Permutations(Workers) \cup Permutations(Jobs)
=============================================================================
