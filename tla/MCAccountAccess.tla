--------------------------- MODULE MCAccountAccess ----------------------------
(* AccountAccess on a small instance: the sets are model values of the .cfg   *)
(* files.                                                                     *)
EXTENDS AccountAccess, TLC

\* Requests are interchangeable, and so are tokens before they are issued.
Symmetry == Permutations(Requests) \cup Permutations(Tokens)
=============================================================================
