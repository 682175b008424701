-------------------------- MODULE MCReachoutServer --------------------------
(* Instance of ReachoutServer for TLC.                                     *)
EXTENDS ReachoutServer, TLC

CONSTANTS sarah, tom, c1, c2, c3, t1, t2, t3

\* Phones, slots and tokens are alike.
Symmetry ==
  Permutations(Phones) \cup Permutations(Calls) \cup Permutations(Tokens)

=============================================================================
