------------------------------ MODULE MCSpSrv ------------------------------
(* Instances of SpSrv for TLC.                                             *)
EXTENDS SpSrv

\* The connections, tags and fids are interchangeable.
Symmetry == Permutations(Conns) \cup Permutations(Tags) \cup Permutations(Fids)

=============================================================================
