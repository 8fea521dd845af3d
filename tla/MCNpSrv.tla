------------------------------ MODULE MCNpSrv ------------------------------
(* Small instances of NpSrv: worker threads, and tags, are interchangeable. *)
EXTENDS NpSrv, TLC

Symmetry == Permutations(Workers) \cup Permutations(Tags)

============================================================================
