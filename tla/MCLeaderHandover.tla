--------------------------- MODULE MCLeaderHandover ---------------------------
(****************************************************************************)
(* LeaderHandover for TLC: interchangeable replicas.                        *)
(****************************************************************************)
EXTENDS LeaderHandover, TLC

Symmetry == Permutations(Replica)

=============================================================================
