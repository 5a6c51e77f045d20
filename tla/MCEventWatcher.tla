---------------------------- MODULE MCEventWatcher ----------------------------
(****************************************************************************)
(* EventWatcher for TLC: two objects, of two names and kinds or one after   *)
(* the other of the same name.                                              *)
(****************************************************************************)
EXTENDS EventWatcher, TLC

CONSTANTS n1, n2, pod, node

MCKindOf == [n \in {n1, n2} |-> IF n = n1 THEN pod ELSE node]

Symmetry == Permutations(Uid)

=============================================================================
