-------------------------- MODULE MCChannelRegistry --------------------------
(****************************************************************************)
(* TLC instances of ChannelRegistry: two receivers with names of their own, *)
(* or with one name for both, two events, and one name no receiver has.                     *)
(****************************************************************************)
EXTENDS ChannelRegistry, TLC

CONSTANTS a, b, other, j1, j2

TwoReceivers == 1 :> a @@ 2 :> b
SharedName == 1 :> a @@ 2 :> a

=============================================================================
