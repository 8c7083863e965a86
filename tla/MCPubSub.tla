------------------------------ MODULE MCPubSub ------------------------------
(***************************************************************************)
(* Symmetry for the TLC runs of PubSub.                                    *)
(***************************************************************************)
EXTENDS PubSub, TLC

Symmetric == Permutations(Publisher \ TryPublisher) \cup Permutations(Subscriber)
=============================================================================
