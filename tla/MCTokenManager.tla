--------------------------- MODULE MCTokenManager ---------------------------
(***************************************************************************)
(* Options, bounds and symmetry for the TLC run of TokenManager.           *)
(***************************************************************************)
EXTENDS TokenManager, TLC

CONSTANT MaxNow  \* the run ends at this time

InTime == now <= MaxNow

\* With WithUnique; and without, where an access token outlives its session.
MCOptions == {[unique |-> TRUE, accessTtl |-> 1, refreshTtl |-> 2],
              [unique |-> FALSE, accessTtl |-> 2, refreshTtl |-> 1]}

Symmetric == Permutations(Client) \cup Permutations(User) \cup Permutations(Id)
=============================================================================
