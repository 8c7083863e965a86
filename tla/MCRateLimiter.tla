---------------------------- MODULE MCRateLimiter ---------------------------
(***************************************************************************)
(* Rules and symmetry for the TLC run of RateLimiter.                      *)
(***************************************************************************)
EXTENDS RateLimiter, TLC

CONSTANTS i1, c1, r1, r2, r3, a, b

OneCaller == c1 :> i1
\* Two versions of one rule, and another rule that admits more.
Fields == r1 :> a @@ r2 :> a @@ r3 :> b
Totals == [r \in Rule |-> IF r = r3 THEN 2 ELSE 1]

Symmetric == Permutations(Request)
=============================================================================
