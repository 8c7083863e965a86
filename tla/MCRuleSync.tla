----------------------------- MODULE MCRuleSync -----------------------------
(***************************************************************************)
(* Callers and rules for the TLC runs of RuleSync.                         *)
(***************************************************************************)
EXTENDS RuleSync, TLC

CONSTANTS i1, c1, c2, r1, r2, r3, r4, a, b

\* Two callers on one instance.
OneHome == c1 :> i1 @@ c2 :> i1
\* Two pairs of rules that replace each other.
Fields == r1 :> a @@ r2 :> a @@ r3 :> b @@ r4 :> b
=============================================================================
