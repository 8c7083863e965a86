------------------------------ MODULE MCMsgCode -----------------------------
EXTENDS MsgCode, TLC

CONSTANTS s1, s2

\* The properties of the run are invariants.
Symmetry == Permutations(Sender)
=============================================================================
