-------------------------- MODULE MCMultiKeyLocker --------------------------
(***************************************************************************)
(* Argument lists for the TLC run of MultiKeyLocker.                       *)
(***************************************************************************)
EXTENDS MultiKeyLocker

\* In opposite orders, with a repetition; with one key in common; and empty.
MCCalls == {<<2, 1>>, <<1, 2, 1>>, <<3, 2>>, <<>>}

\* Entry addresses are interchangeable, so the allocator may as well hand out
\* the first one that is free.
FirstFit == \A k \in Key : locks'[k] # NoEntry /\ locks'[k] # locks[k]
                => \A e \in Entry : Fresh(e) => locks'[k] <= e
=============================================================================
