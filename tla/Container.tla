------------------------------ MODULE Container -----------------------------
(***************************************************************************)
(* pkg/boot/container.go: values by type.  A type is a base, which may be  *)
(* an interface, under a number of pointers; deps is the sequence of the   *)
(* types of the values provided, each of which is there once.              *)
(***************************************************************************)
EXTENDS Naturals, SequencesExt

CONSTANTS Interface,  \* bases that are interfaces
          Methods,    \* the pairs <<type, interface>> of which the first implements the second
          NilValue    \* a value that is nil

Type(base, depth) == [base |-> base, depth |-> depth]

\* Provide: the values up to the first that is nil or of a type already there.
Providable(deps, vals, k) ==
    vals[k] # NilValue /\ vals[k] \notin ToSet(deps \o SubSeq(vals, 1, k - 1))
Provided(deps, vals) ==
    LET good == {n \in 0..Len(vals) : \A k \in 1..n : Providable(deps, vals, k)}
    IN deps \o SubSeq(vals, 1, Max(good))

\* dependency.resolve: the pointer that is missing is added, one for an
\* interface, any number for a concrete type.
Fits(dep, target) ==
    IF target.base \in Interface
    THEN \E d \in {dep.depth, dep.depth + 1} : <<Type(dep.base, d), target>> \in Methods
    ELSE dep.base = target.base /\ dep.depth <= target.depth

\* resolveTarget: a pointer to an interface is no target.
IsTarget(target) == ~(target.base \in Interface /\ target.depth > 0)

\* Invoke fills the targets one by one, up to the first without exactly one
\* dependency that fits.
Resolves(deps, target) ==
    IsTarget(target) /\ \E dep \in ToSet(deps) :
        \A other \in ToSet(deps) : Fits(other, target) <=> other = dep
Invoked(deps, targets) ==
    LET good == {n \in 0..Len(targets) : \A k \in 1..n : Resolves(deps, targets[k])}
    IN SubSeq(targets, 1, Max(good))
=============================================================================
