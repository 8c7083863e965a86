------------------------------ MODULE KeyLock ------------------------------
(***************************************************************************)
(* What a KeyMutex promises (pkg/boot/keymutex.go): one independent mutual *)
(* exclusion lock per key.  A goroutine that wants a key gets it when no   *)
(* one owns it, or gives up when its context is done; nothing that happens *)
(* on another key matters.                                                 *)
(***************************************************************************)
CONSTANTS Proc,    \* goroutines
          Key,     \* keys
          NoProc,  \* the owner of a free key
          NoKey    \* what a goroutine wants when it is not inside Lock

VARIABLES owner,   \* owner[k]: the goroutine that holds k
          want     \* want[p]: the key that p is waiting for

vars == <<owner, want>>

Init == /\ owner = [k \in Key |-> NoProc]
        /\ want = [p \in Proc |-> NoKey]

Request(p, k) == /\ want[p] = NoKey
                 /\ owner[k] # p
                 /\ want' = [want EXCEPT ![p] = k]
                 /\ UNCHANGED owner

Acquire(p) == /\ want[p] # NoKey
              /\ owner[want[p]] = NoProc
              /\ owner' = [owner EXCEPT ![want[p]] = p]
              /\ want' = [want EXCEPT ![p] = NoKey]

Abandon(p) == /\ want[p] # NoKey
              /\ want' = [want EXCEPT ![p] = NoKey]
              /\ UNCHANGED owner

Release(p, k) == /\ want[p] = NoKey
                 /\ owner[k] = p
                 /\ owner' = [owner EXCEPT ![k] = NoProc]
                 /\ UNCHANGED want

Next == \E p \in Proc :
            \/ Acquire(p)
            \/ Abandon(p)
            \/ \E k \in Key : Request(p, k) \/ Release(p, k)

Spec == Init /\ [][Next]_vars

\* A goroutine that waits for ever does so because the key is, from some time
\* on, never free.
NoStarvation ==
    \A p \in Proc, k \in Key :
        <>[](want[p] = k) => <>[](owner[k] # NoProc)

FairSpec == Spec /\ NoStarvation
=============================================================================
