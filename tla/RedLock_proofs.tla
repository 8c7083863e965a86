---------------------------- MODULE RedLock_proofs --------------------------
(***************************************************************************)
(* Proofs about RedLock, for any number of Lockers, any lifetime and any   *)
(* number of retries and of late commands.  That the lock outlasts the     *)
(* lease (LeaseOwned) is inductive with one more fact: no Unlock of a      *)
(* Locker is late when its next Lock is under way or holds the lock        *)
(* (NoneLate), which is what the callers have to see to.                   *)
(***************************************************************************)
EXTENDS RedLock, TLAPS

NoneLate ==
    \A l \in Locker : pc[l] \in {"try", "wait", "held"} => <<l, "unlock">> \notin late

\* For the type of tries: a Lock that waits has an attempt left.
OneMore == \A l \in Locker : pc[l] = "wait" => tries[l] < Retries

IInv == TypeOK /\ NoneLate /\ OneMore /\ LeaseOwned

\* The key after a SET NX or the script, or without either.
KeyStep(l) == SetNX(l) \/ CompareDelete(l) \/ UNCHANGED <<value, left>>
-----------------------------------------------------------------------------
\* Nobody has the lock at first.
LEMMA InitIInv == Init => IInv
<1> SUFFICES ASSUME Init PROVE IInv
    OBVIOUS
<1>1. 0 \in 0..TTL /\ 0 \in 0..Retries /\ 0 \in 0..MaxResend
    BY RedLockAssumption
<1>2. TypeOK
    BY <1>1 DEF Init, TypeOK
<1>3. NoneLate /\ OneMore /\ LeaseOwned
    BY DEF Init, NoneLate, OneMore, LeaseOwned, Holds
<1> QED BY <1>2, <1>3 DEF IInv

\* What the types say of the counters.
LEMMA Counters ==
    ASSUME TypeOK, NEW l \in Locker
    PROVE  /\ TTL \in Nat \ {0} /\ Retries \in Nat /\ MaxResend \in Nat
           /\ left \in Nat /\ left <= TTL
           /\ lease[l] \in Nat /\ lease[l] <= TTL
           /\ tries[l] \in Nat /\ tries[l] <= Retries
           /\ sends[l] \in Nat /\ sends[l] <= MaxResend
<1>1. TTL \in Nat \ {0} /\ Retries \in Nat /\ MaxResend \in Nat
    BY RedLockAssumption
<1>2. left \in 0..TTL /\ lease[l] \in 0..TTL
      /\ tries[l] \in 0..Retries /\ sends[l] \in 0..MaxResend
    BY DEF TypeOK
<1> QED BY <1>1, <1>2

\* SET NX and the script of Unlock leave the key well-formed.
LEMMA KeyType ==
    ASSUME TypeOK, NEW l \in Locker, KeyStep(l)
    PROVE  value' \in Locker \cup {NoKey} /\ left' \in 0..TTL
<1>1. value \in Locker \cup {NoKey} /\ left \in 0..TTL
    BY DEF TypeOK
<1>2. TTL \in 0..TTL /\ 0 \in 0..TTL
    BY RedLockAssumption
<1> QED BY <1>1, <1>2 DEF KeyStep, SetNX, CompareDelete

\* Neither script takes the key from a Locker that is not its own.
LEMMA KeyKept ==
    ASSUME NEW l \in Locker, NEW m \in Locker, l # m, KeyStep(l), value = m
    PROVE  value' = value /\ left' = left
BY RedLockAssumption DEF KeyStep, SetNX, CompareDelete

\* A command that was lost is sent again, or its call ends.
LEMMA SendAgainType ==
    ASSUME TypeOK, NEW l \in Locker, SendAgain(l)
    PROVE  /\ pc' \in [Locker -> {"idle", "try", "wait", "held", "unlock"}]
           /\ res' \in [Locker -> {"none", "ok", "failed", "error", "not owner"}]
           /\ sends' \in [Locker -> 0..MaxResend]
           /\ pc'[l] \in {"idle", pc[l]}
           /\ \A m \in Locker : m # l => pc'[m] = pc[m]
<1>1. CASE UNCHANGED <<pc, res>> /\ sends[l] < MaxResend /\ sends' = [sends EXCEPT ![l] = @ + 1]
    <2>1. sends[l] \in 0..MaxResend /\ sends[l] + 1 \in 0..MaxResend
        BY <1>1, Counters
    <2> QED BY <1>1, <2>1 DEF TypeOK
<1>2. CASE Finish(l, "error") /\ UNCHANGED sends
    BY <1>2 DEF TypeOK, Finish, Go
<1> QED BY <1>1, <1>2 DEF SendAgain
-----------------------------------------------------------------------------
\* Lock begins: its lease counts from here.
LEMMA CallIInv ==
    ASSUME IInv, NEW l \in Locker, NEW first \in 0..Retries, Call(l, first)
    PROVE  IInv'
<1>0. TTL \in 0..TTL /\ 0 \in 0..MaxResend
    BY RedLockAssumption
<1>1. TypeOK'
    BY <1>0 DEF IInv, Call, Go, TypeOK
<1>2. NoneLate'
    BY DEF IInv, Call, Go, TypeOK, NoneLate
<1>4. OneMore'
    BY DEF IInv, Call, Go, TypeOK, OneMore
<1>3. LeaseOwned'
    BY DEF IInv, Call, Go, TypeOK, LeaseOwned, Holds
<1> QED BY <1>1, <1>2, <1>3, <1>4 DEF IInv

\* An answered SET makes a lease only if it wrote the key.
LEMMA AttemptIInv ==
    ASSUME IInv, NEW l \in Locker, Attempt(l)
    PROVE  IInv'
<1> USE DEF IInv
<1>1. value' \in Locker \cup {NoKey} /\ left' \in 0..TTL
    BY KeyType DEF Attempt, KeyStep
<1>2. TypeOK'
    BY <1>1 DEF Attempt, Go, Finish, TypeOK
<1>3. NoneLate'
    BY DEF Attempt, Go, Finish, TypeOK, NoneLate
<1>5. OneMore'
    BY DEF Attempt, Go, Finish, TypeOK, OneMore
<1>4. LeaseOwned'
    <2> SUFFICES ASSUME NEW m \in Locker, Holds(m)'
                 PROVE  value' = m /\ left' >= lease[m]
        BY DEF LeaseOwned, Attempt
    <2>1. CASE m = l
        <3>1. value = NoKey
            BY <2>1 DEF Attempt, Go, Finish, TypeOK, Holds
        <3>2. value' = l /\ left' = TTL
            BY <3>1 DEF Attempt, SetNX
        <3>3. lease[l] <= TTL
            BY Counters
        <3> QED BY <2>1, <3>2, <3>3
    <2>2. CASE m # l
        <3>1. Holds(m)
            BY <2>2 DEF Attempt, Go, Finish, TypeOK, Holds
        <3> QED BY <2>2, <3>1, KeyKept DEF Attempt, KeyStep, LeaseOwned
    <2> QED BY <2>1, <2>2
<1> QED BY <1>2, <1>3, <1>4, <1>5

\* A lost or late SET gives nobody a lease.
LEMMA AttemptLostIInv ==
    ASSUME IInv, NEW l \in Locker, AttemptLost(l)
    PROVE  IInv'
<1> USE DEF IInv
<1>0. KeyStep(l) /\ UNCHANGED <<tries, lease>> /\ SendAgain(l) /\ pc[l] = "try"
      /\ late' \in {late, late \cup {<<l, "lock">>}}
    BY DEF AttemptLost, KeyStep
<1>1. TypeOK'
    <2>1. value' \in Locker \cup {NoKey} /\ left' \in 0..TTL
        BY <1>0, KeyType
    <2>2. late' \subseteq Locker \X {"lock", "unlock"}
        <3>1. late \subseteq Locker \X {"lock", "unlock"}
            BY DEF TypeOK
        <3> QED BY <1>0, <3>1
    <2> QED BY <1>0, <2>1, <2>2, SendAgainType DEF TypeOK
<1>2. NoneLate'
    <2> SUFFICES ASSUME NEW m \in Locker, pc'[m] \in {"try", "wait", "held"}
                 PROVE  <<m, "unlock">> \notin late'
        BY DEF NoneLate
    <2>1. pc[m] \in {"try", "wait", "held"} /\ (m = l => pc[l] = "try")
        BY <1>0, SendAgainType
    <2>2. <<m, "unlock">> \notin late
        BY <2>1 DEF NoneLate
    <2> QED BY <1>0, <2>1, <2>2
<1>4. OneMore'
    BY <1>0, SendAgainType DEF OneMore
<1>3. LeaseOwned'
    <2> SUFFICES ASSUME NEW m \in Locker, Holds(m)'
                 PROVE  value' = m /\ left' >= lease[m]
        BY <1>0 DEF LeaseOwned
    <2>1. m # l /\ Holds(m)
        BY <1>0, SendAgainType DEF Holds
    <2> QED BY <1>0, <2>1, KeyKept DEF LeaseOwned
<1> QED BY <1>1, <1>2, <1>3, <1>4

\* The waits, and the call of Unlock, change no key.
LEMMA OwnIInv ==
    ASSUME IInv, NEW l \in Locker, Retry(l) \/ Cancelled(l) \/ CallUnlock(l)
    PROVE  IInv'
<1> USE DEF IInv
<1>0. /\ TTL \in 0..TTL /\ 0 \in 0..MaxResend
      /\ pc[l] = "wait" => tries[l] + 1 \in 0..Retries
    BY Counters DEF OneMore
<1>1. TypeOK'
    <2>1. CASE Retry(l)
        BY <2>1, <1>0 DEF Retry, Go, TypeOK
    <2>2. CASE Cancelled(l)
        BY <2>2 DEF Cancelled, Go, Finish, TypeOK
    <2>3. CASE CallUnlock(l)
        BY <2>3, <1>0 DEF CallUnlock, Go, TypeOK
    <2> QED BY <2>1, <2>2, <2>3
<1>2. NoneLate'
    BY DEF Retry, Cancelled, CallUnlock, Go, Finish, TypeOK, NoneLate
<1>3. OneMore'
    BY DEF Retry, Cancelled, CallUnlock, Go, Finish, TypeOK, OneMore
<1>4. LeaseOwned'
    BY DEF Retry, Cancelled, CallUnlock, Go, Finish, TypeOK, LeaseOwned, Holds
<1> QED BY <1>1, <1>2, <1>3, <1>4

\* The script of Unlock deletes no key of another Locker.
LEMMA UnlockIInv ==
    ASSUME IInv, NEW l \in Locker, Unlock(l)
    PROVE  IInv'
<1> USE DEF IInv
<1>0. KeyStep(l) /\ pc[l] = "unlock"
    BY DEF Unlock, KeyStep
<1>1. TypeOK'
    BY <1>0, KeyType DEF Unlock, Go, Finish, TypeOK
<1>2. NoneLate' /\ OneMore'
    BY DEF Unlock, Go, Finish, TypeOK, NoneLate, OneMore
<1>3. LeaseOwned'
    <2> SUFFICES ASSUME NEW m \in Locker, Holds(m)'
                 PROVE  value' = m /\ left' >= lease[m]
        BY DEF LeaseOwned, Unlock
    <2>1. m # l /\ Holds(m)
        BY DEF Unlock, Go, Finish, TypeOK, Holds
    <2> QED BY <1>0, <2>1, KeyKept DEF LeaseOwned
<1> QED BY <1>1, <1>2, <1>3

\* Nor does one that is lost, repeated or late.
LEMMA UnlockLostIInv ==
    ASSUME IInv, NEW l \in Locker, UnlockLost(l)
    PROVE  IInv'
<1> USE DEF IInv
<1>0. /\ KeyStep(l) /\ UNCHANGED <<tries, lease>> /\ SendAgain(l) /\ pc[l] = "unlock"
      /\ late' \in {late, late \cup {<<l, "unlock">>}}
    BY DEF UnlockLost, KeyStep, TypeOK
<1>1. TypeOK'
    <2>1. value' \in Locker \cup {NoKey} /\ left' \in 0..TTL
        BY <1>0, KeyType
    <2>2. late' \subseteq Locker \X {"lock", "unlock"}
        <3>1. late \subseteq Locker \X {"lock", "unlock"}
            BY DEF TypeOK
        <3> QED BY <1>0, <3>1
    <2> QED BY <1>0, <2>1, <2>2, SendAgainType DEF TypeOK
<1>2. NoneLate'
    <2> SUFFICES ASSUME NEW m \in Locker, pc'[m] \in {"try", "wait", "held"}
                 PROVE  <<m, "unlock">> \notin late'
        BY DEF NoneLate
    <2>1. pc[m] \in {"try", "wait", "held"} /\ (m = l => pc[l] = "try")
        BY <1>0, SendAgainType
    <2>2. <<m, "unlock">> \notin late
        BY <2>1 DEF NoneLate
    <2> QED BY <1>0, <2>1, <2>2
<1>3. OneMore'
    BY <1>0, SendAgainType DEF OneMore
<1>4. LeaseOwned'
    <2> SUFFICES ASSUME NEW m \in Locker, Holds(m)'
                 PROVE  value' = m /\ left' >= lease[m]
        BY <1>0 DEF LeaseOwned
    <2>1. m # l /\ Holds(m)
        BY <1>0, SendAgainType DEF Holds
    <2> QED BY <1>0, <2>1, KeyKept DEF LeaseOwned
<1> QED BY <1>1, <1>2, <1>3, <1>4

\* A late command takes no key from a Locker whose lease runs.
LEMMA ArriveIInv ==
    ASSUME IInv, NEW l \in Locker, NEW command \in {"lock", "unlock"}, Arrive(l, command)
    PROVE  IInv'
<1> USE DEF IInv
<1>0. KeyStep(l) /\ UNCHANGED <<pc, tries, sends, res, lease>> /\ late' \subseteq late
    BY DEF Arrive, KeyStep
<1>1. TypeOK'
    BY <1>0, KeyType DEF TypeOK
<1>2. NoneLate' /\ OneMore'
    BY <1>0 DEF NoneLate, OneMore
<1>3. LeaseOwned'
    <2> SUFFICES ASSUME NEW m \in Locker, Holds(m)
                 PROVE  value' = m /\ left' >= lease[m]
        BY <1>0 DEF LeaseOwned, Holds
    <2>1. value = m /\ left >= lease[m] /\ pc[m] = "held"
        BY DEF LeaseOwned, Holds
    <2>2. CASE m # l
        BY <1>0, <2>1, <2>2, KeyKept
    <2>3. CASE m = l
        <3>1. command = "lock"
            BY <2>1, <2>3 DEF Arrive, NoneLate
        <3>2. UNCHANGED <<value, left>>
            BY <2>1, <3>1, RedLockAssumption DEF Arrive, SetNX
        <3> QED BY <2>1, <3>2
    <2> QED BY <2>2, <2>3
<1> QED BY <1>1, <1>2, <1>3

\* A lease ends no later than its key.
LEMMA TickIInv ==
    ASSUME IInv, Tick
    PROVE  IInv'
<1> USE DEF IInv
<1>0. /\ TTL \in Nat /\ left \in 0..TTL
      /\ \A l \in Locker : lease[l] \in 0..TTL
    BY RedLockAssumption DEF TypeOK
<1>1. TypeOK'
    <2>1. left' \in 0..TTL
        BY <1>0 DEF Tick
    <2>2. lease' \in [Locker -> 0..TTL]
        BY <1>0 DEF Tick
    <2>3. value' \in Locker \cup {NoKey}
        BY DEF Tick, TypeOK
    <2> QED BY <2>1, <2>2, <2>3 DEF Tick, TypeOK
<1>2. NoneLate' /\ OneMore'
    BY DEF Tick, NoneLate, OneMore
<1>3. LeaseOwned'
    <2> SUFFICES ASSUME NEW m \in Locker, Holds(m)'
                 PROVE  value' = m /\ left' >= lease'[m]
        BY DEF LeaseOwned
    <2>1. pc[m] = "held" /\ lease'[m] > 0 /\ lease[m] > 1 /\ lease'[m] = lease[m] - 1
        BY <1>0 DEF Tick, Holds
    <2>2. value = m /\ left >= lease[m]
        BY <1>0, <2>1 DEF LeaseOwned, Holds
    <2> QED BY <1>0, <2>1, <2>2 DEF Tick
<1> QED BY <1>1, <1>2, <1>3
-----------------------------------------------------------------------------
\* The invariant is inductive.
LEMMA NextIInv == IInv /\ [Next]_vars => IInv'
<1> SUFFICES ASSUME IInv, [Next]_vars PROVE IInv'
    OBVIOUS
<1>1. CASE \E l \in Locker : CallLock(l) \/ CallTryLock(l)
    BY <1>1, CallIInv, RedLockAssumption DEF CallLock, CallTryLock
<1>2. CASE \E l \in Locker : CallUnlock(l) \/ Proceed(l)
    BY <1>2, AttemptIInv, AttemptLostIInv, OwnIInv, UnlockIInv, UnlockLostIInv DEF Proceed
<1>3. CASE \E l \in Locker : \E command \in {"lock", "unlock"} : Arrive(l, command)
    BY <1>3, ArriveIInv
<1>4. CASE Tick
    BY <1>4, TickIInv
<1>5. CASE UNCHANGED vars
    BY <1>5 DEF vars, IInv, TypeOK, NoneLate, OneMore, LeaseOwned, Holds
<1> QED BY <1>1, <1>2, <1>3, <1>4, <1>5 DEF Next

\* The variables of the lock keep their types.
THEOREM LockTyped == Spec => []TypeOK
<1>1. IInv => TypeOK
    BY DEF IInv
<1> QED BY <1>1, InitIInv, NextIInv, PTL DEF Spec

\* A Locker that has the lock has it in Redis for the rest of its lease, so no
\* two have it at once (luaUnlock, redlock.go:28).
THEOREM LockOwned == Spec => []LeaseOwned
<1>1. IInv => LeaseOwned
    BY DEF IInv
<1> QED BY <1>1, InitIInv, NextIInv, PTL DEF Spec
=============================================================================
