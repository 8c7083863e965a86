------------------------------- MODULE RedLock ------------------------------
(***************************************************************************)
(* pkg/red/redlock: a lock in Redis, a key with a lifetime that holds the  *)
(* random value of the Locker that took it.  Lock is SET NX, retried a     *)
(* number of times; Unlock is a script that deletes the key if the value   *)
(* is its own.  One key; no two Lockers have the same value.               *)
(*                                                                         *)
(* A call to Redis may be answered, or its command or its reply is lost or *)
(* late; go-redis then sends it again, up to MaxResend times, or the call  *)
(* returns an error, and a late command may still be executed.             *)
(***************************************************************************)
EXTENDS Naturals

CONSTANTS Locker,
          TTL,        \* opt.ttl, in ticks
          Retries,    \* opt.retries
          MaxResend,  \* go-redis' MaxRetries
          NoKey

ASSUME RedLockAssumption == /\ TTL \in Nat \ {0} /\ Retries \in Nat
                            /\ MaxResend \in Nat /\ NoKey \notin Locker

VARIABLES value, left,  \* the key: whose value it holds, or NoKey; ticks until it expires
          pc,           \* "idle", "try", "wait", "held" or "unlock"
          tries,        \* the i of Lock
          sends,        \* commands sent again for the present call
          res,          \* what the last call has returned
          late,         \* late commands, <<locker, "lock" or "unlock">>
          \* history
          lease         \* ticks of TTL left since the locker sent its SET

vars == <<value, left, pc, tries, sends, res, late, lease>>

Init == /\ value = NoKey /\ left = 0
        /\ pc = [l \in Locker |-> "idle"]
        /\ tries = [l \in Locker |-> 0]
        /\ sends = [l \in Locker |-> 0]
        /\ res = [l \in Locker |-> "none"]
        /\ late = {}
        /\ lease = [l \in Locker |-> 0]
-----------------------------------------------------------------------------
Go(l, place) == pc' = [pc EXCEPT ![l] = place]
Finish(l, r) == Go(l, "idle") /\ res' = [res EXCEPT ![l] = r]

\* A command that has not been answered is sent again, or the call fails.
SendAgain(l) == \/ /\ sends[l] < MaxResend
                   /\ sends' = [sends EXCEPT ![l] = @ + 1]
                   /\ UNCHANGED <<pc, res>>
                \/ Finish(l, "error") /\ UNCHANGED sends

\* Mutant of SetNX: the key has no lifetime.
SetForever(l) == IF value = NoKey THEN value' = l /\ left' = 0
                                  ELSE UNCHANGED <<value, left>>

\* SET key value NX PX ttl
SetNX(l) == IF value = NoKey THEN value' = l /\ left' = TTL
                             ELSE UNCHANGED <<value, left>>

\* Mutant of CompareDelete: whoever holds the key.
DeleteAlways(l) == value' = NoKey /\ left' = 0

\* luaUnlock
CompareDelete(l) == IF value = l THEN value' = NoKey /\ left' = 0
                                 ELSE UNCHANGED <<value, left>>

\* Lock or TryLock, which is the last attempt of a Lock.  The callers do not
\* use a Locker again while a lost Unlock of it may still come.
Call(l, first) ==
    /\ pc[l] = "idle" /\ <<l, "unlock">> \notin late
    /\ Go(l, "try")
    /\ tries' = [tries EXCEPT ![l] = first]
    /\ sends' = [sends EXCEPT ![l] = 0]
    /\ lease' = [lease EXCEPT ![l] = TTL]
    /\ UNCHANGED <<value, left, res, late>>

CallLock(l) == Call(l, 0)
CallTryLock(l) == Call(l, Retries)

\* The SET of TryLock is executed and answered.
Attempt(l) ==
    /\ pc[l] = "try"
    /\ SetNX(l)
    /\ \/ value = NoKey /\ Go(l, "held") /\ res' = [res EXCEPT ![l] = "ok"]
       \/ value # NoKey /\ tries[l] < Retries /\ Go(l, "wait") /\ UNCHANGED res
       \/ value # NoKey /\ tries[l] = Retries /\ Finish(l, "failed")
    /\ UNCHANGED <<tries, sends, late, lease>>

\* The command, or its reply, is lost; or the command is late.
AttemptLost(l) ==
    /\ pc[l] = "try"
    /\ SendAgain(l)
    /\ \/ SetNX(l) /\ UNCHANGED late
       \/ UNCHANGED <<value, left, late>>
       \/ late' = late \cup {<<l, "lock">>} /\ UNCHANGED <<value, left>>
    /\ UNCHANGED <<tries, lease>>

\* Mutant of Retry: the attempts are not counted.
RetryUncounted(l) ==
    /\ pc[l] = "wait"
    /\ Go(l, "try")
    /\ sends' = [sends EXCEPT ![l] = 0]
    /\ lease' = [lease EXCEPT ![l] = TTL]
    /\ UNCHANGED <<value, left, tries, res, late>>

\* The delay is over.
Retry(l) ==
    /\ pc[l] = "wait"
    /\ Go(l, "try")
    /\ tries' = [tries EXCEPT ![l] = @ + 1]
    /\ sends' = [sends EXCEPT ![l] = 0]
    /\ lease' = [lease EXCEPT ![l] = TTL]
    /\ UNCHANGED <<value, left, res, late>>

\* The context is done.
Cancelled(l) ==
    /\ pc[l] = "wait"
    /\ Finish(l, "error")
    /\ UNCHANGED <<value, left, tries, sends, late, lease>>
-----------------------------------------------------------------------------
\* By the holder; that the lease is over does not keep it from calling.
CallUnlock(l) ==
    /\ pc[l] = "held"
    /\ Go(l, "unlock")
    /\ sends' = [sends EXCEPT ![l] = 0]
    /\ UNCHANGED <<value, left, tries, res, late, lease>>

\* The script is executed and answered.
Unlock(l) ==
    /\ pc[l] = "unlock"
    /\ CompareDelete(l)
    /\ Finish(l, IF value = l THEN "ok" ELSE "not owner")
    /\ UNCHANGED <<tries, sends, late, lease>>

UnlockLost(l) ==
    /\ pc[l] = "unlock"
    /\ SendAgain(l)
    /\ \/ CompareDelete(l) /\ UNCHANGED late
       \/ UNCHANGED <<value, left, late>>
       \/ late' = late \cup {<<l, "unlock">>} /\ UNCHANGED <<value, left>>
    /\ UNCHANGED <<tries, lease>>

\* A late command is executed, or never.
Arrive(l, command) ==
    /\ <<l, command>> \in late
    /\ late' = late \ {<<l, command>>}
    /\ \/ command = "lock" /\ SetNX(l)
       \/ command = "unlock" /\ CompareDelete(l)
       \/ UNCHANGED <<value, left>>
    /\ UNCHANGED <<pc, tries, sends, res, lease>>

\* Time passes; the key expires when its lifetime is over.
Tick ==
    /\ left' = IF left > 0 THEN left - 1 ELSE 0
    /\ value' = IF left = 1 THEN NoKey ELSE value
    /\ lease' = [l \in Locker |-> IF lease[l] > 0 THEN lease[l] - 1 ELSE 0]
    /\ UNCHANGED <<pc, tries, sends, res, late>>

Proceed(l) == Attempt(l) \/ AttemptLost(l) \/ Retry(l) \/ Cancelled(l)
              \/ Unlock(l) \/ UnlockLost(l)

Next == \/ \E l \in Locker : \/ CallLock(l) \/ CallTryLock(l) \/ CallUnlock(l)
                             \/ Proceed(l)
                             \/ \E command \in {"lock", "unlock"} : Arrive(l, command)
        \/ Tick

Spec == Init /\ [][Next]_vars

\* Calls that are under way go on, and time passes; nobody has to call.
FairSpec == Spec /\ (\A l \in Locker : WF_vars(Proceed(l))) /\ WF_vars(Tick)
-----------------------------------------------------------------------------
TypeOK == /\ value \in Locker \cup {NoKey} /\ left \in 0..TTL
          /\ pc \in [Locker -> {"idle", "try", "wait", "held", "unlock"}]
          /\ tries \in [Locker -> 0..Retries]
          /\ sends \in [Locker -> 0..MaxResend]
          /\ res \in [Locker -> {"none", "ok", "failed", "error", "not owner"}]
          /\ late \subseteq Locker \X {"lock", "unlock"}
          /\ lease \in [Locker -> 0..TTL]

\* Between the nil of its Lock and its Unlock, for TTL after it sent the SET.
Holds(l) == pc[l] = "held" /\ lease[l] > 0

\* Whatever expires, is lost, repeated or late: a Locker that has the lock has
\* it in Redis, for the rest of its lease, so no other has it as well.
LeaseOwned == \A l \in Locker : Holds(l) => value = l /\ left >= lease[l]

\* A Lock ends after its retries whoever has the lock, and so does an Unlock.
CallsReturn == \A l \in Locker : pc[l] \in {"try", "wait", "unlock"} ~> pc[l] \in {"idle", "held"}

\* No Locker keeps the lock for ever, not even one that is never told that it
\* has it, or that never calls Unlock.
LockPassesOn == \A l \in Locker : value = l ~> value # l
=============================================================================
