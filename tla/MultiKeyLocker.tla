--------------------------- MODULE MultiKeyLocker ---------------------------
(***************************************************************************)
(* pkg/boot/keymutex.go, MultiKeyLocker: several keys of one KeyMutex are  *)
(* locked one after the other in ascending order and unlocked in           *)
(* descending order; a Lock whose context is done midway unlocks what it   *)
(* has taken.  Every step is a step of KeyMutex together with a step of    *)
(* the loop that calls it.                                                 *)
(***************************************************************************)
EXTENDS KeyMutex, SequencesExt

CONSTANT Calls  \* the argument lists given to Locker, which may repeat a key

ASSUME OrderAssumption == Key \subseteq Nat /\ Calls \subseteq Seq(Key)

VARIABLES mode,  \* where the goroutine is in the life of its locker
          keys,  \* ml.keys
          i      \* the loop variable of Lock, its rollback, or Unlock

mlvars == <<vars, mode, keys, i>>

MLInit == /\ Init
          /\ mode = [p \in Proc |-> "none"]
          /\ keys = [p \in Proc |-> <<>>]
          /\ i = [p \in Proc |-> 0]

\* Mutant of Ordered: repetitions go, the order of the list stays.
OrderedAsGiven(list) ==
    LET n == Cardinality(ToSet(list)) IN
    {s \in [1..n -> ToSet(list)] : ToSet(s) = ToSet(list)}

\* Locker: no key twice (n is the number of different keys), and in ascending
\* order.  There is exactly one such sequence.
Ordered(list) ==
    LET n == Cardinality(ToSet(list)) IN
    {s \in [1..n -> ToSet(list)] : \A a, b \in 1..n : a < b => s[a] < s[b]}

\* km.Locker(ctx, list...) and the call of Lock.
Begin(p, list) ==
    /\ mode[p] = "none"
    /\ \E s \in Ordered(list) : keys' = [keys EXCEPT ![p] = s]
    /\ i' = [i EXCEPT ![p] = 1]
    /\ mode' = [mode EXCEPT ![p] = IF list = <<>> THEN "owned" ELSE "locking"]
    /\ UNCHANGED vars

\* ml.km.Lock(ctx, key) is called, ...
LockKey(p) == /\ mode[p] = "locking"
              /\ Register(p, keys[p][i[p]])
              /\ UNCHANGED <<mode, keys, i>>

LockProgress(p) == /\ TryFails(p) \/ WaitDone(p)
                   /\ UNCHANGED <<mode, keys, i>>

\* ... and returns nil, ...
Locked(p) == /\ mode[p] = "locking"
             /\ TrySend(p) \/ WaitSend(p)
             /\ i' = [i EXCEPT ![p] = @ + 1]
             /\ mode' = [mode EXCEPT ![p] =
                            IF i[p] = Len(keys[p]) THEN "owned" ELSE @]
             /\ UNCHANGED keys

\* The loops that go down to 0 leave the last key and stop.
CountDown(p, from) ==
    /\ i' = [i EXCEPT ![p] = from - 1]
    /\ mode' = [mode EXCEPT ![p] = IF from = 1 THEN "none" ELSE @]

\* Mutant of Failed: the rollback begins one key too low.
FailedTooLow(p) == /\ mode[p] = "locking"
                   /\ GiveUp(p)
                   /\ i' = [i EXCEPT ![p] = @ - 2]
                   /\ mode' = [mode EXCEPT ![p] = IF i[p] <= 2 THEN "none" ELSE "rollback"]
                   /\ UNCHANGED keys

\* ... or an error: j runs from i - 1 down to 0.
Failed(p) == /\ mode[p] = "locking"
             /\ GiveUp(p)
             /\ i' = [i EXCEPT ![p] = @ - 1]
             /\ mode' = [mode EXCEPT ![p] = IF i[p] = 1 THEN "none" ELSE "rollback"]
             /\ UNCHANGED keys

\* The owner calls Unlock.
BeginUnlock(p) == /\ mode[p] = "owned"
                  /\ i' = [i EXCEPT ![p] = Len(keys[p])]
                  /\ mode' = [mode EXCEPT ![p] =
                                IF keys[p] = <<>> THEN "none" ELSE "unlocking"]
                  /\ UNCHANGED <<vars, keys>>

UnlockKey(p) == /\ mode[p] \in {"rollback", "unlocking"}
                /\ \/ /\ Unlock(p, keys[p][i[p]])
                      /\ UNCHANGED <<mode, i>>
                   \/ /\ UnlockAbsent(p, keys[p][i[p]])
                      /\ CountDown(p, i[p])
                /\ UNCHANGED keys

Unlocked(p) == /\ mode[p] \in {"rollback", "unlocking"}
               /\ Drain(p)
               /\ CountDown(p, i[p])
               /\ UNCHANGED keys

\* One context serves a whole Lock.
ContextStep(p) == /\ \/ Expire(p)
                     \/ mode[p] = "none" /\ NewContext(p)
                  /\ UNCHANGED <<mode, keys, i>>

\* What a goroutine does without a decision of its caller.
Advance(p) == LockKey(p) \/ LockProgress(p) \/ Locked(p) \/ Failed(p)
                \/ UnlockKey(p) \/ Unlocked(p)

MLNext == \E p \in Proc :
            \/ Advance(p)
            \/ BeginUnlock(p)
            \/ ContextStep(p)
            \/ \E list \in Calls : Begin(p, list)

MLSpec == MLInit /\ [][MLNext]_mlvars

\* As in KeyMutex; and an owner sooner or later unlocks.
MLFairness ==
    \A p \in Proc : /\ WF_mlvars(Advance(p))
                    /\ SF_mlvars(Locked(p))
                    /\ WF_mlvars(BeginUnlock(p))

MLFairSpec == MLSpec /\ MLFairness
-----------------------------------------------------------------------------
MLTypeOK == /\ TypeOK
            /\ mode \in [Proc -> {"none", "locking", "owned", "rollback", "unlocking"}]
            /\ keys \in [Proc -> Seq(Key)]
            /\ i \in [Proc -> Nat]

\* The first n keys of the locker.
Prefix(p, n) == {keys[p][j] : j \in 1..n}

\* A locker holds all of its keys when Lock has returned nil and none after
\* an error or Unlock, whatever the order of its list and its repetitions;
\* in between it holds a prefix.
AllOrNothing ==
    \A p \in Proc :
        /\ mode[p] = "owned" => held[p] = Prefix(p, Len(keys[p]))
        /\ mode[p] = "none" => held[p] = {}
        /\ mode[p] \in {"locking", "rollback", "unlocking"} =>
               \E n \in 0..Len(keys[p]) : held[p] = Prefix(p, n)

\* The reason why lockers do not deadlock: what a goroutine waits for is
\* greater than whatever it holds.
AscendingWaits ==
    \A p \in Proc : Locking(p) => \A k \in held[p] : k < arg[p]

\* "按固定顺序加锁以避免死锁": without any context expiring, every Lock of a
\* locker returns, whatever lists the others have asked for.
LockerReturns ==
    \A p \in Proc : mode[p] = "locking" ~> mode[p] # "locking"

\* The lockers use the KeyMutex as its specification allows.
UsesKeyMutex == Spec
=============================================================================
