------------------------------ MODULE KeyMutex ------------------------------
(***************************************************************************)
(* pkg/boot/keymutex.go: a mutex per key.  The map km.locks, guarded by    *)
(* km.mu, leads from a key to a keyEntry: a reference count and a channel  *)
(* of capacity 1.  To own the key is to have the one message in the        *)
(* channel.  Entries are created by the first Lock of a key and deleted    *)
(* when the last reference goes.                                           *)
(*                                                                         *)
(* A step of this module is one critical section of km.mu or one channel   *)
(* operation.  The caller's discipline is that of sync.Mutex: a goroutine  *)
(* locks a key it does not hold and unlocks a key it holds, or one nobody  *)
(* has an entry for (Unlock then returns at once).                         *)
(***************************************************************************)
EXTENDS Naturals, FiniteSets

CONSTANTS Proc,     \* goroutines
          Key,      \* keys
          Entry,    \* addresses of keyEntry objects
          NoEntry,  \* a key absent from km.locks, a nil *keyEntry
          NoProc, NoKey

ASSUME ProcAssumption == IsFiniteSet(Proc) /\ NoProc \notin Proc
ASSUME EntryAssumption == NoEntry \notin Entry
ASSUME KeyAssumption == NoKey \notin Key

VARIABLES locks,  \* km.locks
          ref,    \* e.ref
          full,   \* e.ch holds its message
          pc,     \* where the goroutine is in Lock or Unlock
          arg,    \* the key of its current call
          ent,    \* e, the entry it found
          done,   \* its ctx is done
          held    \* the keys whose Lock returned nil, not unlocked since

vars == <<locks, ref, full, pc, arg, ent, done, held>>

Locations == {"idle", "try", "wait", "cancel", "drain"}

Init == /\ locks = [k \in Key |-> NoEntry]
        /\ ref = [e \in Entry |-> 0]
        /\ full = [e \in Entry |-> FALSE]
        /\ pc = [p \in Proc |-> "idle"]
        /\ arg = [p \in Proc |-> NoKey]
        /\ ent = [p \in Proc |-> NoEntry]
        /\ done = [p \in Proc |-> FALSE]
        /\ held = [p \in Proc |-> {}]

\* An address the allocator may hand out: no map slot and no stack frame
\* refers to it.
Fresh(e) == /\ \A k \in Key : locks[k] # e
            /\ \A p \in Proc : ent[p] # e

\* The call of p is over.
Return(p) == /\ pc' = [pc EXCEPT ![p] = "idle"]
             /\ arg' = [arg EXCEPT ![p] = NoKey]
             /\ ent' = [ent EXCEPT ![p] = NoEntry]

\* e.ref--, and delete(km.locks, k) when that leaves zero.
Deref(e, k) == /\ ref' = [ref EXCEPT ![e] = @ - 1]
               /\ locks' = IF ref[e] = 1 THEN [locks EXCEPT ![k] = NoEntry]
                                         ELSE locks

\* Mutant of Register: a caller that finds an entry is not counted.
RegisterUncounted(p, k) ==
    /\ pc[p] = "idle"
    /\ k \notin held[p]
    /\ \E e \in Entry :
          /\ \/ /\ locks[k] = e
                /\ UNCHANGED <<locks, ref, full>>
             \/ /\ locks[k] = NoEntry
                /\ Fresh(e)
                /\ locks' = [locks EXCEPT ![k] = e]
                /\ ref' = [ref EXCEPT ![e] = 1]
                /\ full' = [full EXCEPT ![e] = FALSE]
          /\ ent' = [ent EXCEPT ![p] = e]
    /\ pc' = [pc EXCEPT ![p] = "try"]
    /\ arg' = [arg EXCEPT ![p] = k]
    /\ UNCHANGED <<done, held>>

\* Lock, first critical section: find or create the entry, count the caller.
Register(p, k) ==
    /\ pc[p] = "idle"
    /\ k \notin held[p]
    /\ \E e \in Entry :
          /\ \/ /\ locks[k] = e
                /\ ref' = [ref EXCEPT ![e] = @ + 1]
                /\ UNCHANGED <<locks, full>>
             \/ /\ locks[k] = NoEntry
                /\ Fresh(e)
                /\ locks' = [locks EXCEPT ![k] = e]
                /\ ref' = [ref EXCEPT ![e] = 1]
                /\ full' = [full EXCEPT ![e] = FALSE]
          /\ ent' = [ent EXCEPT ![p] = e]
    /\ pc' = [pc EXCEPT ![p] = "try"]
    /\ arg' = [arg EXCEPT ![p] = k]
    /\ UNCHANGED <<done, held>>

\* The send e.ch <- struct{}{} succeeds and Lock returns nil.
Send(p) == /\ ~full[ent[p]]
           /\ full' = [full EXCEPT ![ent[p]] = TRUE]
           /\ held' = [held EXCEPT ![p] = @ \cup {arg[p]}]
           /\ Return(p)
           /\ UNCHANGED <<locks, ref, done>>

\* The first select: a send that does not block, whatever the context says.
TrySend(p) == /\ pc[p] = "try"
              /\ Send(p)

TryFails(p) == /\ pc[p] = "try"
               /\ full[ent[p]]
               /\ pc' = [pc EXCEPT ![p] = "wait"]
               /\ UNCHANGED <<locks, ref, full, arg, ent, done, held>>

\* The second select: the send, or ctx.Done().
WaitSend(p) == /\ pc[p] = "wait"
               /\ Send(p)

\* Mutant of WaitDone: the context counts only once the channel is free.
WaitDoneLate(p) == /\ pc[p] = "wait"
                   /\ done[p] /\ ~full[ent[p]]
                   /\ pc' = [pc EXCEPT ![p] = "cancel"]
                   /\ UNCHANGED <<locks, ref, full, arg, ent, done, held>>

WaitDone(p) == /\ pc[p] = "wait"
               /\ done[p]
               /\ pc' = [pc EXCEPT ![p] = "cancel"]
               /\ UNCHANGED <<locks, ref, full, arg, ent, done, held>>

\* Mutant of GiveUp: a cancelled Lock takes a message out of the channel.
GiveUpDrains(p) == /\ pc[p] = "cancel"
                   /\ Deref(ent[p], arg[p])
                   /\ full' = [full EXCEPT ![ent[p]] = FALSE]
                   /\ Return(p)
                   /\ UNCHANGED <<done, held>>

\* Second critical section of a cancelled Lock, which returns ctx.Err().
GiveUp(p) == /\ pc[p] = "cancel"
             /\ Deref(ent[p], arg[p])
             /\ Return(p)
             /\ UNCHANGED <<full, done, held>>

\* Unlock, critical section.
Unlock(p, k) ==
    /\ pc[p] = "idle"
    /\ k \in held[p]
    /\ locks[k] # NoEntry
    /\ Deref(locks[k], k)
    /\ held' = [held EXCEPT ![p] = @ \ {k}]
    /\ pc' = [pc EXCEPT ![p] = "drain"]
    /\ ent' = [ent EXCEPT ![p] = locks[k]]
    /\ arg' = [arg EXCEPT ![p] = k]
    /\ UNCHANGED <<full, done>>

\* Unlock of a key without an entry returns at once.
UnlockAbsent(p, k) == /\ pc[p] = "idle"
                      /\ locks[k] = NoEntry
                      /\ held' = [held EXCEPT ![p] = @ \ {k}]
                      /\ UNCHANGED <<locks, ref, full, pc, arg, ent, done>>

\* Mutant of Drain: the message stays in the channel.
DrainNothing(p) == /\ pc[p] = "drain"
                   /\ Return(p)
                   /\ UNCHANGED <<locks, ref, full, done, held>>

\* <-e.ch
Drain(p) == /\ pc[p] = "drain"
            /\ full[ent[p]]
            /\ full' = [full EXCEPT ![ent[p]] = FALSE]
            /\ Return(p)
            /\ UNCHANGED <<locks, ref, done, held>>

\* The caller's context: it expires at any time, and another call may bring
\* another context.
Expire(p) == /\ ~done[p]
             /\ done' = [done EXCEPT ![p] = TRUE]
             /\ UNCHANGED <<locks, ref, full, pc, arg, ent, held>>

NewContext(p) == /\ pc[p] = "idle"
                 /\ done[p]
                 /\ done' = [done EXCEPT ![p] = FALSE]
                 /\ UNCHANGED <<locks, ref, full, pc, arg, ent, held>>

\* The steps that Lock and Unlock take by themselves once called.
Proceed(p) == TrySend(p) \/ TryFails(p) \/ WaitSend(p) \/ WaitDone(p)
                \/ GiveUp(p) \/ Drain(p)

Next == \E p \in Proc :
            \/ Proceed(p)
            \/ Expire(p) \/ NewContext(p)
            \/ \E k \in Key : Register(p, k) \/ Unlock(p, k) \/ UnlockAbsent(p, k)

Spec == Init /\ [][Next]_vars

\* The Go scheduler runs every goroutine that can run, and a channel serves
\* its blocked senders first come first served: a sender that waits on a
\* channel emptied again and again gets its turn.
Fairness == \A p \in Proc : /\ WF_vars(Proceed(p))
                            /\ SF_vars(WaitSend(p))

FairSpec == Spec /\ Fairness
-----------------------------------------------------------------------------
TypeOK == /\ locks \in [Key -> Entry \cup {NoEntry}]
          /\ ref \in [Entry -> Nat]
          /\ full \in [Entry -> BOOLEAN]
          /\ pc \in [Proc -> Locations]
          /\ arg \in [Proc -> Key \cup {NoKey}]
          /\ ent \in [Proc -> Entry \cup {NoEntry}]
          /\ done \in [Proc -> BOOLEAN]
          /\ held \in [Proc -> SUBSET Key]

Locking(p) == pc[p] \in {"try", "wait", "cancel"}

\* The goroutines with a stake in k: inside Lock(k), or holding k.
Users(k) == {p \in Proc : k \in held[p] \/ (Locking(p) /\ arg[p] = k)}

\* Two goroutines never hold the same key, although the entry of a key is
\* deleted and created anew while others are still inside Lock or Unlock
\* with the old one.
MutualExclusion ==
    \A p, q \in Proc : held[p] \cap held[q] # {} => p = q

\* The reference count is exact: a key has an entry iff some goroutine has a
\* stake in it, and the entry counts them.  Too low a count deletes an entry
\* that is in use, too high a count leaks it.
RefExact ==
    \A k \in Key : IF locks[k] = NoEntry
                   THEN Users(k) = {}
                   ELSE ref[locks[k]] = Cardinality(Users(k)) /\ Users(k) # {}

\* The receive at the end of Unlock, made after km.mu is released, always
\* finds the message: nobody else can have taken it.
DrainReady == \A p \in Proc : pc[p] = "drain" => full[ent[p]]

\* A Lock whose context is done returns, however long others keep the key.
DoneReturns ==
    \A p \in Proc : (Locking(p) /\ done[p]) ~> pc[p] = "idle"
-----------------------------------------------------------------------------
\* The lock of a key passes from its holder when Unlock gives up the
\* reference; the drain that follows is invisible.
owner == [k \in Key |-> IF \E p \in Proc : k \in held[p]
                        THEN CHOOSE p \in Proc : k \in held[p]
                        ELSE NoProc]
want == [p \in Proc |-> IF Locking(p) THEN arg[p] ELSE NoKey]

Abstract == INSTANCE KeyLock WITH owner <- owner, want <- want

\* A KeyMutex implements one lock per key, safety and fairness both.
ImplementsKeyLock == Abstract!Spec
ImplementsFairly == Abstract!FairSpec
=============================================================================
