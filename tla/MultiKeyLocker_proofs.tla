----------------------- MODULE MultiKeyLocker_proofs -----------------------
(***************************************************************************)
(* Proofs about KeyMutex, for any finite set of goroutines, any keys and   *)
(* any supply of entry addresses, and about MultiKeyLocker, for any keys   *)
(* that are numbers and any argument lists.                                *)
(*                                                                         *)
(* The inductive invariant IInv of KeyMutex says which entry each          *)
(* goroutine's pointer leads to and who has a right to the message of each *)
(* channel; mutual exclusion and the exactness of the reference count      *)
(* depend on each other and are proved together.                           *)
(*                                                                         *)
(* The loop invariant of MultiKeyLocker ties the keys a goroutine holds to *)
(* its loop variable; it also gives that the lockers take only steps that  *)
(* KeyMutex allows, so what is proved about KeyMutex holds while lockers   *)
(* use it.                                                                 *)
(***************************************************************************)
EXTENDS MultiKeyLocker, FiniteSetTheorems, TLAPS

\* A stack frame inside Lock points to the entry of its key; one inside Unlock
\* points to an entry with a full channel.
FramesOK ==
    \A p \in Proc :
        /\ pc[p] = "idle" => ent[p] = NoEntry
        /\ Locking(p) => /\ arg[p] \in Key
                         /\ arg[p] \notin held[p]
                         /\ ent[p] \in Entry
                         /\ locks[arg[p]] = ent[p]
        /\ pc[p] = "drain" => ent[p] \in Entry /\ full[ent[p]]

\* A held key has an entry and its channel is full.
HeldOK ==
    \A p \in Proc : \A k \in held[p] : locks[k] \in Entry /\ full[locks[k]]

Injective ==
    \A k, l \in Key : locks[k] # NoEntry /\ locks[k] = locks[l] => k = l

\* One message, one goroutine entitled to receive it.
OneHolder ==
    \A p, q \in Proc : \A k \in Key : k \in held[p] /\ k \in held[q] => p = q

HolderOrDrainer ==
    \A p, q \in Proc : \A k \in held[p] : pc[q] = "drain" => ent[q] # locks[k]

OneDrainer ==
    \A p, q \in Proc : pc[p] = "drain" /\ pc[q] = "drain" /\ ent[p] = ent[q]
                          => p = q

Struct == FramesOK /\ HeldOK /\ Injective /\ OneHolder /\ HolderOrDrainer
            /\ OneDrainer

IInv == TypeOK /\ Struct /\ RefExact

-----------------------------------------------------------------------------
\* Every step keeps the types, given that frames point to real entries.
LEMMA TypeStep == TypeOK /\ Struct /\ RefExact /\ [Next]_vars => TypeOK'
<1> SUFFICES ASSUME TypeOK, Struct, RefExact, [Next]_vars PROVE TypeOK'
  OBVIOUS
<1> USE DEF TypeOK, Locations
<1>0. CASE UNCHANGED vars
  BY <1>0 DEF vars
<1>u. ASSUME NEW k \in Key, locks[k] # NoEntry
      PROVE  locks[k] \in Entry /\ ref[locks[k]] \in Nat \ {0}
  <2>1. IsFiniteSet(Users(k)) /\ Users(k) # {}
    BY <1>u, ProcAssumption, FS_Subset DEF RefExact, Users
  <2>2. Cardinality(Users(k)) \in Nat \ {0}
    BY <2>1, FS_CardinalityType, FS_EmptySet
  <2> QED BY <2>2, <1>u DEF RefExact
<1>1. ASSUME NEW p \in Proc, NEW k \in Key, Register(p, k) PROVE TypeOK'
  <2>1. PICK e \in Entry :
          /\ \/ /\ locks[k] = e
                /\ ref' = [ref EXCEPT ![e] = @ + 1]
                /\ UNCHANGED <<locks, full>>
             \/ /\ locks' = [locks EXCEPT ![k] = e]
                /\ ref' = [ref EXCEPT ![e] = 1]
                /\ full' = [full EXCEPT ![e] = FALSE]
          /\ ent' = [ent EXCEPT ![p] = e]
    BY <1>1 DEF Register
  <2>2. /\ pc' = [pc EXCEPT ![p] = "try"]
        /\ arg' = [arg EXCEPT ![p] = k]
        /\ UNCHANGED <<done, held>>
    BY <1>1 DEF Register
  <2>3. ref' \in [Entry -> Nat]
    BY <2>1
  <2>4. locks' \in [Key -> Entry \cup {NoEntry}] /\ full' \in [Entry -> BOOLEAN]
    BY <2>1
  <2> QED BY <2>1, <2>2, <2>3, <2>4
<1>2. ASSUME NEW p \in Proc, TrySend(p) \/ WaitSend(p) PROVE TypeOK'
  <2>1. arg[p] \in Key /\ ent[p] \in Entry
    BY <1>2 DEF TrySend, WaitSend, Struct, FramesOK, Locking
  <2>2. /\ full' = [full EXCEPT ![ent[p]] = TRUE]
        /\ held' = [held EXCEPT ![p] = @ \cup {arg[p]}]
        /\ Return(p)
        /\ UNCHANGED <<locks, ref, done>>
    BY <1>2 DEF TrySend, WaitSend, Send
  <2>3. full' \in [Entry -> BOOLEAN] /\ held' \in [Proc -> SUBSET Key]
    BY <2>1, <2>2
  <2> QED BY <2>2, <2>3 DEF Return
<1>3. ASSUME NEW p \in Proc, TryFails(p) \/ WaitDone(p) PROVE TypeOK'
  BY <1>3 DEF TryFails, WaitDone
<1>4. ASSUME NEW p \in Proc, GiveUp(p) PROVE TypeOK'
  <2>1. arg[p] \in Key /\ ent[p] = locks[arg[p]] /\ ent[p] \in Entry
    BY <1>4 DEF GiveUp, Struct, FramesOK, Locking
  <2>2. ref[ent[p]] \in Nat \ {0}
    BY <2>1, <1>u, EntryAssumption
  <2> QED BY <1>4, <2>1, <2>2 DEF GiveUp, Deref, Return
<1>5. ASSUME NEW p \in Proc, NEW k \in Key, Unlock(p, k) PROVE TypeOK'
  <2>1. locks[k] \in Entry /\ ref[locks[k]] \in Nat \ {0}
    BY <1>5, <1>u DEF Unlock
  <2> QED BY <1>5, <2>1 DEF Unlock, Deref
<1>6. ASSUME NEW p \in Proc, NEW k \in Key, UnlockAbsent(p, k) PROVE TypeOK'
  BY <1>6 DEF UnlockAbsent
<1>7. ASSUME NEW p \in Proc, Drain(p) PROVE TypeOK'
  <2>1. /\ full' = [full EXCEPT ![ent[p]] = FALSE]
        /\ Return(p)
        /\ UNCHANGED <<locks, ref, done, held>>
    BY <1>7 DEF Drain
  <2>2. full' \in [Entry -> BOOLEAN]
    BY <2>1
  <2> QED BY <2>1, <2>2 DEF Return
<1>8. ASSUME NEW p \in Proc, Expire(p) \/ NewContext(p) PROVE TypeOK'
  BY <1>8 DEF Expire, NewContext
<1> QED BY <1>0, <1>1, <1>2, <1>3, <1>4, <1>5, <1>6, <1>7, <1>8 DEF Next, Proceed

-----------------------------------------------------------------------------
\* The entry of a key that has users counts at least one of them.
LEMMA RefPositive ==
    ASSUME TypeOK, RefExact, NEW k \in Key, locks[k] # NoEntry
    PROVE  /\ locks[k] \in Entry
           /\ ref[locks[k]] \in Nat \ {0}
           /\ IsFiniteSet(Users(k))
<1>1. IsFiniteSet(Users(k)) /\ Users(k) # {}
  BY ProcAssumption, FS_Subset DEF RefExact, Users
<1>2. Cardinality(Users(k)) \in Nat \ {0}
  BY <1>1, FS_CardinalityType, FS_EmptySet
<1> QED BY <1>1, <1>2 DEF RefExact, TypeOK

\* A reference count of 1 leaves one user.
LEMMA LastUser ==
    ASSUME TypeOK, RefExact, NEW k \in Key, locks[k] # NoEntry,
           ref[locks[k]] = 1, NEW p \in Users(k)
    PROVE  Users(k) = {p}
<1>1. IsFiniteSet(Users(k)) /\ Cardinality(Users(k)) = 1
  BY RefPositive DEF RefExact
<1>2. PICK x : Users(k) = {x}
  BY <1>1, FS_Singleton
<1> QED BY <1>2

\* No step makes two keys share an entry, or loses a message or an owner.
LEMMA StructStep == TypeOK /\ Struct /\ RefExact /\ [Next]_vars => Struct'
<1> SUFFICES ASSUME TypeOK, Struct, RefExact, [Next]_vars PROVE Struct'
  OBVIOUS
<1>t. TypeOK'
  BY TypeStep
<1>0. CASE UNCHANGED vars
  BY <1>0 DEF vars, Struct, FramesOK, Locking, HeldOK, Injective, OneHolder,
              HolderOrDrainer, OneDrainer
<1> USE DEF Struct, Locking
<1>1. ASSUME NEW p \in Proc, NEW k \in Key, Register(p, k) PROVE Struct'
  <2>1. PICK e \in Entry :
          /\ \/ /\ locks[k] = e
                /\ UNCHANGED <<locks, full>>
             \/ /\ locks[k] = NoEntry
                /\ Fresh(e)
                /\ locks' = [locks EXCEPT ![k] = e]
                /\ full' = [full EXCEPT ![e] = FALSE]
          /\ ent' = [ent EXCEPT ![p] = e]
    BY <1>1 DEF Register
  <2>2. /\ pc[p] = "idle" /\ k \notin held[p]
        /\ pc' = [pc EXCEPT ![p] = "try"]
        /\ arg' = [arg EXCEPT ![p] = k]
        /\ held' = held
    BY <1>1 DEF Register
  <2>3. \A q \in Proc : \A l \in held[q] : l \in Key /\ locks'[l] = locks[l]
                                              /\ (locks[l] # e \/ full' = full)
    BY <2>1, EntryAssumption DEF HeldOK, TypeOK, Fresh
  <2>f. \A q \in Proc : ent[q] # e \/ full' = full
    BY <2>1 DEF Fresh
  <2>4. \A q \in Proc : q # p => /\ pc'[q] = pc[q] /\ arg'[q] = arg[q]
                                  /\ ent'[q] = ent[q]
                                  /\ (ent[q] # e \/ full' = full)
    BY <2>1, <2>2, <2>f DEF TypeOK
  <2>5. locks'[k] = e /\ pc'[p] = "try" /\ arg'[p] = k /\ ent'[p] = e
    BY <2>1, <2>2 DEF TypeOK
  <2>6. FramesOK'
    BY <2>1, <2>2, <2>4, <2>5, EntryAssumption DEF FramesOK, TypeOK
  <2>7. HeldOK'
    BY <2>1, <2>2, <2>3 DEF HeldOK, TypeOK
  <2>8. Injective'
    BY <2>1, <2>5 DEF Injective, TypeOK, Fresh
  <2>9. OneHolder' /\ HolderOrDrainer' /\ OneDrainer'
    BY <2>2, <2>3, <2>4, <2>5 DEF OneHolder, HolderOrDrainer, OneDrainer, TypeOK
  <2> QED BY <2>6, <2>7, <2>8, <2>9
<1>2. ASSUME NEW p \in Proc, TrySend(p) \/ WaitSend(p) PROVE Struct'
  <2>1. /\ arg[p] \in Key /\ ent[p] \in Entry /\ locks[arg[p]] = ent[p]
        /\ arg[p] \notin held[p]
    BY <1>2 DEF TrySend, WaitSend, FramesOK
  <2>2. /\ ~full[ent[p]]
        /\ full' = [full EXCEPT ![ent[p]] = TRUE]
        /\ held' = [held EXCEPT ![p] = @ \cup {arg[p]}]
        /\ pc' = [pc EXCEPT ![p] = "idle"]
        /\ arg' = [arg EXCEPT ![p] = NoKey]
        /\ ent' = [ent EXCEPT ![p] = NoEntry]
        /\ locks' = locks
    BY <1>2 DEF TrySend, WaitSend, Send, Return
  <2>3. \A q \in Proc : \A l \in held[q] : l # arg[p] /\ locks[l] # ent[p]
    BY <2>1, <2>2 DEF HeldOK, TypeOK
  <2>4. \A q \in Proc : pc[q] = "drain" => ent[q] # ent[p]
    BY <2>2 DEF FramesOK
  <2>5. \A q \in Proc : q # p => /\ pc'[q] = pc[q] /\ arg'[q] = arg[q]
                                  /\ ent'[q] = ent[q] /\ held'[q] = held[q]
    BY <2>2 DEF TypeOK
  <2>6. /\ pc'[p] = "idle" /\ ent'[p] = NoEntry
        /\ held'[p] = held[p] \cup {arg[p]}
    BY <2>2 DEF TypeOK
  <2>7. \A e \in Entry : full[e] => full'[e]
    BY <2>2 DEF TypeOK
  <2>8. FramesOK'
    BY <2>2, <2>5, <2>6, <2>7 DEF FramesOK, TypeOK
  <2>9. HeldOK'
    BY <2>1, <2>2, <2>5, <2>6, <2>7 DEF HeldOK, TypeOK
  <2>10. Injective'
    BY <2>2 DEF Injective
  <2>11. OneHolder'
    BY <2>3, <2>5, <2>6 DEF OneHolder
  <2>12. HolderOrDrainer'
    BY <2>1, <2>2, <2>4, <2>5, <2>6 DEF HolderOrDrainer
  <2>13. OneDrainer'
    BY <2>5, <2>6 DEF OneDrainer
  <2> QED BY <2>8, <2>9, <2>10, <2>11, <2>12, <2>13
<1>3. ASSUME NEW p \in Proc, TryFails(p) \/ WaitDone(p) PROVE Struct'
  <2>1. /\ pc[p] \in {"try", "wait"}
        /\ pc' \in {[pc EXCEPT ![p] = "wait"], [pc EXCEPT ![p] = "cancel"]}
        /\ UNCHANGED <<locks, ref, full, arg, ent, done, held>>
    BY <1>3 DEF TryFails, WaitDone
  <2>2. /\ pc'[p] \in {"wait", "cancel"}
        /\ \A q \in Proc : q # p => pc'[q] = pc[q]
    BY <2>1 DEF TypeOK
  <2> QED BY <2>1, <2>2 DEF FramesOK, HeldOK, Injective, OneHolder,
                            HolderOrDrainer, OneDrainer
<1>8. ASSUME NEW p \in Proc, Expire(p) \/ NewContext(p) PROVE Struct'
  BY <1>8 DEF Expire, NewContext, FramesOK, HeldOK, Injective, OneHolder,
              HolderOrDrainer, OneDrainer
<1>4. ASSUME NEW p \in Proc, GiveUp(p) PROVE Struct'
  <2>1. /\ arg[p] \in Key /\ ent[p] \in Entry /\ locks[arg[p]] = ent[p]
        /\ p \in Users(arg[p]) /\ locks[arg[p]] # NoEntry
    BY <1>4, EntryAssumption DEF GiveUp, FramesOK, Users
  <2>2. /\ locks' = IF ref[ent[p]] = 1 THEN [locks EXCEPT ![arg[p]] = NoEntry]
                                       ELSE locks
        /\ pc' = [pc EXCEPT ![p] = "idle"]
        /\ arg' = [arg EXCEPT ![p] = NoKey]
        /\ ent' = [ent EXCEPT ![p] = NoEntry]
        /\ UNCHANGED <<full, held>>
    BY <1>4 DEF GiveUp, Deref, Return
  <2>3. ref[ent[p]] = 1 => Users(arg[p]) = {p}
    BY <2>1, LastUser
  <2>4. arg[p] \notin held[p]
    BY <1>4 DEF GiveUp, FramesOK
  <2>5. \A l \in Key : \/ locks'[l] = locks[l]
                        \/ /\ l = arg[p]
                           /\ locks'[l] = NoEntry
                           /\ Users(l) = {p}
    BY <2>1, <2>2, <2>3 DEF TypeOK
  <2>6. \A q \in Proc : q # p => /\ pc'[q] = pc[q] /\ arg'[q] = arg[q]
                                  /\ ent'[q] = ent[q]
                                  /\ (Locking(q) => locks'[arg[q]] = locks[arg[q]])
    BY <2>2, <2>5 DEF TypeOK, FramesOK, Users
  <2>7. \A q \in Proc : \A l \in held[q] : locks'[l] = locks[l]
    BY <2>4, <2>5 DEF TypeOK, Users
  <2>8. pc'[p] = "idle" /\ ent'[p] = NoEntry
    BY <2>2 DEF TypeOK
  <2>9. FramesOK'
    BY <2>2, <2>6, <2>8 DEF FramesOK
  <2>10. HeldOK' /\ HolderOrDrainer' /\ OneHolder' /\ OneDrainer'
    BY <2>2, <2>6, <2>7, <2>8 DEF HeldOK, HolderOrDrainer, OneHolder, OneDrainer
  <2>11. Injective'
    BY <2>5 DEF Injective
  <2> QED BY <2>9, <2>10, <2>11
<1>5. ASSUME NEW p \in Proc, NEW k \in Key, Unlock(p, k) PROVE Struct'
  <2>1. /\ k \in held[p] /\ locks[k] \in Entry /\ locks[k] # NoEntry
        /\ p \in Users(k) /\ pc[p] = "idle" /\ full[locks[k]]
    BY <1>5 DEF Unlock, HeldOK, Users
  <2>2. /\ locks' = IF ref[locks[k]] = 1 THEN [locks EXCEPT ![k] = NoEntry]
                                         ELSE locks
        /\ held' = [held EXCEPT ![p] = @ \ {k}]
        /\ pc' = [pc EXCEPT ![p] = "drain"]
        /\ ent' = [ent EXCEPT ![p] = locks[k]]
        /\ arg' = [arg EXCEPT ![p] = k]
        /\ UNCHANGED full
    BY <1>5 DEF Unlock, Deref
  <2>3. ref[locks[k]] = 1 => Users(k) = {p}
    BY <2>1, LastUser
  <2>4. \A l \in Key : \/ locks'[l] = locks[l]
                        \/ /\ l = k
                           /\ locks'[l] = NoEntry
                           /\ Users(l) = {p}
    BY <2>1, <2>2, <2>3 DEF TypeOK
  <2>5. \A q \in Proc : q # p => /\ pc'[q] = pc[q] /\ arg'[q] = arg[q]
                                  /\ ent'[q] = ent[q] /\ held'[q] = held[q]
                                  /\ (Locking(q) => locks'[arg[q]] = locks[arg[q]])
    BY <2>2, <2>4 DEF TypeOK, FramesOK, Users
  <2>6. /\ pc'[p] = "drain" /\ ent'[p] = locks[k]
        /\ held'[p] = held[p] \ {k}
    BY <2>2 DEF TypeOK
  <2>7. \A q \in Proc : \A l \in held'[q] : /\ l # k /\ l \in held[q] /\ l \in Key
                                              /\ locks'[l] = locks[l]
                                              /\ locks[l] # locks[k]
    BY <2>1, <2>4, <2>5, <2>6 DEF TypeOK, OneHolder, Injective, HeldOK
  <2>8. FramesOK'
    BY <2>1, <2>2, <2>5, <2>6 DEF FramesOK
  <2>9. HeldOK' /\ OneHolder'
    BY <2>2, <2>5, <2>6, <2>7 DEF HeldOK, OneHolder
  <2>10. HolderOrDrainer'
    BY <2>2, <2>5, <2>6, <2>7 DEF HolderOrDrainer
  <2>11. OneDrainer'
    BY <2>1, <2>5, <2>6 DEF HolderOrDrainer, OneDrainer
  <2>12. Injective'
    BY <2>4 DEF Injective
  <2> QED BY <2>8, <2>9, <2>10, <2>11, <2>12
<1>6. ASSUME NEW p \in Proc, NEW k \in Key, UnlockAbsent(p, k) PROVE Struct'
  <2>1. k \notin held[p]
    BY <1>6, EntryAssumption DEF UnlockAbsent, HeldOK
  <2>2. held' = held
    BY <1>6, <2>1 DEF UnlockAbsent, TypeOK
  <2> QED BY <1>6, <2>2 DEF UnlockAbsent, FramesOK, HeldOK, Injective, OneHolder,
                            HolderOrDrainer, OneDrainer
<1>7. ASSUME NEW p \in Proc, Drain(p) PROVE Struct'
  <2>1. /\ pc[p] = "drain" /\ ent[p] \in Entry
        /\ full' = [full EXCEPT ![ent[p]] = FALSE]
        /\ pc' = [pc EXCEPT ![p] = "idle"]
        /\ arg' = [arg EXCEPT ![p] = NoKey]
        /\ ent' = [ent EXCEPT ![p] = NoEntry]
        /\ UNCHANGED <<locks, held>>
    BY <1>7 DEF Drain, Return, FramesOK
  <2>2. \A q \in Proc : q # p => /\ pc'[q] = pc[q] /\ arg'[q] = arg[q]
                                  /\ ent'[q] = ent[q]
    BY <2>1 DEF TypeOK
  <2>3. pc'[p] = "idle" /\ ent'[p] = NoEntry
    BY <2>1 DEF TypeOK
  <2>4. \A e \in Entry : e # ent[p] => full'[e] = full[e]
    BY <2>1 DEF TypeOK
  <2>5. FramesOK'
    BY <2>1, <2>2, <2>3, <2>4 DEF FramesOK, OneDrainer
  <2>6. HeldOK'
    BY <2>1, <2>4 DEF HeldOK, HolderOrDrainer
  <2>7. Injective' /\ OneHolder' /\ HolderOrDrainer' /\ OneDrainer'
    BY <2>1, <2>2, <2>3 DEF Injective, OneHolder, HolderOrDrainer, OneDrainer
  <2> QED BY <2>5, <2>6, <2>7
<1> QED BY <1>0, <1>1, <1>2, <1>3, <1>4, <1>5, <1>6, <1>7, <1>8 DEF Next, Proceed

-----------------------------------------------------------------------------
\* No step miscounts: each that gains or loses a user of a key counts it.
LEMMA RefStep == TypeOK /\ Struct /\ RefExact /\ [Next]_vars => RefExact'
<1> SUFFICES ASSUME TypeOK, Struct, RefExact, [Next]_vars PROVE RefExact'
  OBVIOUS
\* The keys that a step leaves alone keep their count.
<1>s. ASSUME NEW l \in Key, locks'[l] = locks[l], Users(l)' = Users(l),
             locks[l] # NoEntry => ref'[locks[l]] = ref[locks[l]]
      PROVE  IF locks'[l] = NoEntry
             THEN Users(l)' = {}
             ELSE ref'[locks'[l]] = Cardinality(Users(l)') /\ Users(l)' # {}
  BY <1>s DEF RefExact
<1>0. CASE UNCHANGED vars
  BY <1>0 DEF vars, RefExact, Users, Locking
<1>1. ASSUME NEW p \in Proc, NEW k \in Key, Register(p, k) PROVE RefExact'
  <2>1. PICK e \in Entry :
          \/ /\ locks[k] = e
             /\ ref' = [ref EXCEPT ![e] = @ + 1]
             /\ UNCHANGED locks
          \/ /\ locks[k] = NoEntry
             /\ Fresh(e)
             /\ locks' = [locks EXCEPT ![k] = e]
             /\ ref' = [ref EXCEPT ![e] = 1]
    BY <1>1 DEF Register
  <2>2. /\ pc[p] = "idle" /\ k \notin held[p]
        /\ pc' = [pc EXCEPT ![p] = "try"]
        /\ arg' = [arg EXCEPT ![p] = k]
        /\ held' = held
    BY <1>1 DEF Register
  <2>3. Users(k)' = Users(k) \cup {p} /\ p \notin Users(k)
    BY <2>2 DEF Users, Locking, TypeOK
  <2>4. \A l \in Key : l # k => Users(l)' = Users(l)
    BY <2>2 DEF Users, Locking, TypeOK
  <2>5. \A l \in Key : l # k => /\ locks'[l] = locks[l]
                                /\ locks[l] # e
                                /\ (locks[l] # NoEntry => ref'[locks[l]] = ref[locks[l]])
    BY <2>1, EntryAssumption DEF TypeOK, Fresh, Struct, Injective
  <2>6. CASE locks[k] = e
    <3>1. ref'[e] = ref[e] + 1 /\ locks'[k] = e
      BY <2>1, <2>6, EntryAssumption DEF TypeOK
    <3>2. Cardinality(Users(k) \cup {p}) = Cardinality(Users(k)) + 1
      BY <2>3, <2>6, RefPositive, FS_AddElement, EntryAssumption
    <3>3. ref'[locks'[k]] = Cardinality(Users(k)') /\ Users(k)' # {}
      BY <2>3, <2>6, <3>1, <3>2, EntryAssumption DEF RefExact
    <3> QED BY <1>s, <2>4, <2>5, <3>1, <3>3, EntryAssumption DEF RefExact
  <2>7. CASE locks[k] = NoEntry
    <3>1. ref'[e] = 1 /\ locks'[k] = e
      BY <2>1, <2>7, EntryAssumption DEF TypeOK
    <3>2. Users(k)' = {p}
      BY <2>3, <2>7 DEF RefExact
    <3>3. ref'[locks'[k]] = Cardinality(Users(k)') /\ Users(k)' # {}
      BY <3>1, <3>2, FS_Singleton
    <3> QED BY <1>s, <2>4, <2>5, <3>1, <3>3, EntryAssumption DEF RefExact
  <2> QED BY <2>1, <2>6, <2>7
<1>2. ASSUME NEW p \in Proc, TrySend(p) \/ WaitSend(p) PROVE RefExact'
  <2>1. /\ Locking(p) /\ arg[p] \in Key
        /\ held' = [held EXCEPT ![p] = @ \cup {arg[p]}]
        /\ pc' = [pc EXCEPT ![p] = "idle"]
        /\ arg' = [arg EXCEPT ![p] = NoKey]
        /\ UNCHANGED <<locks, ref>>
    BY <1>2 DEF TrySend, WaitSend, Send, Return, Struct, FramesOK, Locking
  <2>2. \A l \in Key : Users(l)' = Users(l)
    BY <2>1, KeyAssumption DEF Users, Locking, TypeOK
  <2> QED BY <2>1, <2>2 DEF RefExact
<1>3. ASSUME NEW p \in Proc, TryFails(p) \/ WaitDone(p) PROVE RefExact'
  <2>1. \A l \in Key : Users(l)' = Users(l)
    BY <1>3 DEF TryFails, WaitDone, Users, Locking, TypeOK
  <2> QED BY <1>3, <2>1 DEF TryFails, WaitDone, RefExact
\* A call that gives up its reference to k.
<1>d. ASSUME NEW p \in Proc, NEW k \in Key, p \in Users(k), locks[k] # NoEntry,
             Deref(locks[k], k),
             Users(k)' = Users(k) \ {p},
             \A l \in Key : l # k => Users(l)' = Users(l)
      PROVE  RefExact'
  <2>1. /\ locks[k] \in Entry /\ ref[locks[k]] \in Nat \ {0}
        /\ IsFiniteSet(Users(k)) /\ ref[locks[k]] = Cardinality(Users(k))
    BY <1>d, RefPositive DEF RefExact
  <2>2. ref'[locks[k]] = ref[locks[k]] - 1
    BY <1>d, <2>1 DEF Deref, TypeOK
  <2>3. \A l \in Key : l # k => /\ locks'[l] = locks[l]
                                /\ (locks[l] # NoEntry => ref'[locks[l]] = ref[locks[l]])
    BY <1>d DEF Deref, TypeOK, Struct, Injective
  <2>4. CASE ref[locks[k]] = 1
    <3>1. Users(k)' = {} /\ locks'[k] = NoEntry
      BY <1>d, <2>4, LastUser DEF Deref, TypeOK
    <3> QED BY <1>d, <1>s, <2>3, <3>1 DEF RefExact
  <2>5. CASE ref[locks[k]] # 1
    <3>1. locks'[k] = locks[k]
      BY <1>d, <2>5 DEF Deref
    <3>2. Cardinality(Users(k) \ {p}) = Cardinality(Users(k)) - 1
      BY <1>d, <2>1, FS_RemoveElement
    <3>3. Users(k)' # {}
      BY <1>d, <2>1, <2>5, <3>2, FS_EmptySet
    <3>4. ref'[locks'[k]] = Cardinality(Users(k)')
      BY <1>d, <2>1, <2>2, <3>1, <3>2
    <3> QED BY <1>d, <1>s, <2>3, <3>1, <3>3, <3>4 DEF RefExact
  <2> QED BY <2>4, <2>5
<1>4. ASSUME NEW p \in Proc, GiveUp(p) PROVE RefExact'
  <2>1. /\ arg[p] \in Key /\ locks[arg[p]] = ent[p] /\ ent[p] # NoEntry
        /\ arg[p] \notin held[p] /\ p \in Users(arg[p])
        /\ Deref(ent[p], arg[p])
    BY <1>4, EntryAssumption DEF GiveUp, Struct, FramesOK, Locking, Users
  <2>2. /\ pc' = [pc EXCEPT ![p] = "idle"]
        /\ arg' = [arg EXCEPT ![p] = NoKey]
        /\ held' = held
    BY <1>4 DEF GiveUp, Return
  <2>3. PICK k \in Key : k = arg[p]
    BY <2>1
  <2>4. Users(k)' = Users(k) \ {p}
    BY <2>1, <2>2, <2>3, KeyAssumption DEF Users, Locking, TypeOK
  <2>5. \A l \in Key : l # k => Users(l)' = Users(l)
    BY <2>1, <2>2, <2>3, KeyAssumption DEF Users, Locking, TypeOK
  <2> QED BY <1>d, <2>1, <2>3, <2>4, <2>5
<1>5. ASSUME NEW p \in Proc, NEW k \in Key, Unlock(p, k) PROVE RefExact'
  <2>1. /\ pc[p] = "idle" /\ k \in held[p] /\ locks[k] # NoEntry
        /\ Deref(locks[k], k)
        /\ held' = [held EXCEPT ![p] = @ \ {k}]
        /\ pc' = [pc EXCEPT ![p] = "drain"]
        /\ arg' = [arg EXCEPT ![p] = k]
    BY <1>5 DEF Unlock
  <2>2. p \in Users(k) /\ Users(k)' = Users(k) \ {p}
    BY <2>1 DEF Users, Locking, TypeOK
  <2>3. \A l \in Key : l # k => Users(l)' = Users(l)
    BY <2>1 DEF Users, Locking, TypeOK
  <2> QED BY <1>d, <2>1, <2>2, <2>3
<1>6. ASSUME NEW p \in Proc, NEW k \in Key, UnlockAbsent(p, k) PROVE RefExact'
  <2>1. k \notin held[p]
    BY <1>6 DEF UnlockAbsent, RefExact, Users
  <2>2. UNCHANGED <<locks, ref, pc, arg, held>>
    BY <1>6, <2>1 DEF UnlockAbsent, TypeOK
  <2> QED BY <2>2 DEF RefExact, Users, Locking
<1>7. ASSUME NEW p \in Proc, Drain(p) PROVE RefExact'
  <2>1. \A l \in Key : Users(l)' = Users(l)
    BY <1>7 DEF Drain, Return, Users, Locking, TypeOK
  <2> QED BY <1>7, <2>1 DEF Drain, RefExact
<1>8. ASSUME NEW p \in Proc, Expire(p) \/ NewContext(p) PROVE RefExact'
  BY <1>8 DEF Expire, NewContext, RefExact, Users, Locking
<1> QED BY <1>0, <1>1, <1>2, <1>3, <1>4, <1>5, <1>6, <1>7, <1>8 DEF Next, Proceed

-----------------------------------------------------------------------------
\* The empty map satisfies the inductive invariant.
LEMMA InitOK == Init => IInv
<1> SUFFICES ASSUME Init PROVE IInv
  OBVIOUS
<1>1. TypeOK /\ Struct
  BY DEF Init, TypeOK, Locations, Struct, FramesOK, Locking, HeldOK, Injective,
         OneHolder, HolderOrDrainer, OneDrainer
<1>2. \A k \in Key : Users(k) = {}
  BY DEF Init, Users, Locking
<1> QED BY <1>1, <1>2 DEF IInv, RefExact, Init

\* The inductive invariant holds in every reachable state.
THEOREM Invariance == Spec => []IInv
<1>1. IInv /\ [Next]_vars => IInv'
  BY TypeStep, StructStep, RefStep DEF IInv
<1> QED BY InitOK, <1>1, PTL DEF Spec

\* km.locks, the entries and the stack frames of Lock and Unlock keep their
\* types: a reference count never becomes negative.
THEOREM TypeCorrect == Spec => []TypeOK
<1>1. IInv => TypeOK
  BY DEF IInv
<1> QED BY Invariance, <1>1, PTL

\* No two goroutines hold a key at the same time, for any number of
\* goroutines and keys, although entries come and go (Lock and Unlock).
THEOREM Exclusion == Spec => []MutualExclusion
<1>1. IInv => MutualExclusion
  <2> SUFFICES ASSUME IInv, NEW p \in Proc, NEW q \in Proc,
                      held[p] \cap held[q] # {}
               PROVE  p = q
    BY DEF MutualExclusion
  <2>1. PICK k \in Key : k \in held[p] /\ k \in held[q]
    BY DEF IInv, TypeOK
  <2> QED BY <2>1 DEF IInv, Struct, OneHolder
<1> QED BY Invariance, <1>1, PTL

\* km.locks holds an entry for exactly the keys in use and ref counts the
\* users: no entry is leaked and none is deleted under a user.
THEOREM ReferenceCount == Spec => []RefExact
<1>1. IInv => RefExact
  BY DEF IInv
<1> QED BY Invariance, <1>1, PTL

\* The receive that ends Unlock never blocks.
THEOREM UnlockNeverBlocks == Spec => []DrainReady
<1>1. IInv => DrainReady
  BY DEF IInv, Struct, FramesOK, DrainReady
<1> QED BY Invariance, <1>1, PTL

-----------------------------------------------------------------------------
\* With one holder per key, owner is well defined.
LEMMA OwnerIs ==
    ASSUME TypeOK, OneHolder, NEW k \in Key
    PROVE  /\ \A p \in Proc : k \in held[p] => owner[k] = p
           /\ (\A p \in Proc : k \notin held[p]) => owner[k] = NoProc
BY DEF owner, OneHolder

\* A step that changes held only for p, and there only at k, changes owner
\* only at k.
LEMMA OwnerStep ==
    ASSUME TypeOK, TypeOK', OneHolder, OneHolder', NEW p \in Proc, NEW k \in Key,
           \A q \in Proc : q # p => held'[q] = held[q],
           k \in held'[p] <=> k \notin held[p],
           \A l \in Key : l # k => (l \in held'[p] <=> l \in held[p])
    PROVE  IF k \in held[p]
           THEN owner[k] = p /\ owner' = [owner EXCEPT ![k] = NoProc]
           ELSE owner[k] = NoProc /\ owner' = [owner EXCEPT ![k] = p]
<1>1. \A l \in Key : l # k => owner'[l] = owner[l]
  <2> SUFFICES ASSUME NEW l \in Key, l # k PROVE owner'[l] = owner[l]
    OBVIOUS
  <2>1. \A q \in Proc : l \in held'[q] <=> l \in held[q]
    OBVIOUS
  <2>2. CASE \E q \in Proc : l \in held[q]
    <3>1. PICK q \in Proc : l \in held[q]
      BY <2>2
    <3>2. owner[l] = q
      BY <3>1, OwnerIs
    <3>3. owner'[l] = q
      BY <2>1, <3>1 DEF owner, OneHolder
    <3> QED BY <3>2, <3>3
  <2>3. CASE \A q \in Proc : l \notin held[q]
    BY <2>1, <2>3 DEF owner
  <2> QED BY <2>2, <2>3
<1>2. CASE k \in held[p]
  <2>1. owner[k] = p
    BY <1>2, OwnerIs
  <2>2. \A q \in Proc : k \notin held'[q]
    BY <1>2 DEF OneHolder
  <2>3. owner'[k] = NoProc
    BY <2>2 DEF owner
  <2>4. owner' = [owner EXCEPT ![k] = NoProc]
    BY <1>1, <2>3 DEF owner
  <2> QED BY <1>2, <2>1, <2>4
<1>3. CASE k \notin held[p]
  <2>1. k \in held'[p] /\ \A q \in Proc : q # p => k \notin held[q]
    BY <1>3 DEF OneHolder
  <2>2. owner[k] = NoProc
    BY <1>3, <2>1, OwnerIs
  <2>3. owner'[k] = p
    BY <2>1 DEF owner, OneHolder
  <2>4. owner' = [owner EXCEPT ![k] = p]
    BY <1>1, <2>3 DEF owner
  <2> QED BY <1>3, <2>2, <2>4
<1> QED BY <1>2, <1>3

\* Every step of Lock and Unlock is a step of one lock per key, or invisible.
LEMMA RefinementStep == IInv /\ IInv' /\ [Next]_vars => [Abstract!Next]_(Abstract!vars)
<1> SUFFICES ASSUME IInv, IInv', [Next]_vars PROVE [Abstract!Next]_(Abstract!vars)
  OBVIOUS
<1> USE DEF IInv, Struct, Abstract!vars
<1>t. TypeOK /\ TypeOK' /\ OneHolder /\ OneHolder'
  OBVIOUS
<1>0. CASE UNCHANGED vars
  BY <1>0 DEF vars, owner, want, Locking
<1>1. ASSUME NEW p \in Proc, NEW k \in Key, Register(p, k)
      PROVE  [Abstract!Next]_(Abstract!vars)
  <2>1. pc[p] = "idle" /\ k \notin held[p] /\ held' = held
        /\ pc' = [pc EXCEPT ![p] = "try"] /\ arg' = [arg EXCEPT ![p] = k]
    BY <1>1 DEF Register
  <2>2. want[p] = NoKey /\ want' = [want EXCEPT ![p] = k]
    BY <2>1 DEF want, Locking, TypeOK
  <2>3. owner' = owner
    BY <2>1 DEF owner
  <2>4. owner[k] # p
    BY <2>1, ProcAssumption DEF owner
  <2> QED BY <2>2, <2>3, <2>4 DEF Abstract!Next, Abstract!Request
<1>2. ASSUME NEW p \in Proc, TrySend(p) \/ WaitSend(p)
      PROVE  [Abstract!Next]_(Abstract!vars)
  <2>1. /\ Locking(p) /\ arg[p] \in Key /\ arg[p] \notin held[p]
        /\ held' = [held EXCEPT ![p] = @ \cup {arg[p]}]
        /\ pc' = [pc EXCEPT ![p] = "idle"] /\ arg' = [arg EXCEPT ![p] = NoKey]
    BY <1>2 DEF TrySend, WaitSend, Send, Return, FramesOK, Locking
  <2>2. want[p] = arg[p] /\ want' = [want EXCEPT ![p] = NoKey]
    BY <2>1 DEF want, Locking, TypeOK
  <2>3. PICK k \in Key : k = arg[p]
    BY <2>1
  <2>4. owner[k] = NoProc /\ owner' = [owner EXCEPT ![k] = p]
    BY <1>t, <2>1, <2>3, OwnerStep DEF TypeOK
  <2> QED BY <2>2, <2>3, <2>4, KeyAssumption DEF Abstract!Next, Abstract!Acquire
<1>3. ASSUME NEW p \in Proc, TryFails(p) \/ WaitDone(p)
      PROVE  [Abstract!Next]_(Abstract!vars)
  <2>1. /\ pc[p] \in {"try", "wait"} /\ UNCHANGED <<held, arg>>
        /\ pc' \in {[pc EXCEPT ![p] = "wait"], [pc EXCEPT ![p] = "cancel"]}
    BY <1>3 DEF TryFails, WaitDone
  <2>2. \A q \in Proc : Locking(q)' = Locking(q)
    BY <2>1 DEF Locking, TypeOK
  <2> QED BY <2>1, <2>2 DEF owner, want
<1>4. ASSUME NEW p \in Proc, GiveUp(p) PROVE [Abstract!Next]_(Abstract!vars)
  <2>1. /\ pc[p] = "cancel" /\ arg[p] \in Key /\ held' = held
        /\ pc' = [pc EXCEPT ![p] = "idle"] /\ arg' = [arg EXCEPT ![p] = NoKey]
    BY <1>4 DEF GiveUp, Return, FramesOK, Locking
  <2>2. want[p] # NoKey /\ want' = [want EXCEPT ![p] = NoKey]
    BY <2>1, KeyAssumption DEF want, Locking, TypeOK
  <2>3. owner' = owner
    BY <2>1 DEF owner
  <2> QED BY <2>2, <2>3 DEF Abstract!Next, Abstract!Abandon
<1>5. ASSUME NEW p \in Proc, NEW k \in Key, Unlock(p, k)
      PROVE  [Abstract!Next]_(Abstract!vars)
  <2>1. /\ pc[p] = "idle" /\ k \in held[p]
        /\ held' = [held EXCEPT ![p] = @ \ {k}]
        /\ pc' = [pc EXCEPT ![p] = "drain"] /\ arg' = [arg EXCEPT ![p] = k]
    BY <1>5 DEF Unlock
  <2>2. want[p] = NoKey /\ want' = want
    BY <2>1 DEF want, Locking, TypeOK
  <2>3. owner[k] = p /\ owner' = [owner EXCEPT ![k] = NoProc]
    BY <1>t, <2>1, OwnerStep DEF TypeOK
  <2> QED BY <2>2, <2>3 DEF Abstract!Next, Abstract!Release
<1>6. ASSUME NEW p \in Proc, NEW k \in Key, UnlockAbsent(p, k)
      PROVE  [Abstract!Next]_(Abstract!vars)
  <2>1. k \notin held[p]
    BY <1>6 DEF UnlockAbsent, RefExact, Users
  <2>2. held' = held /\ UNCHANGED <<pc, arg>>
    BY <1>6, <2>1 DEF UnlockAbsent, TypeOK
  <2> QED BY <2>2 DEF owner, want, Locking
<1>7. ASSUME NEW p \in Proc, Drain(p) PROVE [Abstract!Next]_(Abstract!vars)
  BY <1>7 DEF Drain, Return, owner, want, Locking, TypeOK
<1>8. ASSUME NEW p \in Proc, Expire(p) \/ NewContext(p)
      PROVE  [Abstract!Next]_(Abstract!vars)
  BY <1>8 DEF Expire, NewContext, owner, want, Locking
<1> QED BY <1>0, <1>1, <1>2, <1>3, <1>4, <1>5, <1>6, <1>7, <1>8 DEF Next, Proceed

\* A KeyMutex behaves as one independent lock per key: every step of Lock and
\* Unlock is a step of KeyLock or invisible there.
THEOREM Refinement == Spec => ImplementsKeyLock
<1>1. Init => Abstract!Init
  BY DEF Init, Abstract!Init, owner, want, Locking
<1>2. IInv /\ IInv' /\ [Next]_vars => [Abstract!Next]_(Abstract!vars)
  BY RefinementStep
<1> QED BY Invariance, <1>1, <1>2, PTL DEF Spec, Abstract!Spec, ImplementsKeyLock
-----------------------------------------------------------------------------
Ascending(s) == \A a, b \in 1..Len(s) : a < b => s[a] < s[b]

\* Where the loop variable is, and what is held there.
Loop(p) ==
    /\ keys[p] \in Seq(Key)
    /\ Ascending(keys[p])
    /\ i[p] \in Nat
    /\ mode[p] = "none" => pc[p] = "idle" /\ held[p] = {}
    /\ mode[p] = "owned" => pc[p] = "idle" /\ held[p] = Prefix(p, Len(keys[p]))
    /\ mode[p] = "locking" =>
           /\ i[p] \in 1..Len(keys[p])
           /\ pc[p] # "drain"
           /\ Locking(p) => arg[p] = keys[p][i[p]]
           /\ held[p] = Prefix(p, i[p] - 1)
    /\ mode[p] \in {"rollback", "unlocking"} =>
           /\ i[p] \in 1..Len(keys[p])
           /\ \/ pc[p] = "idle" /\ held[p] = Prefix(p, i[p])
              \/ pc[p] = "drain" /\ held[p] = Prefix(p, i[p] - 1)

Modes == {"none", "locking", "owned", "rollback", "unlocking"}

MLInv == /\ mode \in [Proc -> Modes]
         /\ keys \in [Proc -> Seq(Key)]
         /\ i \in [Proc -> Nat]
         /\ \A p \in Proc : Loop(p)

\* The sequence that Locker builds.
LEMMA OrderedOK ==
    ASSUME NEW list \in Calls, NEW s \in Ordered(list)
    PROVE  s \in Seq(Key) /\ Ascending(s) /\ (list # <<>> => Len(s) \in Nat \ {0})
                          /\ (list = <<>> => Len(s) = 0)
<1> DEFINE n == Cardinality(ToSet(list))
<1>1. list \in Seq(Key) /\ Len(list) \in Nat
  BY OrderAssumption
<1>2. ToSet(list) = {list[j] : j \in 1..Len(list)} /\ ToSet(list) \subseteq Key
  BY <1>1 DEF ToSet
<1>3. IsFiniteSet(ToSet(list))
  <2>1. IsFiniteSet(1..Len(list))
    BY <1>1, FS_Interval
  <2>2. list \in Surjection(1..Len(list), ToSet(list))
    BY <1>1, <1>2 DEF Surjection
  <2> QED BY <2>1, <2>2, FS_Surjection
<1>4. n \in Nat /\ (n = 0 <=> ToSet(list) = {})
  BY <1>3, FS_CardinalityType, FS_EmptySet
<1>5. ToSet(list) = {} <=> list = <<>>
  BY <1>1, <1>2
<1>6. s \in [1..n -> ToSet(list)] /\ \A a, b \in 1..n : a < b => s[a] < s[b]
  BY DEF Ordered
<1>7. s \in Seq(Key) /\ Len(s) = n
  BY <1>2, <1>4, <1>6
<1> QED BY <1>4, <1>5, <1>6, <1>7 DEF Ascending

\* No locker is in a loop at first.
LEMMA MLInitOK == MLInit => MLInv
BY DEF MLInit, MLInv, Loop, Modes, Init, Ascending

\* The steps of the lockers are steps of KeyMutex.
LEMMA LockerStep == MLInv /\ [MLNext]_mlvars => [Next]_vars
<1> SUFFICES ASSUME MLInv, [MLNext]_mlvars PROVE [Next]_vars
  OBVIOUS
<1>1. CASE UNCHANGED mlvars
  BY <1>1 DEF mlvars
<1>2. ASSUME NEW p \in Proc, Advance(p) PROVE [Next]_vars
  <2>1. mode[p] \in {"locking", "rollback", "unlocking"} => keys[p][i[p]] \in Key
    BY DEF MLInv, Loop
  <2>2. CASE LockKey(p)
    BY <2>1, <2>2 DEF LockKey, Next
  <2>3. CASE LockProgress(p) \/ Locked(p) \/ Failed(p)
    BY <2>3 DEF LockProgress, Locked, Failed, Next, Proceed
  <2>4. CASE UnlockKey(p) \/ Unlocked(p)
    BY <2>1, <2>4 DEF UnlockKey, Unlocked, Next, Proceed
  <2> QED BY <1>2, <2>2, <2>3, <2>4 DEF Advance
<1>3. ASSUME NEW p \in Proc, BeginUnlock(p) \/ ContextStep(p) PROVE [Next]_vars
  BY <1>3 DEF BeginUnlock, ContextStep, Next
<1>4. ASSUME NEW p \in Proc, NEW list \in Calls, Begin(p, list) PROVE [Next]_vars
  BY <1>4 DEF Begin
<1> QED BY <1>1, <1>2, <1>3, <1>4 DEF MLNext

\* A step of p leaves the loops of the other goroutines alone.
LEMMA OtherLoops ==
    ASSUME MLInv, NEW p \in Proc, NEW q \in Proc, q # p,
           keys'[q] = keys[q], i'[q] = i[q], mode'[q] = mode[q],
           pc'[q] = pc[q], held'[q] = held[q], arg'[q] = arg[q]
    PROVE  Loop(q)'
<1>1. Loop(q)
  BY DEF MLInv
<1>2. \A n : Prefix(q, n)' = Prefix(q, n)
  BY DEF Prefix
<1>3. Locking(q)' = Locking(q)
  BY DEF Locking
<1> QED BY <1>1, <1>2, <1>3 DEF Loop

\* No step of Lock, its rollback or Unlock breaks the invariant of its loop.
LEMMA MLStep == MLInv /\ IInv /\ IInv' /\ [MLNext]_mlvars => MLInv'
<1> SUFFICES ASSUME MLInv, IInv, IInv', [MLNext]_mlvars PROVE MLInv'
  OBVIOUS
<1>0. CASE UNCHANGED mlvars
  BY <1>0 DEF mlvars, vars, MLInv, Loop, Locking, Prefix
<1>t. TypeOK /\ TypeOK'
  BY DEF IInv
<1>1. ASSUME NEW p \in Proc, LockKey(p) PROVE MLInv'
  <2>1. /\ mode[p] = "locking" /\ UNCHANGED <<mode, keys, i, held>>
        /\ pc' = [pc EXCEPT ![p] = "try"]
        /\ arg' = [arg EXCEPT ![p] = keys[p][i[p]]]
    BY <1>1 DEF LockKey, Register
  <2>2. Loop(p)'
    <3>1. pc'[p] = "try" /\ arg'[p] = keys[p][i[p]]
      BY <1>t, <2>1 DEF TypeOK
    <3> QED BY <2>1, <3>1 DEF MLInv, Loop, Locking, Prefix
  <2>3. \A q \in Proc : q # p => Loop(q)'
    BY <1>t, <2>1, OtherLoops DEF TypeOK
  <2> QED BY <2>1, <2>2, <2>3 DEF MLInv
<1>2. ASSUME NEW p \in Proc, LockProgress(p) PROVE MLInv'
  <2>1. /\ Locking(p) /\ UNCHANGED <<mode, keys, i, held, arg>>
        /\ pc' \in {[pc EXCEPT ![p] = "wait"], [pc EXCEPT ![p] = "cancel"]}
    BY <1>2 DEF LockProgress, TryFails, WaitDone, Locking
  <2>2. mode[p] = "locking"
    BY <2>1 DEF MLInv, Loop, Locking, Modes
  <2>3. pc'[p] \in {"wait", "cancel"} /\ \A q \in Proc : q # p => pc'[q] = pc[q]
    BY <1>t, <2>1 DEF TypeOK
  <2>4. Loop(p)'
    BY <2>1, <2>2, <2>3 DEF MLInv, Loop, Locking, Prefix
  <2>5. \A q \in Proc : q # p => Loop(q)'
    BY <2>1, <2>3, OtherLoops
  <2> QED BY <2>1, <2>4, <2>5 DEF MLInv
<1>3. ASSUME NEW p \in Proc, Locked(p) PROVE MLInv'
  <2>1. /\ mode[p] = "locking" /\ Locking(p)
        /\ held' = [held EXCEPT ![p] = @ \cup {arg[p]}]
        /\ pc' = [pc EXCEPT ![p] = "idle"] /\ arg' = [arg EXCEPT ![p] = NoKey]
        /\ i' = [i EXCEPT ![p] = @ + 1]
        /\ mode' = [mode EXCEPT ![p] = IF i[p] = Len(keys[p]) THEN "owned" ELSE @]
        /\ keys' = keys
    BY <1>3 DEF Locked, TrySend, WaitSend, Send, Return, Locking
  <2>2. /\ keys[p] \in Seq(Key) /\ i[p] \in 1..Len(keys[p]) /\ arg[p] = keys[p][i[p]]
        /\ held[p] = Prefix(p, i[p] - 1) /\ Ascending(keys[p])
    BY <2>1 DEF MLInv, Loop
  <2>3. held'[p] = {keys[p][j] : j \in 1..i[p]}
    <3>1. held'[p] = {keys[p][j] : j \in 1..(i[p] - 1)} \cup {keys[p][i[p]]}
      BY <1>t, <2>1, <2>2 DEF Prefix, TypeOK
    <3> QED BY <2>2, <3>1
  <2>4. /\ i'[p] = i[p] + 1 /\ keys'[p] = keys[p] /\ pc'[p] = "idle"
        /\ mode'[p] = IF i[p] = Len(keys[p]) THEN "owned" ELSE "locking"
    BY <1>t, <2>1 DEF MLInv, TypeOK
  <2>5. Loop(p)'
    BY <2>2, <2>3, <2>4 DEF Loop, Locking, Prefix
  <2>6. \A q \in Proc : q # p => Loop(q)'
    BY <1>t, <2>1, OtherLoops DEF TypeOK, MLInv
  <2>7. mode' \in [Proc -> Modes] /\ keys' \in [Proc -> Seq(Key)] /\ i' \in [Proc -> Nat]
    BY <2>1 DEF MLInv, Modes
  <2> QED BY <2>5, <2>6, <2>7 DEF MLInv
<1>4. ASSUME NEW p \in Proc, Failed(p) PROVE MLInv'
  <2>1. /\ mode[p] = "locking" /\ held' = held
        /\ pc' = [pc EXCEPT ![p] = "idle"] /\ arg' = [arg EXCEPT ![p] = NoKey]
        /\ i' = [i EXCEPT ![p] = @ - 1]
        /\ mode' = [mode EXCEPT ![p] = IF i[p] = 1 THEN "none" ELSE "rollback"]
        /\ keys' = keys
    BY <1>4 DEF Failed, GiveUp, Return
  <2>2. /\ keys[p] \in Seq(Key) /\ i[p] \in 1..Len(keys[p])
        /\ held[p] = Prefix(p, i[p] - 1) /\ Ascending(keys[p])
    BY <2>1 DEF MLInv, Loop
  <2>3. /\ i'[p] = i[p] - 1 /\ keys'[p] = keys[p] /\ pc'[p] = "idle" /\ held'[p] = held[p]
        /\ mode'[p] = IF i[p] = 1 THEN "none" ELSE "rollback"
    BY <1>t, <2>1 DEF MLInv, TypeOK
  <2>4. i[p] = 1 => held[p] = {}
    BY <2>2 DEF Prefix
  <2>5. Loop(p)'
    BY <2>2, <2>3, <2>4 DEF Loop, Locking, Prefix
  <2>6. \A q \in Proc : q # p => Loop(q)'
    BY <1>t, <2>1, OtherLoops DEF TypeOK, MLInv
  <2>7. mode' \in [Proc -> Modes] /\ keys' \in [Proc -> Seq(Key)] /\ i' \in [Proc -> Nat]
    BY <2>1, <2>2 DEF MLInv, Modes
  <2> QED BY <2>5, <2>6, <2>7 DEF MLInv
<1>5. ASSUME NEW p \in Proc, UnlockKey(p) PROVE MLInv'
  <2> DEFINE k == keys[p][i[p]]
  <2>1. /\ mode[p] \in {"rollback", "unlocking"} /\ pc[p] = "idle"
        /\ keys[p] \in Seq(Key) /\ i[p] \in 1..Len(keys[p]) /\ keys' = keys
        /\ held[p] = Prefix(p, i[p]) /\ Ascending(keys[p]) /\ k \in held[p]
    <3>1. mode[p] \in {"rollback", "unlocking"} /\ pc[p] = "idle" /\ keys' = keys
      BY <1>5 DEF UnlockKey, Unlock, UnlockAbsent
    <3>2. /\ keys[p] \in Seq(Key) /\ i[p] \in 1..Len(keys[p])
          /\ held[p] = Prefix(p, i[p]) /\ Ascending(keys[p])
      BY <3>1 DEF MLInv, Loop
    <3> QED BY <3>1, <3>2 DEF Prefix
  <2>2. locks[k] # NoEntry
    BY <2>1, EntryAssumption DEF IInv, Struct, HeldOK
  <2>3. /\ held' = [held EXCEPT ![p] = @ \ {k}]
        /\ pc' = [pc EXCEPT ![p] = "drain"] /\ arg' = [arg EXCEPT ![p] = k]
        /\ UNCHANGED <<mode, i>>
    BY <1>5, <2>2 DEF UnlockKey, Unlock, UnlockAbsent
  <2>4. \A j \in 1..(i[p] - 1) : keys[p][j] # k
    <3> SUFFICES ASSUME NEW j \in 1..(i[p] - 1) PROVE keys[p][j] # k
      OBVIOUS
    <3>1. j \in 1..Len(keys[p]) /\ j < i[p]
      BY <2>1
    <3>2. keys[p][j] \in Nat /\ k \in Nat
      <4>1. keys[p][j] \in Key /\ k \in Key
        BY <2>1, <3>1
      <4> QED BY <4>1, OrderAssumption
    <3>3. keys[p][j] < k
      BY <2>1, <3>1 DEF Ascending
    <3> QED BY <3>2, <3>3
  <2>5. held'[p] = {keys[p][j] : j \in 1..(i[p] - 1)}
    BY <1>t, <2>1, <2>3, <2>4 DEF Prefix, TypeOK
  <2>6. pc'[p] = "drain"
    BY <1>t, <2>3 DEF TypeOK
  <2>7. Loop(p)'
    BY <2>1, <2>3, <2>5, <2>6 DEF Loop, Locking, Prefix
  <2>8. \A q \in Proc : q # p => Loop(q)'
    BY <1>t, <2>1, <2>3, OtherLoops DEF TypeOK, MLInv
  <2> QED BY <2>1, <2>3, <2>7, <2>8 DEF MLInv
<1>6. ASSUME NEW p \in Proc, Unlocked(p) PROVE MLInv'
  <2>1. /\ mode[p] \in {"rollback", "unlocking"} /\ pc[p] = "drain"
        /\ keys' = keys /\ held' = held
        /\ pc' = [pc EXCEPT ![p] = "idle"] /\ arg' = [arg EXCEPT ![p] = NoKey]
        /\ i' = [i EXCEPT ![p] = i[p] - 1]
        /\ mode' = [mode EXCEPT ![p] = IF i[p] = 1 THEN "none" ELSE @]
    BY <1>6 DEF Unlocked, Drain, Return, CountDown
  <2>2. /\ keys[p] \in Seq(Key) /\ i[p] \in 1..Len(keys[p])
        /\ held[p] = Prefix(p, i[p] - 1) /\ Ascending(keys[p])
    BY <2>1 DEF MLInv, Loop
  <2>3. /\ i'[p] = i[p] - 1 /\ keys'[p] = keys[p] /\ pc'[p] = "idle" /\ held'[p] = held[p]
        /\ mode'[p] = IF i[p] = 1 THEN "none" ELSE mode[p]
    BY <1>t, <2>1 DEF MLInv, TypeOK
  <2>4. i[p] = 1 => held[p] = {}
    BY <2>2 DEF Prefix
  <2>5. Loop(p)'
    BY <2>1, <2>2, <2>3, <2>4 DEF Loop, Locking, Prefix
  <2>6. \A q \in Proc : q # p => Loop(q)'
    BY <1>t, <2>1, OtherLoops DEF TypeOK, MLInv
  <2>7. mode' \in [Proc -> Modes] /\ keys' \in [Proc -> Seq(Key)] /\ i' \in [Proc -> Nat]
    BY <2>1, <2>2 DEF MLInv, Modes
  <2> QED BY <2>5, <2>6, <2>7 DEF MLInv
<1>7. ASSUME NEW p \in Proc, BeginUnlock(p) PROVE MLInv'
  <2>1. /\ mode[p] = "owned" /\ UNCHANGED <<vars, keys>>
        /\ i' = [i EXCEPT ![p] = Len(keys[p])]
        /\ mode' = [mode EXCEPT ![p] = IF keys[p] = <<>> THEN "none" ELSE "unlocking"]
    BY <1>7 DEF BeginUnlock
  <2>2. /\ keys[p] \in Seq(Key) /\ pc[p] = "idle" /\ Ascending(keys[p])
        /\ held[p] = Prefix(p, Len(keys[p]))
    BY <2>1 DEF MLInv, Loop
  <2>3. /\ i'[p] = Len(keys[p]) /\ pc'[p] = "idle" /\ held'[p] = held[p]
        /\ keys'[p] = keys[p]
        /\ mode'[p] = IF keys[p] = <<>> THEN "none" ELSE "unlocking"
    BY <2>1, <2>2 DEF MLInv, vars
  <2>4. Loop(p)'
    <3>1. CASE keys[p] = <<>>
      BY <2>2, <2>3, <3>1 DEF Loop, Locking, Prefix
    <3>2. CASE keys[p] # <<>>
      <4>1. Len(keys[p]) \in 1..Len(keys[p])
        BY <2>2, <3>2
      <4> QED BY <2>2, <2>3, <3>2, <4>1 DEF Loop, Locking, Prefix
    <3> QED BY <3>1, <3>2
  <2>5. \A q \in Proc : q # p => Loop(q)'
    BY <2>1, OtherLoops DEF MLInv, vars
  <2>6. mode' \in [Proc -> Modes] /\ keys' \in [Proc -> Seq(Key)] /\ i' \in [Proc -> Nat]
    BY <2>1, <2>2 DEF MLInv, Modes
  <2> QED BY <2>4, <2>5, <2>6 DEF MLInv
<1>8. ASSUME NEW p \in Proc, ContextStep(p) PROVE MLInv'
  <2>1. UNCHANGED <<mode, keys, i, pc, arg, held>>
    BY <1>8 DEF ContextStep, Expire, NewContext
  <2>2. \A q \in Proc : Loop(q)'
    BY <2>1 DEF MLInv, Loop, Locking, Prefix
  <2> QED BY <2>1, <2>2 DEF MLInv
<1>9. ASSUME NEW p \in Proc, NEW list \in Calls, Begin(p, list) PROVE MLInv'
  <2>1. PICK s \in Ordered(list) : keys' = [keys EXCEPT ![p] = s]
    BY <1>9 DEF Begin
  <2>2. /\ mode[p] = "none" /\ UNCHANGED vars
        /\ i' = [i EXCEPT ![p] = 1]
        /\ mode' = [mode EXCEPT ![p] = IF list = <<>> THEN "owned" ELSE "locking"]
    BY <1>9 DEF Begin
  <2>3. s \in Seq(Key) /\ Ascending(s) /\ (list # <<>> => Len(s) \in Nat \ {0})
                       /\ (list = <<>> => Len(s) = 0)
    BY OrderedOK
  <2>4. pc[p] = "idle" /\ held[p] = {}
    BY <2>2 DEF MLInv, Loop
  <2>5. /\ keys'[p] = s /\ i'[p] = 1 /\ pc'[p] = "idle" /\ held'[p] = {}
        /\ mode'[p] = IF list = <<>> THEN "owned" ELSE "locking"
    BY <2>1, <2>2, <2>4 DEF MLInv, vars
  <2>6. Loop(p)'
    BY <2>3, <2>5 DEF Loop, Locking, Prefix
  <2>7. \A q \in Proc : q # p => Loop(q)'
    BY <2>1, <2>2, OtherLoops DEF MLInv, vars
  <2>8. mode' \in [Proc -> Modes] /\ keys' \in [Proc -> Seq(Key)] /\ i' \in [Proc -> Nat]
    BY <2>1, <2>2, <2>3 DEF MLInv, Modes
  <2> QED BY <2>6, <2>7, <2>8 DEF MLInv
<1> QED BY <1>0, <1>1, <1>2, <1>3, <1>4, <1>5, <1>6, <1>7, <1>8, <1>9
        DEF MLNext, Advance

\* The lockers use the KeyMutex as its specification allows.
THEOREM LockersUseKeyMutex == MLSpec => UsesKeyMutex
<1>1. MLInit => Init
  BY DEF MLInit
<1>2. MLInit => IInv
  BY InitOK DEF MLInit
<1>3. MLInv /\ IInv /\ [MLNext]_mlvars => IInv'
  BY LockerStep, TypeStep, StructStep, RefStep DEF IInv
<1> QED BY <1>1, <1>2, <1>3, MLInitOK, MLStep, LockerStep, PTL
        DEF MLSpec, UsesKeyMutex, Spec

\* The loop invariant and the invariant of KeyMutex hold throughout.
THEOREM LoopInvariance == MLSpec => [](MLInv /\ IInv)
<1>1. MLInit => MLInv /\ IInv
  BY MLInitOK, InitOK DEF MLInit
<1>2. MLInv /\ IInv /\ [MLNext]_mlvars => (MLInv /\ IInv)'
  BY LockerStep, TypeStep, StructStep, RefStep, MLStep DEF IInv
<1> QED BY <1>1, <1>2, PTL DEF MLSpec

\* A MultiKeyLocker holds all of its keys or, after an error or Unlock, none.
THEOREM LocksAllOrNothing == MLSpec => []AllOrNothing
<1>1. MLInv => AllOrNothing
  <2> SUFFICES ASSUME MLInv, NEW p \in Proc
               PROVE  /\ mode[p] = "owned" => held[p] = Prefix(p, Len(keys[p]))
                      /\ mode[p] = "none" => held[p] = {}
                      /\ mode[p] \in {"locking", "rollback", "unlocking"} =>
                             \E n \in 0..Len(keys[p]) : held[p] = Prefix(p, n)
    BY DEF AllOrNothing
  <2>1. keys[p] \in Seq(Key) /\ i[p] \in Nat
    BY DEF MLInv, Loop
  <2>2. CASE mode[p] \in {"locking", "rollback", "unlocking"}
    <3>1. i[p] \in 0..Len(keys[p]) /\ i[p] - 1 \in 0..Len(keys[p])
      BY <2>1, <2>2 DEF MLInv, Loop
    <3>2. held[p] = Prefix(p, i[p]) \/ held[p] = Prefix(p, i[p] - 1)
      BY <2>2 DEF MLInv, Loop
    <3> QED BY <2>2, <3>1, <3>2
  <2>3. CASE mode[p] \notin {"locking", "rollback", "unlocking"}
    BY <2>3 DEF MLInv, Loop
  <2> QED BY <2>2, <2>3
<1> QED BY <1>1, LoopInvariance, PTL

\* Nobody waits for a key smaller than one it holds: a cycle of goroutines
\* waiting for each other cannot form.
THEOREM WaitsAscend == MLSpec => []AscendingWaits
<1>1. MLInv => AscendingWaits
  <2> SUFFICES ASSUME MLInv, NEW p \in Proc, Locking(p), NEW k \in held[p]
               PROVE  k < arg[p]
    BY DEF AscendingWaits
  <2>1. mode[p] = "locking"
    BY DEF MLInv, Loop, Locking, Modes
  <2>2. /\ keys[p] \in Seq(Key) /\ Ascending(keys[p]) /\ i[p] \in 1..Len(keys[p])
        /\ arg[p] = keys[p][i[p]] /\ held[p] = Prefix(p, i[p] - 1)
    BY <2>1 DEF MLInv, Loop
  <2>3. PICK j \in 1..(i[p] - 1) : k = keys[p][j]
    BY <2>2 DEF Prefix
  <2> QED BY <2>2, <2>3 DEF Ascending
<1> QED BY <1>1, LoopInvariance, PTL
=============================================================================
