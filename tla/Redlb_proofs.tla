----------------------------- MODULE Redlb_proofs ---------------------------
(***************************************************************************)
(* Proofs about Redlb, for any number of leases, of keys that they share   *)
(* or not, of refreshes and of failures, and for any lifetime.  A step     *)
(* does one of six things to Redis (Effect), and what is proved of the     *)
(* index and of a Stop that has returned follows from those.               *)
(***************************************************************************)
EXTENDS Redlb, TLAPS

\* A lease stops only after keepAlive has begun, and Stop goes on only after
\* it has ended.
StopFollows ==
    \A l \in Lease :
        /\ ka[l] \in {"new", "failed"} => stop[l] = "no"
        /\ stop[l] \in {"delete", "done", "failed"} => ka[l] = "exit"

\* Who wrote a key owns it.
Owned == \A k \in Key : by[k] # NoLease => KeyOf(by[k]) = k

\* The index lives at least as long as each of its keys.
IndexOutlives == \A k \in index : life[k] <= idxLife

IInv == TypeOK /\ StopFollows /\ Owned /\ StopDeletes /\ IndexOutlives
-----------------------------------------------------------------------------
\* What a step does to Redis.
Written(l) == Upsert(l, l) /\ ka[l] \in {"new", "run"} /\ UNCHANGED stop
WrittenLate(l) == Upsert(l, NoLease) /\ UNCHANGED stop
Deleted(l) == /\ Delete(l)
              /\ \/ UNCHANGED stop
                 \/ \E to \in {"done", "failed"} : stop' = [stop EXCEPT ![l] = to]
Cleaned(r) == pc[r] = "clean" /\ Remove(Stale(r)) /\ UNCHANGED <<life, by, stop>>
Passed == /\ life' = [k \in Key |-> IF life[k] = 0 THEN 0 ELSE life[k] - 1]
          /\ by' = [k \in Key |-> IF life[k] <= 1 THEN NoLease ELSE by[k]]
          /\ idxLife' = IF idxLife = 0 THEN 0 ELSE idxLife - 1
          /\ index' = IF idxLife <= 1 THEN {} ELSE index
          /\ UNCHANGED stop
Left == /\ UNCHANGED <<life, index, idxLife, by>>
        /\ \/ UNCHANGED stop
           \/ \E l \in Lease, to \in {"wait", "delete", "failed"} :
                 stop' = [stop EXCEPT ![l] = to]

Effect == \/ \E l \in Lease : Written(l) \/ WrittenLate(l) \/ Deleted(l)
          \/ \E r \in Refresher : Cleaned(r)
          \/ Passed \/ Left

\* A step of the instances.
LEMMA ServesEffect ==
    ASSUME NEW l \in Lease, Serves(l)
    PROVE  Effect
<1>1. CASE RegisterRefused(l)
    BY <1>1 DEF RegisterRefused, vars, redis, leases, Effect, Left
<1>2. CASE Register(l) \/ Heartbeat(l)
    BY <1>2 DEF Register, Heartbeat, Effect, Written
<1>3. CASE RegisterFails(l) \/ HeartbeatFails(l)
    BY <1>3 DEF RegisterFails, HeartbeatFails, Fault, redis, Effect, Written, Left
<1>4. CASE CtxCancelled(l) \/ SeesStop(l)
    BY <1>4 DEF CtxCancelled, SeesStop, Ends, redis, Effect, Left
<1>5. CASE Stop(l) \/ StopGoesOn(l)
    BY <1>5 DEF Stop, StopGoesOn, StopGoes, redis, Effect, Left
<1>6. CASE StopReturns(l)
    BY <1>6 DEF StopReturns, StopGoes, Effect, Deleted
<1>7. CASE StopFails(l)
    BY <1>7 DEF StopFails, StopGoes, Fault, redis, Effect, Deleted, Left
<1> QED BY <1>1, <1>2, <1>3, <1>4, <1>5, <1>6, <1>7 DEF Serves

\* A step of a refresh; only a clean-up writes.
LEMMA RefreshesEffect ==
    ASSUME NEW r \in Refresher, Refreshes(r)
    PROVE  Effect
<1>1. CASE Clean(r)
    BY <1>1 DEF Clean, leases, Effect, Cleaned, Left
<1>2. CASE Members(r) \/ Values(r) \/ Report(r) \/ ReportError(r)
    BY <1>2 DEF Members, Values, Report, ReportError, redis, leases, Effect, Left
<1> QED BY <1>1, <1>2 DEF Refreshes

\* Any step.
LEMMA StepEffect ==
    ASSUME [Next]_vars, TypeOK
    PROVE  Effect
<1>1. CASE Deliver
    <2>1. PICK c \in late : /\ IF c[1] = "upsert" THEN Upsert(c[2], NoLease) ELSE Delete(c[2])
                            /\ UNCHANGED leases
        BY <1>1 DEF Deliver
    <2>2. c[2] \in Lease
        BY DEF TypeOK
    <2> QED BY <2>1, <2>2 DEF leases, Effect, WrittenLate, Deleted
<1>2. CASE Tick
    BY <1>2 DEF Tick, Effect, Passed
<1>3. CASE Build \/ WatchTick \/ Close \/ \E r \in Caller : ResolveNow(r)
    BY <1>3 DEF Build, WatchTick, Close, ResolveNow, redis, leases, Effect, Left
<1>4. CASE UNCHANGED vars
    BY <1>4 DEF vars, redis, leases, Effect, Left
<1> QED BY <1>1, <1>2, <1>3, <1>4, ServesEffect, RefreshesEffect DEF Next
-----------------------------------------------------------------------------
LEMMA InitIInv == Init => IInv
<1> SUFFICES ASSUME Init PROVE IInv
    OBVIOUS
<1>1. Ttl \in Nat /\ MaxFaults \in Nat
    BY RedlbAssumption
<1>2. TypeOK
    BY <1>1 DEF Init, TypeOK
<1>3. StopFollows /\ Owned /\ StopDeletes /\ IndexOutlives
    BY DEF Init, StopFollows, Owned, StopDeletes, IndexOutlives
<1> QED BY <1>2, <1>3 DEF IInv

\* The order of the steps of keepAlive and Stop.
LEMMA FollowsStep ==
    ASSUME TypeOK, StopFollows, [Next]_vars
    PROVE  StopFollows'
<1> USE DEF TypeOK, StopFollows
<1>1. ASSUME NEW l \in Lease, Serves(l)
      PROVE  StopFollows'
    <2>1. CASE RegisterRefused(l)
        BY <2>1 DEF RegisterRefused, vars, leases
    <2>2. CASE Register(l) \/ RegisterFails(l)
        BY <2>2 DEF Register, RegisterFails
    <2>3. CASE Heartbeat(l) \/ HeartbeatFails(l)
        BY <2>3 DEF Heartbeat, HeartbeatFails
    <2>4. CASE CtxCancelled(l) \/ SeesStop(l)
        BY <2>4 DEF CtxCancelled, SeesStop, Ends
    <2>5. CASE Stop(l) \/ StopGoesOn(l)
        BY <2>5 DEF Stop, StopGoesOn, StopGoes
    <2>6. CASE StopReturns(l) \/ StopFails(l)
        BY <2>6 DEF StopReturns, StopFails, StopGoes
    <2> QED BY <1>1, <2>1, <2>2, <2>3, <2>4, <2>5, <2>6 DEF Serves
<1>2. CASE UNCHANGED leases
    BY <1>2 DEF leases
<1>3. CASE Tick
    BY <1>3 DEF Tick
<1>4. CASE \E r \in Refresher : Refreshes(r)
    BY <1>2, <1>4 DEF Refreshes, Members, Values, Clean, Report, ReportError
<1>5. CASE Deliver \/ Build \/ WatchTick \/ Close \/ \E r \in Caller : ResolveNow(r)
    BY <1>2, <1>5 DEF Deliver, Build, WatchTick, Close, ResolveNow
<1> QED BY <1>1, <1>2, <1>3, <1>4, <1>5 DEF Next, vars

\* The writer of a key has it, and has not seen its Stop return.
LEMMA OwnedStep ==
    ASSUME TypeOK, StopFollows, Owned, StopDeletes, Effect
    PROVE  Owned' /\ StopDeletes'
<1> USE DEF TypeOK, Owned, StopDeletes
<1>1. ASSUME NEW l \in Lease, Written(l)
      PROVE  Owned' /\ StopDeletes'
    <2>1. KeyOf(l) \in Key /\ stop[l] # "done"
        BY <1>1 DEF Key, StopFollows, Written
    <2> QED BY <1>1, <2>1 DEF Written, Upsert
<1>2. ASSUME NEW l \in Lease, WrittenLate(l)
      PROVE  Owned' /\ StopDeletes'
    BY <1>2 DEF WrittenLate, Upsert
<1>3. ASSUME NEW l \in Lease, Deleted(l)
      PROVE  Owned' /\ StopDeletes'
    <2>1. \A k \in Key : by'[k] # NoLease => by'[k] = by[k] /\ by[k] # l
        BY <1>3 DEF Deleted, Delete
    <2>2. \A m \in Lease : m # l => stop'[m] = stop[m]
        BY <1>3 DEF Deleted
    <2> QED BY <2>1, <2>2
<1>4. CASE Passed
    <2>1. \A k \in Key : by'[k] \in {NoLease, by[k]}
        BY <1>4 DEF Passed
    <2> QED BY <1>4, <2>1 DEF Passed
<1>5. CASE Left
    <2>1. \A l \in Lease : stop'[l] = "done" => stop[l] = "done"
        BY <1>5 DEF Left
    <2> QED BY <1>5, <2>1 DEF Left
<1>6. ASSUME NEW r \in Refresher, Cleaned(r)
      PROVE  Owned' /\ StopDeletes'
    BY <1>6 DEF Cleaned
<1> QED BY <1>1, <1>2, <1>3, <1>4, <1>5, <1>6 DEF Effect

\* Every write gives the index the longest lifetime there is.
LEMMA OutlivesStep ==
    ASSUME TypeOK, IndexOutlives, Effect
    PROVE  IndexOutlives' /\ LeavesIndex
<1> USE DEF TypeOK, IndexOutlives, LeavesIndex
<1>0. /\ Ttl \in Nat /\ idxLife \in Nat
      /\ \A k \in Key : life[k] \in Nat /\ life[k] <= Ttl
    BY RedlbAssumption
<1>1. ASSUME NEW l \in Lease, NEW w, Upsert(l, w)
      PROVE  IndexOutlives' /\ LeavesIndex
    <2>1. \A k \in Key : life'[k] <= Ttl
        BY <1>0, <1>1 DEF Upsert
    <2>2. KeyOf(l) \in Key
        BY DEF Key
    <2> QED BY <1>1, <2>1, <2>2 DEF Upsert
<1>2. ASSUME NEW l \in Lease, Delete(l)
      PROVE  IndexOutlives' /\ LeavesIndex
    <2>1. KeyOf(l) \in Key
        BY DEF Key
    <2> QED BY <1>0, <1>2, <2>1 DEF Delete, Remove
<1>3. ASSUME NEW r \in Refresher, Cleaned(r)
      PROVE  IndexOutlives' /\ LeavesIndex
    BY <1>0, <1>3 DEF Cleaned, Remove
<1>4. CASE Passed
    <2>1. \A k \in index : life'[k] = IF life[k] = 0 THEN 0 ELSE life[k] - 1
        BY <1>4 DEF Passed
    <2>2. ASSUME NEW k \in index
          PROVE  /\ k \in index' => life'[k] <= idxLife'
                 /\ k \notin index' => life'[k] = 0
        BY <1>0, <1>4, <2>1, <2>2 DEF Passed
    <2>3. index' \subseteq index
        BY <1>4 DEF Passed
    <2>4. \A k \in index \ index' : ~(life'[k] > 0)
        BY <2>2
    <2>5. LeavesIndex
        BY <2>4
    <2> QED BY <2>2, <2>3, <2>5
<1>5. CASE Left
    BY <1>5 DEF Left
<1> QED BY <1>1, <1>2, <1>3, <1>4, <1>5 DEF Effect, Written, WrittenLate, Deleted
-----------------------------------------------------------------------------
\* The keys and the index keep their type.
LEMMA RedisType ==
    ASSUME TypeOK, Effect
    PROVE  /\ life' \in [Key -> 0..Ttl]
           /\ index' \subseteq Key /\ idxLife' \in 0..Ttl
           /\ by' \in [Key -> Lease \cup {NoLease}]
<1> USE DEF TypeOK
<1>0. Ttl \in Nat /\ 0 \in 0..Ttl /\ Ttl \in 0..Ttl
    BY RedlbAssumption
<1>1. ASSUME NEW l \in Lease, NEW w \in Lease \cup {NoLease}, Upsert(l, w)
      PROVE  /\ life' \in [Key -> 0..Ttl]
             /\ index' \subseteq Key /\ idxLife' \in 0..Ttl
             /\ by' \in [Key -> Lease \cup {NoLease}]
    <2>1. KeyOf(l) \in Key
        BY DEF Key
    <2> QED BY <1>0, <1>1, <2>1 DEF Upsert
<1>2. ASSUME NEW l \in Lease, Delete(l)
      PROVE  /\ life' \in [Key -> 0..Ttl]
             /\ index' \subseteq Key /\ idxLife' \in 0..Ttl
             /\ by' \in [Key -> Lease \cup {NoLease}]
    BY <1>0, <1>2 DEF Delete, Remove
<1>3. ASSUME NEW r \in Refresher, Cleaned(r)
      PROVE  /\ life' \in [Key -> 0..Ttl]
             /\ index' \subseteq Key /\ idxLife' \in 0..Ttl
             /\ by' \in [Key -> Lease \cup {NoLease}]
    BY <1>0, <1>3 DEF Cleaned, Remove
<1>4. CASE Passed
    <2>1. \A n \in 0..Ttl : (IF n = 0 THEN 0 ELSE n - 1) \in 0..Ttl
        BY <1>0
    <2>2. life' \in [Key -> 0..Ttl] /\ idxLife' \in 0..Ttl
        BY <1>4, <2>1 DEF Passed
    <2>3. index' \subseteq Key /\ by' \in [Key -> Lease \cup {NoLease}]
        BY <1>4 DEF Passed
    <2> QED BY <2>2, <2>3
<1>5. CASE Left
    BY <1>5 DEF Left
<1> QED BY <1>1, <1>2, <1>3, <1>4, <1>5 DEF Effect, Written, WrittenLate, Deleted

\* So does what is not in Redis.
LocalType ==
    /\ late \subseteq {"upsert", "delete"} \X Lease
    /\ ka \in [Lease -> {"new", "failed", "run", "exit"}]
    /\ stop \in [Lease -> {"no", "wait", "delete", "done", "failed"}]
    /\ due \subseteq Lease
    /\ resolver \in {"none", "build", "open", "closed"}
    /\ pc \in [Refresher -> {"idle", "members", "values", "clean", "report"}]
    /\ keys \in [Refresher -> SUBSET Key] /\ found \in [Refresher -> SUBSET Key]
    /\ addrs \subseteq Key
    /\ faults \in 0..MaxFaults

LEMMA FaultCount ==
    ASSUME TypeOK, faults < MaxFaults
    PROVE  faults + 1 \in 0..MaxFaults
BY RedlbAssumption DEF TypeOK

LEMMA LocalStep ==
    ASSUME TypeOK, [Next]_vars
    PROVE  LocalType'
<1> USE DEF TypeOK, LocalType
<1>1. ASSUME NEW l \in Lease, Serves(l)
      PROVE  LocalType'
    <2>1. CASE RegisterRefused(l)
        BY <2>1 DEF RegisterRefused, vars, leases, client, redis
    <2>2. CASE Register(l) \/ Heartbeat(l)
        BY <2>2 DEF Register, Heartbeat, client
    <2>3. CASE RegisterFails(l) \/ HeartbeatFails(l)
        BY <2>3, FaultCount DEF RegisterFails, HeartbeatFails, Fault, client, redis
    <2>4. CASE CtxCancelled(l) \/ SeesStop(l)
        BY <2>4 DEF CtxCancelled, SeesStop, Ends, client, redis
    <2>5. CASE Stop(l) \/ StopGoesOn(l)
        BY <2>5 DEF Stop, StopGoesOn, StopGoes, client, redis
    <2>6. CASE StopReturns(l)
        BY <2>6 DEF StopReturns, StopGoes, client
    <2>7. CASE StopFails(l)
        BY <2>7, FaultCount DEF StopFails, StopGoes, Fault, client, redis
    <2> QED BY <1>1, <2>1, <2>2, <2>3, <2>4, <2>5, <2>6, <2>7 DEF Serves
<1>2. ASSUME NEW r \in Refresher, Refreshes(r)
      PROVE  LocalType'
    <2>1. CASE Members(r) \/ Values(r)
        BY <2>1 DEF Members, Values, redis, leases
    <2>2. CASE Clean(r)
        BY <2>2, FaultCount DEF Clean, leases
    <2>3. CASE Report(r)
        BY <2>3 DEF Report, Refreshed, redis, leases
    <2>4. CASE ReportError(r)
        BY <2>4, FaultCount DEF ReportError, Refreshed, redis, leases
    <2> QED BY <1>2, <2>1, <2>2, <2>3, <2>4 DEF Refreshes
<1>3. CASE Build \/ WatchTick \/ Close
    BY <1>3 DEF Build, WatchTick, Close, Starts, redis, leases
<1>4. ASSUME NEW r \in Caller, ResolveNow(r)
      PROVE  LocalType'
    BY <1>4 DEF ResolveNow, Starts, redis, leases
<1>5. CASE Deliver
    BY <1>5 DEF Deliver, leases, client
<1>6. CASE Tick
    BY <1>6 DEF Tick, client
<1>7. CASE UNCHANGED vars
    BY <1>7 DEF vars, redis, leases, client
<1> QED BY <1>1, <1>2, <1>3, <1>4, <1>5, <1>6, <1>7 DEF Next
-----------------------------------------------------------------------------
LEMMA NextIInv ==
    ASSUME IInv, [Next]_vars
    PROVE  IInv' /\ LeavesIndex
<1> USE DEF IInv
<1>1. Effect
    BY StepEffect
<1>2. TypeOK'
    BY <1>1, RedisType, LocalStep DEF LocalType, TypeOK
<1>3. StopFollows' /\ Owned' /\ StopDeletes'
    BY <1>1, FollowsStep, OwnedStep
<1>4. IndexOutlives' /\ LeavesIndex
    BY <1>1, OutlivesStep
<1> QED BY <1>2, <1>3, <1>4

LEMMA Inductive == Spec => []IInv
<1>1. Init => IInv
    BY InitIInv
<1>2. IInv /\ [Next]_vars => IInv'
    BY NextIInv
<1> QED BY <1>1, <1>2, PTL DEF Spec

\* The variables have their types, with any number of leases and refreshes.
THEOREM TypeCorrect == Spec => []TypeOK
<1>1. IInv => TypeOK
    BY DEF IInv
<1> QED BY <1>1, Inductive, PTL

\* Stop deletes for good (redlb.go:157): no heartbeat follows a Stop that has
\* returned nil.
THEOREM StopIsFinal == Spec => []StopDeletes
<1>1. IInv => StopDeletes
    BY DEF IInv
<1> QED BY <1>1, Inductive, PTL

\* The index never expires under a live key (redlb.go:273): only a clean-up
\* that found the key gone removes it.
THEOREM IndexKeepsLive == Spec => LiveStaysIndexed
<1>1. IInv /\ [Next]_vars => [LeavesIndex]_vars
    BY NextIInv
<1> QED BY <1>1, Inductive, PTL DEF Spec, LiveStaysIndexed
-----------------------------------------------------------------------------
\* A late command comes from a lease that has called Redis; a late DEL from
\* one whose keepAlive has ended.
LateFrom == \A c \in late : /\ ka[c[2]] # "new"
                            /\ c[1] # "upsert" => ka[c[2]] = "exit"

\* What the key of a lease that runs has left, one interval being spent when
\* its ticker has fired, and one with every failure.
Budget == \A l \in Lease :
             ka[l] = "run" /\ Sole(l) =>
                 life[KeyOf(l)] + faults + (IF l \in due THEN 1 ELSE 0) >= Ttl

MInv == IInv /\ LateFrom /\ Budget

LEMMA LateStep ==
    ASSUME TypeOK, StopFollows, LateFrom, [Next]_vars
    PROVE  LateFrom'
<1> USE DEF TypeOK, LateFrom
<1>1. ASSUME NEW l \in Lease, Serves(l)
      PROVE  LateFrom'
    <2>1. CASE RegisterRefused(l)
        BY <2>1 DEF RegisterRefused, vars, redis, leases
    <2>2. CASE Register(l) \/ Heartbeat(l)
        BY <2>2 DEF Register, Heartbeat
    <2>3. CASE RegisterFails(l) \/ HeartbeatFails(l)
        BY <2>3 DEF RegisterFails, HeartbeatFails, Fault, redis
    <2>4. CASE CtxCancelled(l) \/ SeesStop(l)
        BY <2>4 DEF CtxCancelled, SeesStop, Ends, redis
    <2>5. CASE Stop(l) \/ StopGoesOn(l) \/ StopReturns(l)
        BY <2>5 DEF Stop, StopGoesOn, StopReturns, StopGoes, redis
    <2>6. CASE StopFails(l)
        BY <2>6 DEF StopFails, StopGoes, StopFollows, Fault, redis
    <2> QED BY <1>1, <2>1, <2>2, <2>3, <2>4, <2>5, <2>6 DEF Serves
<1>2. CASE UNCHANGED ka /\ late' \subseteq late
    BY <1>2
<1>3. CASE \E r \in Refresher : Refreshes(r)
    BY <1>2, <1>3 DEF Refreshes, Members, Values, Clean, Report, ReportError, redis, leases
<1>4. CASE Deliver \/ Tick \/ Build \/ WatchTick \/ Close \/ \E r \in Caller : ResolveNow(r)
    BY <1>2, <1>4 DEF Deliver, Tick, Build, WatchTick, Close, ResolveNow, redis, leases
<1> QED BY <1>1, <1>2, <1>3, <1>4 DEF Next, vars, redis, leases

\* No other lease begins to share the key, and none stops to.
LEMMA SoleKept ==
    ASSUME TypeOK, NEW l \in Lease, Sole(l)',
           \A m \in Lease : ka'[m] = "new" => ka[m] = "new"
    PROVE  Sole(l)
BY DEF TypeOK, Sole

\* The key of a lease that runs alone is deleted by nobody.
LEMMA AloneKept ==
    ASSUME TypeOK, NEW l \in Lease, NEW m \in Lease, Sole(l), ka[l] = "run",
           ka[m] = "exit", Delete(m)
    PROVE  life'[KeyOf(l)] = life[KeyOf(l)]
<1>1. KeyOf(m) # KeyOf(l)
    BY DEF Sole
<1>2. KeyOf(l) \in Key
    BY DEF Key
<1> QED BY <1>1, <1>2 DEF TypeOK, Delete

\* What a write leaves.
LEMMA WriteFills ==
    ASSUME TypeOK, NEW l \in Lease, NEW m \in Lease, NEW w, Upsert(m, w)
    PROVE  life'[KeyOf(l)] >= life[KeyOf(l)] /\ life'[KeyOf(m)] = Ttl
<1>1. KeyOf(l) \in Key /\ KeyOf(m) \in Key
    BY DEF Key
<1>2. life[KeyOf(l)] \in 0..Ttl /\ Ttl \in Nat
    BY <1>1, RedlbAssumption DEF TypeOK
<1> QED BY <1>1, <1>2 DEF TypeOK, Upsert

\* For one lease, what a step must do to keep the budget.
Keeps(l) == /\ ka'[l] = "run" => \/ ka[l] = "run"
                                 \/ life'[KeyOf(l)] = Ttl
            /\ ka[l] = "run" /\ ka'[l] = "run" /\ Sole(l) =>
                 \/ life'[KeyOf(l)] = Ttl
                 \/ /\ life'[KeyOf(l)] >= life[KeyOf(l)]
                    /\ \/ l \in due' \/ l \notin due
                       \/ faults' = faults + 1
                 \/ /\ life'[KeyOf(l)] + 1 >= life[KeyOf(l)]
                    /\ l \notin due /\ l \in due'
            /\ \A m \in Lease : ka'[m] = "new" => ka[m] = "new"
            /\ faults' >= faults

\* A step of a lease keeps the budget of each.
LEMMA ServesKeeps ==
    ASSUME TypeOK, StopFollows, NEW l \in Lease, NEW m \in Lease, Serves(m)
    PROVE  Keeps(l)
<1> USE DEF TypeOK, Keeps
<1>0. /\ KeyOf(l) \in Key /\ life[KeyOf(l)] \in Nat /\ faults \in Nat /\ Ttl \in Nat
    BY RedlbAssumption DEF Key
<1>1. CASE RegisterRefused(m)
    BY <1>0, <1>1 DEF RegisterRefused, vars, redis, leases
<1>2. CASE Register(m) \/ Heartbeat(m)
    <2>1. life'[KeyOf(l)] >= life[KeyOf(l)] /\ life'[KeyOf(m)] = Ttl
        BY <1>2, WriteFills DEF Register, Heartbeat
    <2> QED BY <1>0, <1>2, <2>1 DEF Register, Heartbeat
<1>3. CASE RegisterFails(m) \/ HeartbeatFails(m)
    <2>1. life'[KeyOf(l)] >= life[KeyOf(l)]
        BY <1>0, <1>3, WriteFills DEF RegisterFails, HeartbeatFails, Fault, redis
    <2>2. faults' = faults + 1
        BY <1>3 DEF RegisterFails, HeartbeatFails, Fault
    <2>3. \A n \in Lease : ka'[n] \in {ka[n], "failed"}
        BY <1>3 DEF RegisterFails, HeartbeatFails
    <2> QED BY <1>0, <2>1, <2>2, <2>3
<1>4. CASE CtxCancelled(m) \/ SeesStop(m)
    BY <1>0, <1>4 DEF CtxCancelled, SeesStop, Ends, redis
<1>5. CASE Stop(m) \/ StopGoesOn(m)
    BY <1>0, <1>5 DEF Stop, StopGoesOn, StopGoes, redis
<1>6. CASE StopReturns(m) \/ StopFails(m)
    <2>1. ka[m] = "exit" /\ UNCHANGED <<ka, due>> /\ faults' >= faults
        BY <1>0, <1>6 DEF StopReturns, StopFails, StopGoes, StopFollows, Fault
    <2>2. ka[l] = "run" /\ Sole(l) => life'[KeyOf(l)] = life[KeyOf(l)]
        BY <1>6, <2>1, AloneKept DEF StopReturns, StopFails, Fault, redis
    <2> QED BY <1>0, <2>1, <2>2
<1> QED BY <1>1, <1>2, <1>3, <1>4, <1>5, <1>6 DEF Serves

LEMMA StepKeeps ==
    ASSUME TypeOK, StopFollows, LateFrom, NEW l \in Lease, [Next]_vars
    PROVE  Keeps(l)
<1> USE DEF TypeOK, Keeps
<1>0. /\ KeyOf(l) \in Key /\ life[KeyOf(l)] \in Nat /\ faults \in Nat /\ Ttl \in Nat
    BY RedlbAssumption DEF Key
<1>1. CASE UNCHANGED <<life, ka, due>> /\ faults' >= faults
    BY <1>0, <1>1
<1>2. CASE \E r \in Refresher : Refreshes(r)
    BY <1>0, <1>1, <1>2 DEF Refreshes, Members, Values, Clean, Report, ReportError, redis, leases
<1>3. CASE Build \/ WatchTick \/ Close \/ UNCHANGED vars \/ \E r \in Caller : ResolveNow(r)
    BY <1>0, <1>1, <1>3 DEF Build, WatchTick, Close, ResolveNow, vars, redis, leases
<1>4. CASE Deliver
    <2>1. PICK c \in late : /\ IF c[1] = "upsert" THEN Upsert(c[2], NoLease) ELSE Delete(c[2])
                            /\ UNCHANGED <<leases, faults>>
        BY <1>4 DEF Deliver
    <2>2. c[2] \in Lease /\ (c[1] # "upsert" => ka[c[2]] = "exit")
        BY DEF LateFrom
    <2>3. ka[l] = "run" /\ Sole(l) => life'[KeyOf(l)] >= life[KeyOf(l)]
        BY <1>0, <2>1, <2>2, WriteFills, AloneKept
    <2> QED BY <1>0, <2>1, <2>3 DEF leases
<1>5. CASE Tick
    <2>1. life'[KeyOf(l)] + 1 >= life[KeyOf(l)]
        BY <1>0, <1>5 DEF Tick
    <2>2. ka[l] = "run" => l \notin due /\ l \in due'
        BY <1>5 DEF Tick
    <2> QED BY <1>0, <1>5, <2>1, <2>2 DEF Tick
<1> QED BY <1>2, <1>3, <1>4, <1>5, ServesKeeps DEF Next

LEMMA BudgetStep ==
    ASSUME TypeOK, TypeOK', Budget, \A l \in Lease : Keeps(l)
    PROVE  Budget'
<1> SUFFICES ASSUME NEW l \in Lease, ka'[l] = "run", Sole(l)'
             PROVE  life'[KeyOf(l)] + faults' + (IF l \in due' THEN 1 ELSE 0) >= Ttl
    BY DEF Budget
<1>1. /\ KeyOf(l) \in Key /\ Ttl \in Nat
      /\ life[KeyOf(l)] \in Nat /\ life'[KeyOf(l)] \in Nat
      /\ faults \in Nat /\ faults' \in Nat
    BY RedlbAssumption DEF TypeOK, Key
<1>2. Keeps(l) /\ Sole(l)
    BY SoleKept DEF Keeps
<1>3. CASE life'[KeyOf(l)] = Ttl
    <2>1. \A n, f, d \in Nat : n + f + d >= n
        OBVIOUS
    <2>2. (IF l \in due' THEN 1 ELSE 0) \in Nat
        OBVIOUS
    <2> QED BY <1>1, <1>3, <2>1, <2>2
<1>4. CASE ka[l] = "run" /\ life'[KeyOf(l)] # Ttl
    <2>1. life[KeyOf(l)] + faults + (IF l \in due THEN 1 ELSE 0) >= Ttl
        BY <1>2, <1>4 DEF Budget
    <2> QED BY <1>1, <1>2, <1>4, <2>1 DEF Keeps
<1> QED BY <1>2, <1>3, <1>4 DEF Keeps

LEMMA MissesInductive == Spec => []MInv
<1>1. Init => MInv
    BY InitIInv DEF MInv, Init, LateFrom, Budget
<1>2. MInv /\ [Next]_vars => MInv'
    <2> SUFFICES ASSUME MInv, [Next]_vars PROVE MInv'
        OBVIOUS
    <2>1. IInv'
        BY NextIInv DEF MInv
    <2>2. LateFrom'
        BY LateStep DEF MInv, IInv
    <2>3. Budget'
        BY <2>1, StepKeeps, BudgetStep DEF MInv, IInv
    <2> QED BY <2>1, <2>2, <2>3 DEF MInv
<1> QED BY <1>1, <1>2, PTL DEF Spec

\* An instance that runs outlives as many failed heartbeats as opt.ttl allows,
\* whatever late commands and the stops of other instances do.
THEOREM MissesSurvived == Spec => []SurvivesMisses
<1>1. MInv => SurvivesMisses
    <2> SUFFICES ASSUME MInv, NEW l \in Lease, ka[l] = "run", Sole(l), faults + 1 < Ttl
                 PROVE  life[KeyOf(l)] > 0
        BY DEF SurvivesMisses
    <2>1. /\ Ttl \in Nat /\ life[KeyOf(l)] \in Nat /\ faults \in Nat
        BY RedlbAssumption DEF MInv, IInv, TypeOK, Key
    <2>2. life[KeyOf(l)] + faults + (IF l \in due THEN 1 ELSE 0) >= Ttl
        BY DEF MInv, Budget
    <2> QED BY <2>1, <2>2
<1> QED BY <1>1, MissesInductive, PTL
=============================================================================
