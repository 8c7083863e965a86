----------------------------- MODULE Server_proofs ---------------------------
(***************************************************************************)
(* Proofs about Server, and with it about Lifecycle, Stores and Migration: *)
(* for any services, configuration, requests, runners and other callers.   *)
(* The invariant has a part for each of them.  LifeInv: the services that  *)
(* are up are those before the place that Load or Unload has come to.      *)
(* MigInv: who is where has the lock.  StageInv: who holds lc.mu, and for  *)
(* what, at each stage of main.  RequestInv: from which stage on nobody    *)
(* is let in, and when the last request has gone.  HookInv: the order of   *)
(* the hooks, and open as a function of the hooks that have run.           *)
(* StoreInv: what the stores hold has been opened.                         *)
(***************************************************************************)
EXTENDS Server, SequenceTheorems, TLAPS

\* How many services are up, from the first.
Depth == IF mu \in {"load", "rollback", "unload"} THEN at
         ELSE IF loaded THEN Len(services) ELSE 0

LifeInv ==
    /\ services \in Seq(Service)
    /\ \A i, j \in 1..Len(services) : services[i] = services[j] => i = j
    /\ loaded \in BOOLEAN
    /\ mu \in {"load", "rollback", "unload"} => at \in 0..Len(services)
    /\ mu \in {"load", "rollback"} => ~loaded
    /\ mu = "unload" => loaded
    /\ net \in [Service -> {0, 1}]
    /\ \A s \in Service : net[s] = 1 <=> \E i \in 1..Depth : services[i] = s

MigInv ==
    /\ lock \in [Eligible -> Runner \cup {Nobody}]
    /\ mpc \in [Runner -> {"idle", "next", "init", "lock", "op", "unlock", "end"}]
    /\ mat \in [Runner -> Nat]
    /\ mres \in [Runner -> {"none", "ok", "error", "lost", "crash"}]
    /\ \A r \in Runner : mpc[r] \in {"init", "lock", "op", "unlock"} => DbAt(r) \in Eligible
    /\ \A r \in Runner : mres[r] # "none" => mpc[r] = "end"
    /\ LockExact
-----------------------------------------------------------------------------
Stages == {"start", "trace", "metrics", "redis", "redlock", "limiter", "token", "opendb",
           "migration", "migrating", "services", "provide", "load", "run", "unload",
           "pubsub", "sleep", "shutdown", "exit", "gone"}

StageInv ==
    /\ stage \in Stages
    /\ code = -1 <=> stage # "gone"
    /\ mu \in {"free", "load", "rollback", "unload", "shutdown"}
    /\ by = "main" => \/ mu \in {"load", "rollback"} /\ stage = "load"
                      \/ mu = "unload" /\ stage = "unload"
                      \/ mu = "shutdown"
    /\ mu = "shutdown" => by = "main" /\ stage = "shutdown" /\ ~shutdown
    /\ ran # <<>> => stage \in {"shutdown", "exit", "gone"}
    /\ shutdown \in BOOLEAN
    /\ shutdown => stage \in {"exit", "gone"}
    /\ stage = "exit" => shutdown /\ mu = "free"
    /\ stage = "gone" /\ code = 0 /\ op = "none" => shutdown /\ mu = "free"
    /\ stage = "migrating" => op # "none"

RequestInv ==
    /\ rpc \in [Request -> {"idle", "check", "handle", "done"}]
    /\ stage \in {"unload", "pubsub", "sleep", "shutdown", "exit"} => isClosed
    /\ stage = "sleep" => InProgress \subseteq waited
    /\ Prompt /\ (stage \in {"shutdown", "exit"} \/ ran # <<>>) => InProgress = {}
-----------------------------------------------------------------------------
Resource == {Provider(p) : p \in Providers} \cup Clients \cup {Limiter, Other}
            \cup {Database(name) : name \in Databases}

\* The hooks of one layer are added before those of the next; stage by stage,
\* the layer that has been reached.
Layer(r) == CASE r[1] = "provider" -> 1
              [] r[1] = "redis" -> 2
              [] r[1] = "limiter" -> 3
              [] r[1] = "database" -> 4
              [] OTHER -> 5
Reached == CASE stage \in {"start", "trace", "metrics"} -> 1
             [] stage \in {"redis", "redlock", "limiter"} -> 2
             [] stage = "token" -> 3
             [] stage \in {"opendb", "migration", "migrating", "services", "provide"} -> 4
             [] OTHER -> 5

Hooked == {hookOf[i] : i \in 1..hooks}

\* The hooks that have not run.
Left == IF mu = "shutdown" THEN at ELSE IF shutdown THEN 0 ELSE hooks

OpenExact ==
    open = {x \in Hooked : x # Other /\ \A i \in 1..hooks : hookOf[i] = x => i <= Left}

HookInv ==
    /\ hookOf \in Seq(Resource) /\ Len(hookOf) = hooks
    /\ mu = "shutdown" => at \in 0..hooks
    /\ ran \in Seq(Nat)
    /\ \A i, j \in 1..hooks : i < j => Layer(hookOf[i]) <= Layer(hookOf[j])
    /\ \A i \in 1..hooks : Layer(hookOf[i]) <= Reached
    /\ OpenExact
    \* What a resource was made of has been opened.
    /\ stage = "metrics" /\ "trace" \in Providers => Provider("trace") \in Hooked
    /\ \/ stage \notin {"start", "trace", "metrics", "gone"}
       \/ \E i \in 1..hooks : Layer(hookOf[i]) > 1
       => \A p \in Providers : Provider(p) \in Hooked
    /\ Limiter \in Hooked => Client("limiter", 1) \in Hooked
    /\ stage = "redis" => Clients \ todo \subseteq Hooked
    /\ stage \in {"token", "opendb"} => todo \subseteq Databases
    /\ \A name \in DOMAIN rdbs.dbOf : Client(name, 1) \in Hooked

StoreInv ==
    /\ rdbs = [instances |-> rdbs.instances, dbOf |-> rdbs.dbOf, default |-> rdbs.default]
    /\ dbs = [instances |-> dbs.instances, default |-> dbs.default]
    /\ ran = <<>> => /\ \A x \in DOMAIN rdbs.instances : rdbs.instances[x] \in open
                     /\ \A x \in DOMAIN dbs.instances : dbs.instances[x] \in open
    /\ \A name \in DOMAIN rdbs.dbOf : <<name, rdbs.dbOf[name]>> \in DOMAIN rdbs.instances
    /\ \A x \in DOMAIN rdbs.instances : x[1] \in DOMAIN rdbs.dbOf
    /\ \/ rdbs.instances = Empty /\ rdbs.default = <<>>
       \/ rdbs.default \in DOMAIN rdbs.instances
    /\ \/ dbs.instances = Empty /\ dbs.default = Unnamed
       \/ dbs.default \in DOMAIN dbs.instances

IInv == LifeInv /\ MigInv /\ StageInv /\ RequestInv /\ HookInv /\ StoreInv
-----------------------------------------------------------------------------
\* The arguments that Register lets in are services, each for the first time.
LEMMA RegisteredOnce ==
    ASSUME LifeInv, NEW svcs \in Seq(Service \cup {NoService}), NEW n \in 0..Len(svcs),
           \A k \in 1..n : Acceptable(svcs, k), services' = services \o SubSeq(svcs, 1, n)
    PROVE  /\ services' \in Seq(Service)
           /\ \A i, j \in 1..Len(services') : services'[i] = services'[j] => i = j
<1> DEFINE new == SubSeq(svcs, 1, n)
           len == Len(services)
<1>1. services \in Seq(Service) /\ len \in Nat /\ Len(svcs) \in Nat /\ n \in Nat
      /\ \A i \in 1..len : services[i] \in Service
    BY LenProperties, ElementOfSeq DEF LifeInv
<1>2. \A k \in 1..n : svcs[k] \in Service
    BY DEF Acceptable
<1>3. ASSUME NEW m \in 0..n
      PROVE  /\ SubSeq(svcs, 1, m) \in Seq(Service) /\ Len(SubSeq(svcs, 1, m)) = m
             /\ \A i \in 1..m : SubSeq(svcs, 1, m)[i] = svcs[i]
    <2>1. m \in Int /\ 1 \in Int /\ \A i \in 1..m : svcs[i] \in Service
        BY <1>1, <1>2
    <2>2. /\ SubSeq(svcs, 1, m) \in Seq(Service)
          /\ Len(SubSeq(svcs, 1, m)) = IF 1 <= m THEN m - 1 + 1 ELSE 0
          /\ \A i \in 1..(m - 1 + 1) : SubSeq(svcs, 1, m)[i] = svcs[1 + i - 1]
        BY <2>1, SubSeqProperties
    <2> QED BY <2>1, <2>2, <1>1
<1>4. ASSUME NEW m \in 0..n
      PROVE  LET ss == services \o SubSeq(svcs, 1, m)
             IN /\ ss \in Seq(Service) /\ Len(ss) = len + m
                /\ \A i \in 1..len : ss[i] = services[i]
                /\ \A i \in 1..m : ss[len + i] = svcs[i]
    <2> DEFINE part == SubSeq(svcs, 1, m)
               ss == services \o part
    <2>1. part \in Seq(Service) /\ Len(part) = m /\ \A i \in 1..m : part[i] = svcs[i]
        BY <1>3
    <2> HIDE DEF part
    <2>2. /\ ss \in Seq(Service) /\ Len(ss) = len + m
          /\ \A i \in 1..(len + m) : ss[i] = IF i <= len THEN services[i] ELSE part[i - len]
        BY <1>1, <2>1, ConcatProperties
    <2> HIDE DEF ss
    <2>3. \A i \in 1..len : ss[i] = services[i]
        BY <1>1, <2>2
    <2>4. ASSUME NEW i \in 1..m
          PROVE  ss[len + i] = svcs[i]
        <3> DEFINE j == len + i
        <3>1. j \in 1..(len + m) /\ ~(j <= len) /\ j - len = i
            BY <1>1
        <3> HIDE DEF j
        <3>2. ss[j] = part[i]
            BY <2>2, <3>1
        <3> QED BY <2>1, <3>2 DEF j
    <2> QED BY <2>2, <2>3, <2>4 DEF ss, part
<1>5. ASSUME NEW k \in 1..n
      PROVE  /\ \A i \in 1..len : services[i] # svcs[k]
             /\ \A i \in 1..(k - 1) : svcs[i] # svcs[k]
    <2> DEFINE before == services \o SubSeq(svcs, 1, k - 1)
    <2>1. k - 1 \in 0..n /\ k \in Nat
        BY <1>1
    <2>2. /\ before \in Seq(Service) /\ Len(before) = len + (k - 1)
          /\ \A i \in 1..len : before[i] = services[i]
          /\ \A i \in 1..(k - 1) : before[len + i] = svcs[i]
        BY <1>4, <2>1
    <2>3. NameOf[svcs[k]] \notin Names(before)
        BY DEF Acceptable
    <2> HIDE DEF before
    <2>4. \A i \in 1..(len + (k - 1)) : before[i] # svcs[k]
        BY <2>2, <2>3, LenProperties DEF Names, ToSet
    <2>5. \A i \in 1..len : services[i] # svcs[k]
        BY <1>1, <2>1, <2>2, <2>4
    <2>6. \A i \in 1..(k - 1) : svcs[i] # svcs[k]
        BY <1>1, <2>1, <2>2, <2>4
    <2> QED BY <2>5, <2>6
<1>6. /\ services' \in Seq(Service) /\ Len(services') = len + n
      /\ \A i \in 1..len : services'[i] = services[i]
      /\ \A i \in 1..n : services'[len + i] = svcs[i]
    <2>1. n \in 0..n
        BY <1>1
    <2> QED BY <1>4, <2>1
<1>7. ASSUME NEW i \in 1..(len + n), NEW j \in 1..(len + n), i < j
      PROVE  services'[i] # services'[j]
    <2>1. CASE j <= len
        BY <1>1, <1>6, <1>7, <2>1 DEF LifeInv
    <2>2. CASE i <= len /\ j > len
        <3>1. j - len \in 1..n /\ len + (j - len) = j /\ i \in 1..len
            BY <1>1, <2>2
        <3>2. services'[j] = svcs[j - len] /\ services'[i] = services[i]
            BY <1>6, <3>1
        <3> QED BY <1>5, <3>1, <3>2
    <2>3. CASE i > len
        <3>1. /\ j - len \in 1..n /\ len + (j - len) = j
              /\ i - len \in 1..n /\ len + (i - len) = i
              /\ i - len \in 1..((j - len) - 1)
            BY <1>1, <1>7, <2>3
        <3>2. services'[j] = svcs[j - len] /\ services'[i] = svcs[i - len]
            BY <1>6, <3>1
        <3> QED BY <1>5, <3>1, <3>2
    <2> QED BY <1>1, <2>1, <2>2, <2>3
<1> QED BY <1>1, <1>6, <1>7

\* Register adds services that are not up.
LEMMA RegisterLife ==
    ASSUME LifeInv, NEW svcs \in Seq(Service \cup {NoService}), Register(svcs)
    PROVE  LifeInv'
<1>1. PICK n \in 0..Len(svcs) : /\ \A k \in 1..n : Acceptable(svcs, k)
                                /\ services' = services \o SubSeq(svcs, 1, n)
    BY DEF Register
<1>2. /\ services' \in Seq(Service)
      /\ \A i, j \in 1..Len(services') : services'[i] = services'[j] => i = j
    BY <1>1, RegisteredOnce
<1>3. mu = "free" /\ ~loaded /\ UNCHANGED <<loaded, mu, at, net>>
    BY DEF Register
<1>4. Depth = 0 /\ Depth' = 0
    BY <1>3 DEF Depth
<1> QED BY <1>2, <1>3, <1>4 DEF LifeInv

\* Whatever is not a step of Load or Unload leaves them alone.
LEMMA LifeKept ==
    ASSUME LifeInv, UNCHANGED <<services, loaded, net>>,
           \/ UNCHANGED <<mu, at>>
           \/ mu \in {"free", "shutdown"} /\ mu' \in {"free", "shutdown"}
    PROVE  LifeInv'
<1>1. Depth' = Depth
    BY DEF Depth
<1>2. \A s \in Service : net'[s] = 1 <=> \E i \in 1..Depth' : services'[i] = s
    BY <1>1 DEF LifeInv
<1> QED BY <1>2 DEF LifeInv

\* The services before the place of Load are up, and those before the place of
\* a rollback or an Unload still are.
LEMMA LoadLife ==
    ASSUME LifeInv, \/ CallLoad \/ LoadNext \/ LoadFails \/ LoadDone
                    \/ CallUnload \/ UnloadNext \/ UnloadDone
    PROVE  LifeInv'
<1> DEFINE len == Len(services)
<1>1. len \in Nat /\ \A i \in 1..len : services[i] \in Service
    BY LenProperties, ElementOfSeq DEF LifeInv
<1>2. services' = services
    BY DEF CallLoad, LoadNext, LoadFails, LoadDone, CallUnload, UnloadNext, UnloadDone
<1>3. CASE CallLoad \/ LoadFails \/ LoadDone \/ CallUnload \/ UnloadDone
    <2>1. Depth' = Depth
        BY <1>1, <1>2, <1>3 DEF CallLoad, LoadFails, LoadDone, CallUnload, UnloadDone, Depth,
                                LifeInv
    <2>2. net' = net
        BY <1>3 DEF CallLoad, LoadFails, LoadDone, CallUnload, UnloadDone
    <2>3. \A s \in Service : net'[s] = 1 <=> \E i \in 1..Depth' : services'[i] = s
        BY <1>2, <2>1, <2>2 DEF LifeInv
    <2>4. /\ loaded' \in BOOLEAN
          /\ mu' \in {"load", "rollback", "unload"} => at' \in 0..Len(services')
          /\ mu' \in {"load", "rollback"} => ~loaded'
          /\ mu' = "unload" => loaded'
        <3>1. 0 \in 0..Len(services') /\ Len(services) \in 0..Len(services')
            BY <1>1, <1>2
        <3>2. CASE CallLoad \/ CallUnload
            BY <3>1, <3>2 DEF CallLoad, CallUnload, LifeInv
        <3>3. CASE LoadFails
            BY <1>2, <3>3 DEF LoadFails, LifeInv
        <3>4. CASE LoadDone \/ UnloadDone
            BY <3>4 DEF LoadDone, UnloadDone
        <3> QED BY <1>3, <3>2, <3>3, <3>4
    <2> QED BY <1>2, <2>2, <2>3, <2>4 DEF LifeInv
<1>4. CASE LoadNext
    <2>1. /\ mu = "load" /\ mu' = mu /\ loaded' = loaded /\ at \in 0..len /\ at < len
          /\ at' = at + 1 /\ net' = [net EXCEPT ![services[at + 1]] = @ + 1]
        BY <1>4 DEF LoadNext, LifeInv
    <2>2. at + 1 \in 1..len /\ services[at + 1] \in Service
        BY <1>1, <2>1
    <2>3. Depth = at /\ Depth' = at + 1
        BY <2>1 DEF Depth
    <2>4. \A i \in 1..at : i \in 1..len /\ i # at + 1
        BY <1>1, <2>1
    <2>5. net[services[at + 1]] # 1
        BY <2>2, <2>3, <2>4 DEF LifeInv
    <2>6. net[services[at + 1]] = 0
        BY <2>2, <2>5 DEF LifeInv
    <2>7. net' \in [Service -> {0, 1}]
          /\ \A s \in Service : net'[s] = IF s = services[at + 1] THEN 1 ELSE net[s]
        BY <2>1, <2>2, <2>6 DEF LifeInv
    <2>8. \A i : i \in 1..(at + 1) <=> i \in 1..at \/ i = at + 1
        BY <1>1, <2>1
    <2>9. \A s \in Service : net'[s] = 1 <=> \E i \in 1..Depth' : services'[i] = s
        BY <1>2, <2>3, <2>7, <2>8 DEF LifeInv
    <2>10. at' \in 0..Len(services')
        BY <1>1, <1>2, <2>1
    <2> QED BY <1>2, <2>1, <2>7, <2>9, <2>10 DEF LifeInv
<1>5. CASE UnloadNext
    <2>1. /\ mu \in {"rollback", "unload"} /\ mu' = mu /\ loaded' = loaded
          /\ at \in 0..len /\ at > 0
          /\ at' = at - 1 /\ net' = [net EXCEPT ![services[at]] = @ - 1]
        BY <1>5 DEF UnloadNext, LifeInv
    <2>2. at \in 1..len /\ services[at] \in Service
        BY <1>1, <2>1
    <2>3. Depth = at /\ Depth' = at - 1
        BY <2>1 DEF Depth
    <2>4. \A i \in 1..(at - 1) : i \in 1..len /\ i # at
        BY <1>1, <2>1
    <2>5. at \in 1..at
        BY <2>1, <2>2
    <2>6. net[services[at]] = 1
        BY <2>2, <2>3, <2>5 DEF LifeInv
    <2>7. net' \in [Service -> {0, 1}]
          /\ \A s \in Service : net'[s] = IF s = services[at] THEN 0 ELSE net[s]
        BY <2>1, <2>2, <2>6 DEF LifeInv
    <2>8. \A i : i \in 1..at <=> i \in 1..(at - 1) \/ i = at
        BY <1>1, <2>1, <2>2
    <2>9. \A i \in 1..(at - 1) : services[i] # services[at]
        BY <2>2, <2>4 DEF LifeInv
    <2>10. \A s \in Service : net'[s] = 1 <=> \E i \in 1..Depth' : services'[i] = s
        BY <1>2, <2>3, <2>7, <2>8, <2>9 DEF LifeInv
    <2>11. at' \in 0..Len(services')
        BY <1>1, <1>2, <2>1, <2>2
    <2> QED BY <1>2, <2>1, <2>7, <2>10, <2>11 DEF LifeInv
<1> QED BY <1>3, <1>4, <1>5

\* What the properties of Lifecycle say of LifeInv.
LEMMA LifeOrder ==
    ASSUME LifeInv, mu \in {"free", "load", "rollback", "unload", "shutdown"}
    PROVE  DependencyOrder /\ AllOrNone
<1> DEFINE len == Len(services)
<1>1. len \in Nat /\ services \in [1..len -> Service] /\ DOMAIN services = 1..len
    BY LenProperties DEF LifeInv
<1>2. Depth \in 0..len
    BY <1>1 DEF Depth, LifeInv
<1>3. ASSUME NEW s \in Service, NEW n \in 0..len
      PROVE  s \in ToSet(SubSeq(services, 1, n)) <=> \E i \in 1..n : services[i] = s
    <2> DEFINE part == SubSeq(services, 1, n)
    <2>1. n \in Int /\ 1 \in Int /\ n \in Nat /\ \A i \in 1..n : services[i] \in Service
        BY <1>1
    <2>2. /\ part \in Seq(Service)
          /\ Len(part) = IF 1 <= n THEN n - 1 + 1 ELSE 0
          /\ \A i \in 1..(n - 1 + 1) : part[i] = services[1 + i - 1]
        BY <2>1, SubSeqProperties
    <2> HIDE DEF part
    <2>3. DOMAIN part = 1..n
        BY <2>1, <2>2, LenProperties
    <2>4. \A i \in 1..n : part[i] = services[i]
        BY <2>1, <2>2
    <2> QED BY <2>3, <2>4 DEF ToSet, part
<1>4. \A s \in Service :
          net[s] = IF s \in ToSet(SubSeq(services, 1, Depth)) THEN 1 ELSE 0
    BY <1>2, <1>3 DEF LifeInv
<1>5. DependencyOrder
    BY <1>2, <1>4 DEF DependencyOrder
<1>6. ASSUME mu = "free", NEW s \in Service
      PROVE  net[s] = IF loaded /\ s \in ToSet(services) THEN 1 ELSE 0
    <2>1. s \in ToSet(services) <=> \E i \in 1..len : services[i] = s
        BY <1>1 DEF ToSet
    <2>2. CASE loaded
        <3>1. Depth = len
            BY <1>6, <2>2 DEF Depth
        <3> QED BY <2>1, <2>2, <3>1 DEF LifeInv
    <2>3. CASE ~loaded
        <3>1. \A i : i \notin 1..Depth
            BY <1>6, <2>3 DEF Depth
        <3> QED BY <2>3, <3>1 DEF LifeInv
    <2> QED BY <2>2, <2>3
<1>7. AllOrNone
    BY <1>6 DEF AllOrNone
<1> QED BY <1>5, <1>7

-----------------------------------------------------------------------------
\* No runner is at work at first.
LEMMA InitMig == MigrationInit => MigInv
BY NobodyAssumption DEF MigrationInit, MigInv, LockExact, Operating

\* A runner goes to another place without a call that touches a lock, and
\* neither comes from an operation nor goes to one.
LEMMA MovesMig ==
    ASSUME MigInv, NEW r \in Runner, lock' = lock,
           NEW to \in {"next", "init", "lock", "end"}, mpc' = [mpc EXCEPT ![r] = to],
           ~(mpc[r] \in {"op", "unlock", "end"}), to \in {"init", "lock"} => DbAt(r) \in Eligible,
           \/ mat' = mat
           \/ to = "next" /\ mat' = [mat EXCEPT ![r] = @ + 1],
           \/ mres' = mres
           \/ to = "end" /\ \E res \in {"ok", "error", "crash"} : mres' = [mres EXCEPT ![r] = res]
    PROVE  MigInv'
<1>1. /\ mpc' \in [Runner -> {"idle", "next", "init", "lock", "op", "unlock", "end"}]
      /\ mpc'[r] = to /\ \A q \in Runner : q # r => mpc'[q] = mpc[q]
    BY DEF MigInv
<1>2. /\ mat' \in [Runner -> Nat] /\ mat[r] \in Nat
      /\ to # "next" => mat' = mat
      /\ \A q \in Runner : q # r => mat'[q] = mat[q]
    BY DEF MigInv
<1>3. /\ mres' \in [Runner -> {"none", "ok", "error", "lost", "crash"}]
      /\ to # "end" => mres' = mres
      /\ \A q \in Runner : q # r => mres'[q] = mres[q]
    BY DEF MigInv
<1>4. \A q \in Runner : q # r => DbAt(q)' = DbAt(q)
    BY <1>2 DEF DbAt
<1>5. to # "next" => DbAt(r)' = DbAt(r)
    BY <1>2 DEF DbAt
<1>6. \A q \in Runner : mpc'[q] \in {"init", "lock", "op", "unlock"} => DbAt(q)' \in Eligible
    BY <1>1, <1>4, <1>5 DEF MigInv
<1>7. \A q \in Runner : mres'[q] # "none" => mpc'[q] = "end"
    BY <1>1, <1>3 DEF MigInv
\* The runner had no lock.
<1>8. \A d \in Eligible : lock[d] # r
    <2>1. mres[r] = "none"
        BY DEF MigInv
    <2> QED BY <2>1, NobodyAssumption DEF MigInv, LockExact, Operating
<1>9. LockExact'
    <2> SUFFICES ASSUME NEW d \in Eligible
                 PROVE  /\ \A q \in Runner : Operating(q, d)' => lock'[d] = q
                        /\ lock'[d] # Nobody => \/ Operating(lock[d], d)'
                                                \/ mres'[lock[d]] \in {"lost", "crash"}
        BY DEF LockExact
    <2>1. ASSUME NEW q \in Runner
          PROVE  Operating(q, d)' <=> Operating(q, d)
        BY <1>1, <1>4 DEF Operating
    <2>2. lock[d] # Nobody => lock[d] \in Runner /\ lock[d] # r
        BY <1>8 DEF MigInv
    <2> QED BY <1>3, <2>1, <2>2 DEF MigInv, LockExact
<1> QED BY <1>1, <1>2, <1>3, <1>6, <1>7, <1>9 DEF MigInv

\* A runner at its database takes the lock, keeps it or gives it up.
LEMMA AtDatabaseMig ==
    ASSUME MigInv, NEW r \in Runner, mpc[r] \in {"lock", "op", "unlock"},
           mpc[r] = "lock" => lock[DbAt(r)] = Nobody,
           NEW o \in {r, Nobody}, lock' = [lock EXCEPT ![DbAt(r)] = o],
           NEW to \in {"next", "op", "unlock", "end"}, mpc' = [mpc EXCEPT ![r] = to],
           \/ mat' = mat
           \/ to = "next" /\ mat' = [mat EXCEPT ![r] = @ + 1],
           NEW res \in {"none", "error", "lost", "crash"}, mres' = [mres EXCEPT ![r] = res],
           res # "none" => to = "end",
           to \in {"op", "unlock"} => o = r,
           o = r => to \in {"op", "unlock"} \/ res \in {"lost", "crash"}
    PROVE  MigInv'
<1> DEFINE own == DbAt(r)
<1>1. /\ mpc' \in [Runner -> {"idle", "next", "init", "lock", "op", "unlock", "end"}]
      /\ mpc'[r] = to /\ \A q \in Runner : q # r => mpc'[q] = mpc[q]
    BY DEF MigInv
<1>2. /\ mat' \in [Runner -> Nat]
      /\ to # "next" => mat' = mat
      /\ \A q \in Runner : q # r => mat'[q] = mat[q]
    BY DEF MigInv
<1>3. /\ mres' \in [Runner -> {"none", "ok", "error", "lost", "crash"}]
      /\ mres'[r] = res /\ \A q \in Runner : q # r => mres'[q] = mres[q]
    BY DEF MigInv
<1>4. /\ \A q \in Runner : q # r => DbAt(q)' = DbAt(q)
      /\ to # "next" => DbAt(r)' = own
    BY <1>2 DEF DbAt
<1>5. own \in Eligible
    BY DEF MigInv
<1> HIDE DEF own
<1>6. /\ lock' \in [Eligible -> Runner \cup {Nobody}] /\ lock'[own] = o
      /\ \A d \in Eligible : d # own => lock'[d] = lock[d]
    BY <1>5 DEF MigInv, own
<1>7. \A q \in Runner : mpc'[q] \in {"init", "lock", "op", "unlock"} => DbAt(q)' \in Eligible
    BY <1>1, <1>4, <1>5 DEF MigInv
<1>8. \A q \in Runner : mres'[q] # "none" => mpc'[q] = "end"
    BY <1>1, <1>3 DEF MigInv
\* Nobody else is at work on this database, and the runner has no other lock.
<1>9. \A q \in Runner : q # r => ~Operating(q, own)
    BY <1>5, NobodyAssumption DEF MigInv, LockExact, Operating, own
<1>10. \A d \in Eligible : d # own => lock[d] # r
    <2>1. mres[r] = "none"
        BY DEF MigInv
    <2> QED BY <2>1, NobodyAssumption DEF MigInv, LockExact, Operating, own
<1>11. LockExact'
    <2> SUFFICES ASSUME NEW d \in Eligible
                 PROVE  /\ \A q \in Runner : Operating(q, d)' => lock'[d] = q
                        /\ lock'[d] # Nobody => \E q \in Runner :
                              q = lock'[d] /\ (Operating(q, d)' \/ mres'[q] \in {"lost", "crash"})
        BY DEF LockExact, Operating, DbAt
    <2>1. \A q \in Runner : q # r => (Operating(q, d)' <=> Operating(q, d))
        BY <1>1, <1>4 DEF Operating
    <2>2. Operating(r, d)' <=> to \in {"op", "unlock"} /\ d = own
        BY <1>1, <1>4 DEF Operating
    <2>3. CASE d = own
        BY <1>3, <1>6, <1>9, <2>1, <2>2, <2>3
    <2>4. CASE d # own
        <3>1. lock'[d] = lock[d] /\ lock[d] # r /\ lock[d] \in Runner \cup {Nobody}
            BY <1>6, <1>10, <2>4 DEF MigInv
        <3> QED BY <1>3, <2>1, <2>2, <2>4, <3>1 DEF MigInv, LockExact
    <2> QED BY <2>3, <2>4
<1> QED BY <1>1, <1>2, <1>3, <1>6, <1>7, <1>8, <1>11 DEF MigInv

\* Every step of a runner keeps the locks exact.
LEMMA RunnerMig ==
    ASSUME MigInv, NEW r \in Runner, Run(r) \/ Moves(r) \/ Crash(r)
    PROVE  MigInv'
<1>1. mpc[r] # "end" => mres[r] = "none"
    BY DEF MigInv
<1>2. mpc[r] \in {"lock", "op", "unlock"} => DbAt(r) \in Eligible
    BY DEF MigInv
<1>3. mpc[r] \in {"op", "unlock"} => lock[DbAt(r)] = r
    BY <1>2 DEF MigInv, LockExact, Operating
<1>4. mpc[r] \in {"op", "unlock"} => lock = [lock EXCEPT ![DbAt(r)] = r]
    BY <1>2, <1>3 DEF MigInv
<1>5. mres[r] = "none" => mres = [mres EXCEPT ![r] = "none"]
    BY DEF MigInv
<1>6. CASE Run(r) \/ Skip(r)
    BY <1>6, MovesMig DEF Run, Skip, Goes, MigInv
<1>7. CASE Begin(r) \/ Finish(r)
    BY <1>7, MovesMig DEF Begin, Finish, Goes, Returns
<1>8. CASE InitTables(r) \/ InitTablesFails(r)
    BY <1>8, MovesMig DEF InitTables, InitTablesFails, Goes, Returns, MigInv
<1>9. CASE LockFails(r)
    BY <1>9, MovesMig DEF LockFails, Returns
<1>10. CASE Lock(r)
    BY <1>1, <1>5, <1>10, AtDatabaseMig DEF Lock, Goes
<1>11. CASE LockAnswerLost(r)
    BY <1>11, AtDatabaseMig DEF LockAnswerLost, Returns
<1>12. CASE Operate(r)
    BY <1>1, <1>4, <1>5, <1>12, AtDatabaseMig DEF Operate, Goes
<1>13. CASE Unlock(r)
    <2>1. mpc[r] = "unlock" /\ lock' = [lock EXCEPT ![DbAt(r)] = Nobody]
        BY <1>13 DEF Unlock
    <2>2. CASE Returns(r, "error") /\ UNCHANGED mat
        BY <2>1, <2>2, NobodyAssumption, AtDatabaseMig DEF Returns
    <2>3. CASE /\ Goes(r, "unlock", "next")
               /\ mat' = [mat EXCEPT ![r] = @ + 1] /\ UNCHANGED mres
        <3>1. mres' = [mres EXCEPT ![r] = "none"] /\ mpc' = [mpc EXCEPT ![r] = "next"]
            BY <1>1, <1>5, <2>1, <2>3 DEF Goes
        <3> QED BY <2>1, <2>3, <3>1, NobodyAssumption, AtDatabaseMig
    <2> QED BY <1>13, <2>2, <2>3 DEF Unlock
<1>14. CASE UnlockFails(r)
    BY <1>14, AtDatabaseMig DEF UnlockFails, Returns
<1>15. CASE Crash(r)
    <2>1. CASE mpc[r] \in {"op", "unlock"}
        BY <1>4, <1>15, <2>1, AtDatabaseMig DEF Crash, Returns
    <2>2. CASE mpc[r] \in {"next", "init", "lock"}
        BY <1>15, <2>2, MovesMig DEF Crash, Returns
    <2> QED BY <1>15, <2>1, <2>2 DEF Crash
<1> QED BY <1>6, <1>7, <1>8, <1>9, <1>10, <1>11, <1>12, <1>13, <1>14, <1>15 DEF Moves

-----------------------------------------------------------------------------
\* What the steps of the process are to Lifecycle.
LEMMA InitsCalls ==
    ASSUME MainInits
    PROVE  UNCHANGED <<services, loaded, mu, at, net>> \/ Register(Configured)
<1>1. CASE \/ LoadOptions \/ RedisReady \/ InitRedisLock \/ InitToken \/ DatabasesReady
           \/ InitMigration \/ StartMigration \/ MigrationEnds \/ InitServicesRefused \/ Provide
    BY <1>1 DEF LoadOptions, RedisReady, InitRedisLock, InitToken, Takes, DatabasesReady,
                InitMigration, StartMigration, MigrationEnds, InitServicesRefused, Provide, lcVars
<1>2. CASE InitProvider("trace", "metrics") \/ InitProvider("metrics", "redis")
    BY <1>2 DEF InitProvider, Opens, lcVars
<1>3. CASE InitRedis \/ InitLimiter \/ InitDatabase
    BY <1>3 DEF InitRedis, InitLimiter, InitDatabase, Opens
<1>4. CASE InitServices
    BY <1>4 DEF InitServices
<1> QED BY <1>1, <1>2, <1>3, <1>4 DEF MainInits

LEMMA NextLife ==
    ASSUME LifeInv, ServerNext
    PROVE  LifeInv'
<1>1. CASE UNCHANGED <<services, loaded, mu, at, net>>
    BY <1>1, LifeKept
<1>2. CASE MainInits
    BY <1>1, <1>2, InitsCalls, RegisterLife, ServerAssumption
<1>3. CASE MainExits
    <2>1. CASE MainCall
        BY <2>1, LoadLife, LifeKept DEF MainCall, MainCalls, CallShutdown
    <2>2. CASE MainReturns \/ Exit \/ ClosePubSub \/ Sleep \/ MainEnds
        BY <1>1, <2>2 DEF MainReturns, Exit, ClosePubSub, Sleep, MainEnds, lcVars
    <2> QED BY <1>3, <2>1, <2>2 DEF MainExits
<1>4. CASE HolderStep \/ HolderDone
    BY <1>4, LoadLife, LifeKept DEF HolderStep, HolderSteps, HolderDone, HookNext, HookDone
<1>5. CASE OtherCall
    <2>1. CASE \E svcs \in Batches : Register(svcs)
        BY <2>1, RegisterLife, BatchAssumption
    <2>2. CASE AddShutdown(1)
        BY <1>1, <2>2 DEF AddShutdown
    <2>3. CASE CallLoad \/ CallUnload
        BY <2>3, LoadLife
    <2> QED BY <1>5, <2>1, <2>2, <2>3 DEF OtherCall
<1>6. CASE InitFails \/ Killed \/ OtherStore \/ Signal \/ Migrates
    BY <1>1, <1>6 DEF InitFails, Killed, OtherStore, Signal, Migrates, lcVars
<1>7. CASE \E q \in Request : Arrive(q) \/ Refuse(q) \/ RequestStep(q)
    BY <1>1, <1>7 DEF Arrive, Refuse, RequestStep, Admit, Answer, Passes, lcVars
<1> QED BY <1>2, <1>3, <1>4, <1>5, <1>6, <1>7 DEF ServerNext

LEMMA NextMig ==
    ASSUME MigInv, ServerNext
    PROVE  MigInv'
<1>1. CASE UNCHANGED mvars
    BY <1>1 DEF mvars, MigInv, LockExact, Operating, DbAt
<1>2. CASE StartMigration \/ Killed \/ Migrates
    BY <1>2, RunnerMig, ServerAssumption DEF StartMigration, Killed, Migrates
<1>3. MainInits => UNCHANGED mvars \/ StartMigration
    BY DEF MainInits, LoadOptions, InitProvider, InitRedis, RedisReady, InitRedisLock, InitLimiter,
           InitToken, Takes, InitDatabase, DatabasesReady, InitMigration, MigrationEnds,
           InitServices, InitServicesRefused, Provide, Rest
<1>4. MainExits \/ InitFails \/ HolderStep \/ HolderDone \/ OtherCall \/ OtherStore \/ Signal
          => UNCHANGED mvars
    BY DEF MainExits, MainCall, MainReturns, Exit, ClosePubSub, Sleep, MainEnds, InitFails,
           HolderStep, HolderDone, OtherCall, OtherStore, Signal, Rest
<1>5. (\E q \in Request : Arrive(q) \/ Refuse(q) \/ RequestStep(q)) => UNCHANGED mvars
    BY DEF Arrive, Refuse, RequestStep, Admit, Answer, Passes
<1> QED BY <1>1, <1>2, <1>3, <1>4, <1>5 DEF ServerNext
-----------------------------------------------------------------------------
InitStages == {"start", "trace", "metrics", "redis", "redlock", "limiter", "token", "opendb",
               "migration", "migrating", "services", "provide"}

\* How main goes through its start: by itself, with the mutex as it was.
LEMMA InitsStage ==
    ASSUME MainInits \/ InitFails \/ Killed, StageInv
    PROVE  /\ UNCHANGED <<mu, by, ran, shutdown, op, isClosed, rpc, waited>>
           /\ stage \in InitStages
           /\ \/ code' = code /\ stage' \in InitStages \cup {"load"}
                 /\ (stage' = "migrating" => op # "none")
              \/ stage' = "gone" /\ code' \in {0, 1, 137} /\ (code' = 0 => op # "none")
<1>1. CASE LoadOptions \/ RedisReady \/ InitRedisLock \/ InitToken \/ DatabasesReady
    BY <1>1 DEF LoadOptions, RedisReady, InitRedisLock, InitToken, Takes, DatabasesReady,
                Step, Rest, lcVars, InitStages
<1>2. CASE InitProvider("trace", "metrics") \/ InitProvider("metrics", "redis")
    BY <1>2 DEF InitProvider, Opens, Step, Rest, lcVars, InitStages
<1>3. CASE InitRedis \/ InitLimiter \/ InitDatabase
    BY <1>3 DEF InitRedis, InitLimiter, InitDatabase, Opens, Step, Rest, InitStages
<1>4. CASE InitMigration \/ StartMigration \/ MigrationEnds
    BY <1>4 DEF InitMigration, StartMigration, MigrationEnds, Step, Exits, Rest, lcVars,
                InitStages, StageInv
<1>5. CASE InitServices \/ InitServicesRefused \/ Provide
    BY <1>5 DEF InitServices, InitServicesRefused, Provide, Register, Step, Exits, Rest, lcVars,
                InitStages
<1>6. CASE InitFails \/ Killed
    BY <1>6 DEF InitFails, Killed, Exits, Rest, lcVars, InitStages
<1> QED BY <1>1, <1>2, <1>3, <1>4, <1>5, <1>6 DEF MainInits

LEMMA NextStage ==
    ASSUME StageInv, ServerNext
    PROVE  StageInv'
<1>1. CASE UNCHANGED <<stage, code, mu, by, ran, shutdown, op>>
    BY <1>1 DEF StageInv
<1>2. CASE MainInits \/ InitFails \/ Killed
    BY <1>2, InitsStage DEF StageInv, InitStages, Stages
<1>3. CASE MainCall
    BY <1>3 DEF MainCall, MainCalls, Calls, CallLoad, CallUnload, CallShutdown, StageInv
<1>4. CASE MainReturns
    BY <1>4 DEF MainReturns, Step, After, Rest, lcVars, StageInv, Stages
<1>5. CASE Exit \/ ClosePubSub \/ Sleep
    BY <1>5 DEF Exit, ClosePubSub, Sleep, Step, lcVars, StageInv, Stages
<1>6. CASE MainEnds
    BY <1>6 DEF MainEnds, Exits, Rest, lcVars, StageInv, Stages
<1>7. CASE HolderStep
    <2>1. UNCHANGED <<stage, code, by, op, shutdown>>
        BY <1>7 DEF HolderStep, HolderSteps, LoadNext, LoadFails, UnloadNext, HookNext, Rest
    <2>2. \/ mu' = mu /\ ran' = ran
          \/ mu = "load" /\ mu' = "rollback" /\ ran' = ran
          \/ mu = "shutdown" /\ mu' = mu
        BY <1>7 DEF HolderStep, HolderSteps, LoadNext, LoadFails, UnloadNext, HookNext
    <2> QED BY <2>1, <2>2 DEF StageInv
<1>8. CASE HolderDone
    <2>1. code = -1 /\ UNCHANGED <<code, op, ran>> /\ by' = "none" /\ mu' = "free"
        BY <1>8 DEF HolderDone, Running, LoadDone, UnloadDone, HookDone
    <2>2. CASE mu \in {"load", "rollback", "unload"}
        <3>1. shutdown' = shutdown
            BY <1>8, <2>2 DEF HolderDone, LoadDone, UnloadDone, HookDone
        <3>2. \/ stage' = stage
              \/ stage = "load" /\ stage' = "run"
              \/ stage = "unload" /\ stage' = "pubsub"
            BY <1>8, <2>2 DEF HolderDone, After, StageInv
        <3> QED BY <2>1, <2>2, <3>1, <3>2 DEF StageInv, Stages
    <2>3. CASE mu = "shutdown"
        <3>1. shutdown' = TRUE /\ stage' = "exit"
            BY <1>8, <2>3 DEF HolderDone, LoadDone, UnloadDone, HookDone, After, StageInv
        <3> QED BY <2>1, <3>1 DEF StageInv, Stages
    <2> QED BY <1>8, <2>2, <2>3 DEF HolderDone, LoadDone, UnloadDone, HookDone
<1>9. CASE OtherCall
    <2>1. code = -1 /\ UNCHANGED <<stage, code, op, ran, shutdown>> /\ mu = "free"
          /\ stage \notin {"exit", "gone"}
        BY <1>9 DEF OtherCall, Others, Running, Calls, Register, AddShutdown, CallLoad, CallUnload
    <2>2. \/ UNCHANGED <<mu, by>>
          \/ by' = "others" /\ mu' \in {"load", "unload"}
        BY <1>9 DEF OtherCall, Calls, Register, AddShutdown, CallLoad, CallUnload
    <2> QED BY <1>1, <2>1, <2>2 DEF StageInv
<1>10. CASE OtherStore \/ Signal \/ Migrates
    BY <1>1, <1>10 DEF OtherStore, Signal, Migrates, Rest, lcVars, svVars
<1>11. CASE \E q \in Request : Arrive(q) \/ Refuse(q) \/ RequestStep(q)
    BY <1>1, <1>11 DEF Arrive, Refuse, RequestStep, Admit, Answer, Passes, lcVars
<1> QED BY <1>2, <1>3, <1>4, <1>5, <1>6, <1>7, <1>8, <1>9, <1>10, <1>11
        DEF ServerNext, MainExits

LEMMA NextRequest ==
    ASSUME StageInv, RequestInv, ServerNext
    PROVE  RequestInv'
<1>1. ASSUME UNCHANGED rpc
      PROVE  InProgress' = InProgress
    BY <1>1 DEF InProgress
<1>2. CASE UNCHANGED <<stage, ran, rpc, isClosed, waited>>
    BY <1>1, <1>2 DEF RequestInv
<1>3. CASE MainInits \/ InitFails \/ Killed
    BY <1>1, <1>3, InitsStage DEF StageInv, InitStages, RequestInv
<1>4. CASE MainCall
    BY <1>2, <1>4 DEF MainCall, MainCalls, Calls, CallLoad, CallUnload, CallShutdown
<1>5. CASE MainReturns
    BY <1>1, <1>5 DEF MainReturns, Step, After, Rest, lcVars, RequestInv
<1>6. CASE Exit \/ ClosePubSub \/ Sleep
    BY <1>1, <1>6 DEF Exit, ClosePubSub, Sleep, Step, lcVars, RequestInv, StageInv
<1>7. CASE MainEnds
    BY <1>1, <1>7 DEF MainEnds, Exits, Rest, lcVars, RequestInv
<1>8. CASE HolderStep
    <2>1. UNCHANGED <<stage, rpc, isClosed, waited>> /\ (ran' = ran \/ stage = "shutdown")
        BY <1>8 DEF HolderStep, HolderSteps, LoadNext, LoadFails, UnloadNext, HookNext, Rest, StageInv
    <2> QED BY <1>1, <2>1 DEF RequestInv
<1>9. CASE HolderDone
    <2>1. UNCHANGED <<ran, rpc, isClosed, waited>>
        BY <1>9 DEF HolderDone, LoadDone, UnloadDone, HookDone
    <2>2. \/ stage' = stage
          \/ stage = "load" /\ stage' = "run"
          \/ stage = "unload" /\ stage' = "pubsub"
          \/ stage = "shutdown" /\ stage' = "exit"
        BY <1>9 DEF HolderDone, LoadDone, UnloadDone, HookDone, After, StageInv
    <2> QED BY <1>1, <2>1, <2>2 DEF RequestInv
<1>10. CASE OtherCall
    BY <1>2, <1>10 DEF OtherCall, Calls, Register, AddShutdown, CallLoad, CallUnload
<1>11. CASE OtherStore \/ Signal \/ Migrates
    BY <1>2, <1>11 DEF OtherStore, Signal, Migrates, Rest, lcVars, svVars
<1>12. ASSUME Serving, NEW q \in Request, Arrive(q) \/ Refuse(q) \/ RequestStep(q)
       PROVE  RequestInv'
    <2>1. /\ UNCHANGED <<stage, ran, isClosed, waited>>
          /\ stage \notin {"gone"}
          /\ \E to \in {"check", "handle", "done"} : rpc' = [rpc EXCEPT ![q] = to]
          /\ \/ ~isClosed
             \/ rpc'[q] = "done" \/ rpc[q] = "check"
        BY <1>12 DEF Serving, Arrive, Refuse, RequestStep, Admit, Answer, Passes, lcVars, RequestInv
    <2>2. rpc' \in [Request -> {"idle", "check", "handle", "done"}]
          /\ \A r \in Request : r # q => rpc'[r] = rpc[r]
        BY <2>1 DEF RequestInv
    <2>3. ~isClosed \/ InProgress' \subseteq InProgress
        BY <2>1, <2>2 DEF InProgress
    <2>4. ~isClosed => stage \notin {"unload", "pubsub", "sleep", "shutdown", "exit"} /\ ran = <<>>
        BY <2>1 DEF RequestInv, StageInv
    <2> QED BY <2>1, <2>2, <2>3, <2>4 DEF RequestInv
<1> QED BY <1>3, <1>4, <1>5, <1>6, <1>7, <1>8, <1>9, <1>10, <1>11, <1>12
        DEF ServerNext, MainExits
-----------------------------------------------------------------------------
PastProviders == stage \notin {"start", "trace", "metrics", "gone"}

\* The resources are told apart by their kinds, which say what their layer is.
LEMMA Layers ==
    /\ \A p : Layer(Provider(p)) = 1
    /\ \A name, k : Layer(Client(name, k)) = 2 /\ Client(name, k) # Other
                    /\ Client(name, k) # Limiter
    /\ Layer(Limiter) = 3 /\ Limiter # Other
    /\ \A name : Layer(Database(name)) = 4
    /\ Layer(Other) = 5
    /\ \A p : Provider(p) # Other /\ Provider(p) # Limiter
    /\ \A name : Database(name) # Other /\ Database(name) # Limiter
BY DEF Layer, Provider, Client, Limiter, Database, Other

\* The first client of a redis is among the clients of the configuration.
LEMMA FirstClient ==
    ASSUME NEW name \in DOMAIN RedisDbs, NEW k \in DOMAIN RedisDbs[name]
    PROVE  /\ 1 \in DOMAIN RedisDbs[name] /\ k \in Nat /\ k >= 1
           /\ Client(name, 1) \in Clients /\ Client(name, k) \in Clients
<1>1. RedisDbs[name] \in Seq(Nat)
    BY ServerAssumption
<1>2. DOMAIN RedisDbs[name] = 1..Len(RedisDbs[name]) /\ Len(RedisDbs[name]) \in Nat
    BY <1>1, LenProperties
<1>3. 1 \in 1..Len(RedisDbs[name]) /\ k \in 1..Len(RedisDbs[name])
    BY <1>2
<1> QED BY <1>2, <1>3 DEF Clients

\* What the steps that add no hook, and run none, keep.
LEMMA HookKept ==
    ASSUME HookInv,
           UNCHANGED <<hooks, hookOf, open, ran>>, Left' = Left,
           mu' = "shutdown" => at' \in 0..hooks',
           \A name \in DOMAIN rdbs'.dbOf : Client(name, 1) \in Hooked,
           stage' \in {"token", "opendb"} => todo' \subseteq Databases,
           \/ stage' = stage /\ (todo' = todo \/ stage # "redis")
           \/ stage = "start" /\ stage' = "trace"
           \/ stage' = "gone"
           \/ PastProviders /\ PastProviders' /\ Reached <= Reached' /\ stage' # "redis"
    PROVE  HookInv'
<1>1. Hooked' = Hooked /\ hooks' = hooks /\ hookOf' = hookOf
    BY DEF Hooked
<1>2. OpenExact'
    BY <1>1 DEF OpenExact, HookInv
<1>3. \A i \in 1..hooks : Layer(hookOf[i]) \in Nat /\ Reached \in Nat /\ Reached' \in Nat
    BY DEF Layer, Reached
<1>4. Reached <= Reached'
    BY DEF Reached
<1>5. \A i \in 1..hooks : Layer(hookOf[i]) <= Reached'
    BY <1>3, <1>4 DEF HookInv
<1>6. \/ stage' \notin {"start", "trace", "metrics", "gone"}
      \/ \E i \in 1..hooks : Layer(hookOf[i]) > 1
      => \A p \in Providers : Provider(p) \in Hooked
    BY DEF HookInv, PastProviders
<1>7. stage' = "metrics" /\ "trace" \in Providers => Provider("trace") \in Hooked
    BY DEF HookInv, PastProviders
<1>8. stage' = "redis" => Clients \ todo' \subseteq Hooked
    BY DEF HookInv
<1> QED BY <1>1, <1>2, <1>5, <1>6, <1>7, <1>8 DEF HookInv

\* A hook is added for a resource of a layer that has been reached, and of none before.
LEMMA HookAdded ==
    ASSUME HookInv, mu = "free", ~shutdown, UNCHANGED <<mu, shutdown, ran>>,
           NEW r \in Resource, Reached <= Layer(r), Layer(r) <= Reached',
           hooks' = hooks + 1, hookOf' = Append(hookOf, r), open' = open \cup ({r} \ {Other}),
           stage' = "metrics" /\ "trace" \in Providers => Provider("trace") \in Hooked \cup {r},
           PastProviders' \/ Layer(r) > 1 =>
               \A p \in Providers : Provider(p) \in Hooked \cup {r},
           r = Limiter => Client("limiter", 1) \in Hooked,
           stage' = "redis" => Clients \ todo' \subseteq Hooked \cup {r},
           stage' \in {"token", "opendb"} => todo' \subseteq Databases,
           \A name \in DOMAIN rdbs'.dbOf : Client(name, 1) \in Hooked \cup {r}
    PROVE  HookInv'
<1>1. hookOf \in Seq(Resource) /\ Len(hookOf) = hooks /\ hooks \in Nat
    BY LenProperties DEF HookInv
<1>2. /\ hookOf' \in Seq(Resource) /\ Len(hookOf') = hooks' /\ hooks' = hooks + 1
      /\ \A i \in 1..hooks : hookOf'[i] = hookOf[i]
      /\ hookOf'[hooks + 1] = r
    BY <1>1, AppendProperties
<1>3. \A i : i \in 1..hooks' <=> i \in 1..hooks \/ i = hooks + 1
    BY <1>1
<1>4. Hooked' = Hooked \cup {r}
    BY <1>2, <1>3 DEF Hooked
<1>5. \A i \in 1..hooks : Layer(hookOf[i]) <= Layer(r)
    <2> TAKE i \in 1..hooks
    <2>1. Layer(hookOf[i]) <= Reached
        BY DEF HookInv
    <2>2. Layer(hookOf[i]) \in Nat /\ Reached \in Nat /\ Layer(r) \in Nat
        BY DEF Layer, Reached
    <2> QED BY <2>1, <2>2
<1>6. \A i, j \in 1..hooks' : i < j => Layer(hookOf'[i]) <= Layer(hookOf'[j])
    <2> SUFFICES ASSUME NEW i \in 1..hooks', NEW j \in 1..hooks', i < j
                 PROVE  Layer(hookOf'[i]) <= Layer(hookOf'[j])
        OBVIOUS
    <2>1. i \in 1..hooks /\ hookOf'[i] = hookOf[i]
        BY <1>1, <1>2
    <2>2. CASE j \in 1..hooks
        BY <1>2, <2>1, <2>2 DEF HookInv
    <2>3. CASE j = hooks + 1
        BY <1>2, <1>5, <2>1, <2>3
    <2> QED BY <1>3, <2>2, <2>3
<1>7. \A i \in 1..hooks' : Layer(hookOf'[i]) <= Reached'
    <2> TAKE i \in 1..hooks'
    <2>1. CASE i \in 1..hooks
        <3>1. Layer(hookOf[i]) <= Layer(r) /\ hookOf'[i] = hookOf[i]
            BY <1>2, <1>5, <2>1
        <3>2. Layer(hookOf[i]) \in Nat /\ Reached' \in Nat /\ Layer(r) \in Nat
            BY DEF Layer, Reached
        <3> QED BY <3>1, <3>2
    <2>2. CASE i = hooks + 1
        BY <1>2, <2>2
    <2> QED BY <1>3, <2>1, <2>2
<1>8. Left = hooks /\ Left' = hooks'
    BY DEF Left
<1>9. OpenExact'
    <2>1. \A i \in 1..hooks : i <= Left
        BY <1>1, <1>8
    <2>2. \A i \in 1..hooks' : i <= Left'
        BY <1>2, <1>8
    <2>3. open = Hooked \ {Other}
        BY <2>1 DEF HookInv, OpenExact
    <2>4. open' = Hooked' \ {Other}
        BY <1>4, <2>3
    <2> QED BY <2>2, <2>4 DEF OpenExact
<1>10. \/ stage' \notin {"start", "trace", "metrics", "gone"}
       \/ \E i \in 1..hooks' : Layer(hookOf'[i]) > 1
       => \A p \in Providers : Provider(p) \in Hooked'
    <2>1. CASE PastProviders' \/ Layer(r) > 1
        BY <1>4, <2>1
    <2>2. CASE \E i \in 1..hooks : Layer(hookOf[i]) > 1
        BY <1>4, <2>2 DEF HookInv
    <2> QED BY <1>2, <1>3, <2>1, <2>2 DEF PastProviders
<1>11. Limiter \in Hooked' => Client("limiter", 1) \in Hooked'
    BY <1>4 DEF HookInv
<1> QED BY <1>2, <1>4, <1>6, <1>7, <1>9, <1>10, <1>11 DEF HookInv

\* Shutdown, from the last hook to the first.
LEMMA HookRun ==
    ASSUME HookInv, StageInv,
           \/ (CallShutdown \/ HookDone) /\ UNCHANGED open
           \/ HookNext /\ open' = open \ {hookOf[at]},
           UNCHANGED <<hookOf, rdbs>>,
           \/ stage' = stage /\ todo' = todo
           \/ stage = "shutdown" /\ stage' = "exit"
    PROVE  HookInv'
<1>1. hookOf \in Seq(Resource) /\ Len(hookOf) = hooks /\ hooks \in Nat
    BY LenProperties DEF HookInv
<1>2. hooks' = hooks /\ Hooked' = Hooked
    BY DEF CallShutdown, HookNext, HookDone, Hooked
<1>3. CASE (CallShutdown \/ HookDone) /\ UNCHANGED open
    <2>1. Left' = Left
        BY <1>1, <1>3 DEF CallShutdown, HookDone, Left
    <2>2. mu' = "shutdown" => at' \in 0..hooks'
        BY <1>1, <1>2, <1>3 DEF CallShutdown, HookDone
    <2>3. UNCHANGED <<hooks, hookOf, open, ran>>
        BY <1>3 DEF CallShutdown, HookDone, HookNext
    <2>4. \/ stage' = stage /\ todo' = todo
          \/ PastProviders /\ PastProviders' /\ Reached <= Reached' /\ stage' # "redis"
        BY DEF PastProviders, Reached
    <2>5. \A name \in DOMAIN rdbs'.dbOf : Client(name, 1) \in Hooked
        BY DEF HookInv
    <2>6. stage' \in {"token", "opendb"} => todo' \subseteq Databases
        BY DEF HookInv
    <2> QED BY <2>1, <2>2, <2>3, <2>4, <2>5, <2>6, HookKept
<1>4. CASE HookNext /\ open' = open \ {hookOf[at]}
    <2>1. /\ mu = "shutdown" /\ mu' = mu /\ at \in 0..hooks /\ at > 0 /\ at' = at - 1
          /\ ran' = Append(ran, at) /\ ran \in Seq(Nat)
        BY <1>4 DEF HookNext, HookInv
    <2>2. at \in 1..hooks /\ at' \in 0..hooks /\ at \in Nat
        BY <1>1, <2>1
    <2>3. ran' \in Seq(Nat)
        BY <2>1, <2>2, AppendProperties
    <2>4. Left = at /\ Left' = at - 1
        BY <2>1 DEF Left
    <2>5. \A i \in 1..hooks : i <= at - 1 <=> i <= at /\ i # at
        BY <1>1, <2>2
    <2>6. \A x : (\A i \in 1..hooks : hookOf[i] = x => i <= at - 1)
                  <=> (\A i \in 1..hooks : hookOf[i] = x => i <= at) /\ x # hookOf[at]
        BY <2>2, <2>5
    <2>7. OpenExact'
        BY <1>2, <1>4, <2>4, <2>6 DEF OpenExact, HookInv
    <2>8. \A i \in 1..hooks : Layer(hookOf[i]) <= Reached'
        <3> TAKE i \in 1..hooks
        <3>1. Layer(hookOf[i]) \in Nat /\ Reached \in Nat /\ Reached' \in Nat
            BY DEF Layer, Reached
        <3>2. Reached <= Reached'
            BY DEF Reached
        <3> QED BY <3>1, <3>2 DEF HookInv
    <2>9. stage' \notin {"metrics", "redis"} /\ PastProviders
        BY <2>1 DEF StageInv, PastProviders
    <2> QED BY <1>2, <2>1, <2>2, <2>3, <2>7, <2>8, <2>9 DEF HookInv, PastProviders
<1> QED BY <1>3, <1>4

\* Opens, as HookAdded wants it.
LEMMA OpensHook ==
    ASSUME StageInv, HookInv, Running, NEW r, r # Other, Opens(r), stage # "exit"
    PROVE  /\ mu = "free" /\ ~shutdown /\ UNCHANGED <<mu, shutdown, ran>>
           /\ hooks' = hooks + 1 /\ hookOf' = Append(hookOf, r)
           /\ open' = open \cup ({r} \ {Other})
BY DEF Opens, StageInv, Running

LEMMA ProviderHook ==
    ASSUME StageInv, HookInv, NEW p \in {"trace", "metrics"},
           NEW next \in {"metrics", "redis"}, p = "trace" <=> next = "metrics",
           InitProvider(p, next)
    PROVE  HookInv'
<1>1. Running /\ stage = p /\ stage' = next /\ todo' = Clients /\ rdbs' = rdbs
    BY DEF InitProvider, Step
<1>2. Reached = 1 /\ Reached' \in {1, 2} /\ Reached \in Nat
    BY <1>1 DEF Reached
<1>3. \A name \in DOMAIN rdbs'.dbOf : Client(name, 1) \in Hooked
    BY <1>1 DEF HookInv
<1>4. CASE p \in Providers
    <2> DEFINE r == Provider(p)
    <2>1. Opens(r) /\ r \in Resource /\ Layer(r) = 1 /\ r # Other /\ r # Limiter
        BY <1>4, Layers DEF InitProvider, Resource
    <2> HIDE DEF r
    <2>2. /\ mu = "free" /\ ~shutdown /\ UNCHANGED <<mu, shutdown, ran>>
          /\ hooks' = hooks + 1 /\ hookOf' = Append(hookOf, r)
          /\ open' = open \cup ({r} \ {Other})
        BY <1>1, <2>1, OpensHook
    <2>3. stage' = "metrics" => p = "trace"
        BY <1>1
    <2>4. stage' = "redis" => p = "metrics" /\ stage = "metrics"
        BY <1>1
    <2>5. PastProviders' => stage' = "redis"
        BY <1>1 DEF PastProviders
    <2>6. stage' = "redis" => \A q \in Providers : Provider(q) \in Hooked \cup {r}
        BY <2>4, ServerAssumption DEF HookInv, r
    <2>7. stage' = "metrics" /\ "trace" \in Providers => Provider("trace") \in Hooked \cup {r}
        BY <2>3 DEF r
    <2>8. Clients \ todo' \subseteq Hooked \cup {r}
        BY <1>1
    <2>9. \A name \in DOMAIN rdbs'.dbOf : Client(name, 1) \in Hooked \cup {r}
        BY <1>3
    <2>10. Reached <= Layer(r) /\ Layer(r) <= Reached' /\ ~(Layer(r) > 1)
        BY <1>2, <2>1
    <2>11. stage' \notin {"token", "opendb"}
        BY <1>1
    <2> QED BY <2>1, <2>2, <2>5, <2>6, <2>7, <2>8, <2>9, <2>10, <2>11, HookAdded
<1>5. CASE p \notin Providers
    <2>1. UNCHANGED <<lcVars, hookOf, open>>
        BY <1>5 DEF InitProvider
    <2>2. UNCHANGED <<hooks, ran, mu, at, shutdown>> /\ Left' = Left /\ Hooked' = Hooked
        BY <2>1 DEF lcVars, Left, Hooked
    <2>3. OpenExact'
        BY <2>1, <2>2 DEF OpenExact, HookInv
    <2>4. \A i \in 1..hooks : Layer(hookOf[i]) <= Reached'
        <3> TAKE i \in 1..hooks
        <3>1. Layer(hookOf[i]) \in Nat /\ Layer(hookOf[i]) <= Reached
            BY DEF Layer, HookInv
        <3> QED BY <1>2, <3>1
    <2>5. stage' = "metrics" => "trace" \notin Providers
        BY <1>1, <1>5
    <2>6. stage' = "redis" => \A q \in Providers : Provider(q) \in Hooked
        BY <1>1, <1>5, ServerAssumption DEF HookInv
    <2>7. (\E i \in 1..hooks : Layer(hookOf[i]) > 1)
              => \A q \in Providers : Provider(q) \in Hooked
        BY DEF HookInv
    <2> QED BY <1>1, <1>3, <2>1, <2>2, <2>3, <2>4, <2>5, <2>6, <2>7 DEF HookInv
<1> QED BY <1>4, <1>5

LEMMA RedisHook ==
    ASSUME StageInv, HookInv, InitRedis
    PROVE  HookInv'
<1>0. PICK name \in DOMAIN RedisDbs : \E k \in DOMAIN RedisDbs[name] :
          /\ NextClient(name, k)
          /\ todo' = todo \ {Client(name, k)}
          /\ Opens(Client(name, k))
          /\ rdbs' = RedisSet(rdbs, name, RedisDbs[name][k], Client(name, k))
    BY DEF InitRedis
<1>1. PICK k \in DOMAIN RedisDbs[name] :
          /\ NextClient(name, k)
          /\ todo' = todo \ {Client(name, k)}
          /\ Opens(Client(name, k))
          /\ rdbs' = RedisSet(rdbs, name, RedisDbs[name][k], Client(name, k))
    BY <1>0
<1> DEFINE r == Client(name, k)
<1>2. Running /\ stage = "redis" /\ stage' = "redis"
    BY DEF InitRedis, Step
<1>3. r \in Resource /\ Layer(r) = 2 /\ r # Other /\ r # Limiter
    BY FirstClient, Layers DEF Resource
<1>4. Reached = 2 /\ Reached' = 2
    BY <1>2 DEF Reached
\* The clients before this one have been opened.
<1>5. Client(name, 1) \in Hooked \cup {r}
    <2>1. CASE k = 1
        BY <2>1
    <2>2. CASE k # 1
        <3>1. 1 \in DOMAIN RedisDbs[name] /\ k \in Nat /\ k >= 1 /\ Client(name, 1) \in Clients
            BY FirstClient
        <3>2. Client(name, 1) \notin todo
            BY <1>1, <2>2, <3>1 DEF NextClient
        <3> QED BY <1>2, <3>1, <3>2 DEF HookInv
    <2> QED BY <2>1, <2>2
<1>6. \A x \in DOMAIN rdbs'.dbOf : x \in DOMAIN rdbs.dbOf \/ x = name
    BY <1>1 DEF RedisSet, Put
<1>7. \A x \in DOMAIN rdbs'.dbOf : Client(x, 1) \in Hooked \cup {r}
    BY <1>5, <1>6 DEF HookInv
<1>8. Clients \ todo' \subseteq Hooked \cup {r}
    BY <1>1, <1>2 DEF HookInv
<1>9. \A p \in Providers : Provider(p) \in Hooked \cup {r}
    BY <1>2 DEF HookInv
<1>10. Opens(r)
    BY <1>1
<1> HIDE DEF r
<1>11. /\ mu = "free" /\ ~shutdown /\ UNCHANGED <<mu, shutdown, ran>>
       /\ hooks' = hooks + 1 /\ hookOf' = Append(hookOf, r)
       /\ open' = open \cup ({r} \ {Other})
    BY <1>2, <1>3, <1>10, OpensHook
<1>12. Reached <= Layer(r) /\ Layer(r) <= Reached'
    BY <1>3, <1>4
<1> QED BY <1>2, <1>3, <1>7, <1>8, <1>9, <1>11, <1>12, HookAdded

LEMMA LimiterHook ==
    ASSUME StageInv, HookInv, InitLimiter
    PROVE  HookInv'
<1>1. /\ Running /\ stage = "limiter" /\ stage' = "token" /\ Opens(Limiter)
      /\ rdbs' = rdbs /\ todo' = Databases
    BY DEF InitLimiter, Step
<1>2. Limiter \in Resource /\ Layer(Limiter) = 3 /\ Limiter # Other
    BY Layers DEF Resource
<1>3. Client("limiter", 1) \in Hooked
    BY DEF InitLimiter, RedisGet, HookInv
<1>4. /\ mu = "free" /\ ~shutdown /\ UNCHANGED <<mu, shutdown, ran>>
      /\ hooks' = hooks + 1 /\ hookOf' = Append(hookOf, Limiter)
      /\ open' = open \cup ({Limiter} \ {Other})
    BY <1>1, <1>2, OpensHook
<1>5. Reached = 2 /\ Reached' = 3 /\ stage' \notin {"metrics", "redis"}
    BY <1>1 DEF Reached
<1>6. \A p \in Providers : Provider(p) \in Hooked
    BY <1>1 DEF HookInv
<1>7. \A name \in DOMAIN rdbs'.dbOf : Client(name, 1) \in Hooked
    BY <1>1 DEF HookInv
<1>8. Reached <= Layer(Limiter) /\ Layer(Limiter) <= Reached'
    BY <1>2, <1>5
<1> QED BY <1>1, <1>2, <1>3, <1>4, <1>5, <1>6, <1>7, <1>8, HookAdded

LEMMA DatabaseHook ==
    ASSUME StageInv, HookInv, InitDatabase
    PROVE  HookInv'
<1>1. PICK d \in todo : todo' = todo \ {d} /\ Opens(Database(d))
    BY DEF InitDatabase
<1> DEFINE r == Database(d)
<1>2. Running /\ stage = "opendb" /\ stage' = "opendb" /\ rdbs' = rdbs
      /\ todo \subseteq Databases /\ todo' \subseteq Databases
    BY <1>1 DEF InitDatabase, Step, HookInv
<1>3. r \in Resource /\ Layer(r) = 4 /\ r # Other /\ r # Limiter /\ Opens(r)
    BY <1>1, <1>2, Layers DEF Resource
<1> HIDE DEF r
<1>4. /\ mu = "free" /\ ~shutdown /\ UNCHANGED <<mu, shutdown, ran>>
      /\ hooks' = hooks + 1 /\ hookOf' = Append(hookOf, r)
      /\ open' = open \cup ({r} \ {Other})
    BY <1>2, <1>3, OpensHook
<1>5. Reached = 4 /\ Reached' = 4 /\ stage' \notin {"metrics", "redis"}
    BY <1>2 DEF Reached
<1>6. \A p \in Providers : Provider(p) \in Hooked
    BY <1>2 DEF HookInv
<1>7. \A name \in DOMAIN rdbs'.dbOf : Client(name, 1) \in Hooked
    BY <1>2 DEF HookInv
<1>8. Reached <= Layer(r) /\ Layer(r) <= Reached'
    BY <1>3, <1>5
<1> QED BY <1>2, <1>3, <1>4, <1>5, <1>6, <1>7, <1>8, HookAdded

\* The steps of main that open nothing.
PlainInit == \/ LoadOptions \/ RedisReady \/ InitRedisLock \/ InitToken \/ DatabasesReady
             \/ InitMigration \/ StartMigration \/ MigrationEnds
             \/ InitServices \/ InitServicesRefused \/ Provide \/ InitFails \/ Killed

LEMMA PlainInitHook ==
    ASSUME StageInv, HookInv, PlainInit
    PROVE  HookInv'
<1>1. UNCHANGED <<hooks, hookOf, open, ran, mu, at, shutdown, rdbs, todo>>
    BY DEF PlainInit, LoadOptions, RedisReady, InitRedisLock, InitToken, Takes, DatabasesReady,
           InitMigration, StartMigration, MigrationEnds, InitServices, InitServicesRefused,
           Register, Provide, InitFails, Killed, lcVars, resVars
<1>2. \/ stage = "start" /\ stage' = "trace"
      \/ stage' = "gone"
      \/ stage = "token" /\ stage' = "opendb"
      \/ stage = "redis" /\ stage' = "redlock"
      \/ stage = "redlock" /\ stage' = "limiter"
      \/ stage \in {"opendb", "migration", "services", "provide"}
         /\ stage' \in {"migration", "migrating", "services", "provide", "load"}
    BY DEF PlainInit, LoadOptions, RedisReady, InitRedisLock, InitToken, Takes, DatabasesReady,
           InitMigration, StartMigration, MigrationEnds, InitServices, InitServicesRefused,
           Provide, InitFails, Killed, Step, Exits
<1>3. Left' = Left /\ (mu' = "shutdown" => at' \in 0..hooks')
      /\ \A name \in DOMAIN rdbs'.dbOf : Client(name, 1) \in Hooked
    BY <1>1 DEF Left, HookInv
<1>4. stage' \in {"token", "opendb"} => todo' \subseteq Databases
    BY <1>1, <1>2 DEF HookInv
<1>5. \/ stage = "start" /\ stage' = "trace"
      \/ stage' = "gone"
      \/ PastProviders /\ PastProviders' /\ Reached <= Reached' /\ stage' # "redis"
    BY <1>2 DEF PastProviders, Reached
<1> QED BY <1>1, <1>3, <1>4, <1>5, HookKept

LEMMA InitsHook ==
    ASSUME StageInv, HookInv, MainInits \/ InitFails \/ Killed
    PROVE  HookInv'
<1>1. CASE InitProvider("trace", "metrics")
    BY <1>1, ProviderHook
<1>2. CASE InitProvider("metrics", "redis")
    BY <1>2, ProviderHook
<1>3. CASE InitRedis \/ InitLimiter \/ InitDatabase
    BY <1>3, RedisHook, LimiterHook, DatabaseHook
<1>4. CASE PlainInit
    BY <1>4, PlainInitHook
<1> QED BY <1>1, <1>2, <1>3, <1>4 DEF MainInits, PlainInit

LEMMA OtherHook ==
    ASSUME StageInv, HookInv, Running, AddShutdown(1), hookOf' = Append(hookOf, Other),
           stage \in {"load", "run", "unload", "pubsub", "sleep", "shutdown"},
           UNCHANGED <<stage, todo, rdbs, open>>
    PROVE  HookInv'
<1>1. mu = "free" /\ ~shutdown /\ UNCHANGED <<mu, shutdown, ran>> /\ hooks' = hooks + 1
    BY DEF AddShutdown, StageInv
<1>2. Other \in Resource /\ Layer(Other) = 5 /\ Other # Limiter
    BY Layers DEF Resource
<1>3. Reached = 5 /\ Reached' = 5 /\ stage' \notin {"metrics", "redis", "token", "opendb"}
    BY DEF Reached
<1>4. \A p \in Providers : Provider(p) \in Hooked
    BY DEF HookInv
<1>5. \A name \in DOMAIN rdbs'.dbOf : Client(name, 1) \in Hooked
    BY DEF HookInv
<1>6. Reached <= Layer(Other) /\ Layer(Other) <= Reached' /\ open' = open \cup ({Other} \ {Other})
    BY <1>2, <1>3
<1> QED BY <1>1, <1>2, <1>3, <1>4, <1>5, <1>6, HookAdded

\* The names that have a default database do not grow but by a client.
LEMMA SetDefaultNames ==
    ASSUME StoreInv, NEW k, NEW d, rdbs' = RedisSetDefaultDb(rdbs, k, d)
    PROVE  /\ rdbs'.instances = rdbs.instances /\ rdbs'.default = rdbs.default
           /\ DOMAIN rdbs'.dbOf = DOMAIN rdbs.dbOf
           /\ \A name \in DOMAIN rdbs'.dbOf :
                 \/ rdbs'.dbOf[name] = rdbs.dbOf[name]
                 \/ <<name, rdbs'.dbOf[name]>> \in DOMAIN rdbs.instances
           /\ rdbs' = [instances |-> rdbs'.instances, dbOf |-> rdbs'.dbOf,
                       default |-> rdbs'.default]
<1>1. CASE <<k, d>> \in DOMAIN rdbs.instances
    <2>1. k \in DOMAIN rdbs.dbOf
        BY <1>1 DEF StoreInv
    <2>2. rdbs' = [rdbs EXCEPT !.dbOf = Put(rdbs.dbOf, k, d)]
        BY <1>1 DEF RedisSetDefaultDb
    <2>3. rdbs' = [instances |-> rdbs.instances, dbOf |-> Put(rdbs.dbOf, k, d),
                   default |-> rdbs.default]
        BY <2>2 DEF StoreInv
    <2>4. /\ rdbs'.instances = rdbs.instances /\ rdbs'.default = rdbs.default
          /\ rdbs'.dbOf = Put(rdbs.dbOf, k, d)
        BY <2>3
    <2> QED BY <1>1, <2>1, <2>3, <2>4 DEF Put
<1>2. CASE <<k, d>> \notin DOMAIN rdbs.instances
    <2>1. rdbs' = rdbs
        BY <1>2 DEF RedisSetDefaultDb
    <2> QED BY <2>1 DEF StoreInv
<1> QED BY <1>1, <1>2

LEMMA NextHook ==
    ASSUME StageInv, HookInv, StoreInv, ServerNext
    PROVE  HookInv'
<1>1. ASSUME UNCHANGED <<hooks, hookOf, open, ran, rdbs, todo>>, Left' = Left,
             mu' = "shutdown" => at' \in 0..hooks',
             \/ stage' = stage
             \/ stage' = "gone"
             \/ PastProviders /\ PastProviders' /\ Reached <= Reached'
                /\ stage' \notin {"redis", "token", "opendb"}
      PROVE  HookInv'
    <2>1. stage' \in {"token", "opendb"} => todo' \subseteq Databases
        BY <1>1 DEF HookInv
    <2>2. \A name \in DOMAIN rdbs'.dbOf : Client(name, 1) \in Hooked
        BY <1>1 DEF HookInv
    <2> QED BY <1>1, <2>1, <2>2, HookKept
<1>2. CASE UNCHANGED <<hooks, hookOf, open, ran, rdbs, todo, stage, mu, at, shutdown>>
    <2>1. Left' = Left /\ (mu' = "shutdown" => at' \in 0..hooks')
        BY <1>2 DEF Left, HookInv
    <2> QED BY <1>1, <1>2, <2>1
<1>3. CASE MainInits \/ InitFails \/ Killed
    BY <1>3, InitsHook
<1>4. CASE MainCall
    <2>1. UNCHANGED <<hookOf, open, rdbs, todo, stage>>
        BY <1>4 DEF MainCall, Calls, resVars
    <2>2. CASE CallLoad \/ CallUnload
        <3>1. UNCHANGED <<hooks, ran>> /\ Left' = Left /\ mu' # "shutdown"
            BY <2>2 DEF CallLoad, CallUnload, Left
        <3> QED BY <1>1, <2>1, <3>1
    <2>3. CASE CallShutdown
        BY <2>1, <2>3, HookRun
    <2> QED BY <1>4, <2>2, <2>3 DEF MainCall, MainCalls
<1>5. CASE MainReturns \/ Exit \/ ClosePubSub \/ Sleep \/ MainEnds
    <2>1. UNCHANGED <<hooks, hookOf, open, ran, rdbs, todo, mu, at, shutdown>>
        BY <1>5 DEF MainReturns, Exit, ClosePubSub, Sleep, MainEnds, lcVars, resVars
    <2>2. Left' = Left /\ (mu' = "shutdown" => at' \in 0..hooks')
        BY <2>1 DEF Left, HookInv
    <2>3. \/ stage' = "gone"
          \/ stage \in {"load", "run", "unload", "pubsub", "sleep"}
             /\ stage' \in {"run", "unload", "pubsub", "sleep", "shutdown"}
        BY <1>5 DEF MainReturns, Exit, ClosePubSub, Sleep, MainEnds, Step, Exits, After
    <2>4. \/ stage' = "gone"
          \/ PastProviders /\ PastProviders' /\ Reached <= Reached'
             /\ stage' \notin {"redis", "token", "opendb"}
        BY <2>3 DEF PastProviders, Reached
    <2> QED BY <1>1, <2>1, <2>2, <2>4
<1>6. CASE HolderStep
    <2>1. UNCHANGED <<hookOf, rdbs, todo, stage>>
        BY <1>6 DEF HolderStep
    <2>2. CASE (LoadNext \/ LoadFails \/ UnloadNext) /\ UNCHANGED open
        <3>1. UNCHANGED <<hooks, ran>> /\ Left' = Left /\ mu' # "shutdown"
            BY <2>2 DEF LoadNext, LoadFails, UnloadNext, Left
        <3> QED BY <1>1, <2>1, <2>2, <3>1
    <2>3. CASE HookNext /\ open' = open \ {hookOf[at]}
        BY <2>1, <2>3, HookRun
    <2> QED BY <1>6, <2>2, <2>3 DEF HolderStep, HolderSteps
<1>7. CASE HolderDone
    <2>1. UNCHANGED <<hookOf, open, rdbs, todo>>
        BY <1>7 DEF HolderDone, resVars
    <2>2. CASE LoadDone \/ UnloadDone
        <3>1. UNCHANGED <<hooks, ran>> /\ Left' = Left /\ mu' # "shutdown"
            BY <2>2 DEF LoadDone, UnloadDone, Left
        <3>2. \/ stage' = stage
              \/ stage = "load" /\ stage' = "run"
              \/ stage = "unload" /\ stage' = "pubsub"
            BY <1>7, <2>2 DEF HolderDone, LoadDone, UnloadDone, After, StageInv
        <3>3. \/ stage' = stage
              \/ PastProviders /\ PastProviders' /\ Reached <= Reached'
                 /\ stage' \notin {"redis", "token", "opendb"}
            BY <3>2 DEF PastProviders, Reached
        <3> QED BY <1>1, <2>1, <3>1, <3>3
    <2>3. CASE HookDone
        <3>1. stage = "shutdown" /\ stage' = "exit"
            BY <1>7, <2>3 DEF HolderDone, HookDone, After, StageInv
        <3> QED BY <2>1, <2>3, <3>1, HookRun
    <2> QED BY <1>7, <2>2, <2>3 DEF HolderDone
<1>8. CASE OtherCall
    <2>1. CASE AddShutdown(1) /\ hookOf' = Append(hookOf, Other) /\ stage # "start"
               /\ UNCHANGED <<todo, rdbs, open>>
        <3>1. Running /\ UNCHANGED stage
              /\ stage \in {"load", "run", "unload", "pubsub", "sleep", "shutdown"}
            BY <1>8, <2>1 DEF OtherCall, Others
        <3> QED BY <2>1, <3>1, OtherHook
    <2>2. CASE (\E svcs \in Batches : Register(svcs)) /\ Calls(by)
        BY <1>2, <1>8, <2>2 DEF OtherCall, Calls, resVars, Register
    <2>3. CASE (CallLoad \/ CallUnload) /\ Calls("others")
        <3>1. UNCHANGED <<hookOf, open, rdbs, todo, stage>>
            BY <1>8, <2>3 DEF OtherCall, Calls, resVars
        <3>2. UNCHANGED <<hooks, ran>> /\ Left' = Left /\ mu' # "shutdown"
            BY <2>3 DEF CallLoad, CallUnload, Left
        <3> QED BY <1>1, <3>1, <3>2
    <2> QED BY <1>8, <2>1, <2>2, <2>3 DEF OtherCall
<1>9. CASE OtherStore
    <2>1. UNCHANGED <<hooks, hookOf, open, ran, todo, stage, mu, at, shutdown>>
        BY <1>9 DEF OtherStore, lcVars
    <2>2. Left' = Left /\ (mu' = "shutdown" => at' \in 0..hooks')
        BY <2>1 DEF Left, HookInv
    <2>3. rdbs' = rdbs \/ \E k \in DOMAIN RedisDbs, d \in 0..1 : rdbs' = RedisSetDefaultDb(rdbs, k, d)
        BY <1>9 DEF OtherStore
    <2>4. \A name \in DOMAIN rdbs'.dbOf : Client(name, 1) \in Hooked
        BY <2>3, SetDefaultNames DEF HookInv
    <2>5. stage' \in {"token", "opendb"} => todo' \subseteq Databases
        BY <2>1 DEF HookInv
    <2> QED BY <2>1, <2>2, <2>4, <2>5, HookKept
<1>10. CASE Signal \/ Migrates
    BY <1>2, <1>10 DEF Signal, Migrates, lcVars, svVars, resVars
<1>11. CASE \E q \in Request : Arrive(q) \/ Refuse(q) \/ RequestStep(q)
    BY <1>2, <1>11 DEF Arrive, Refuse, RequestStep, Admit, Answer, Passes, lcVars, resVars
<1> QED BY <1>3, <1>4, <1>5, <1>6, <1>7, <1>8, <1>9, <1>10, <1>11 DEF ServerNext, MainExits
-----------------------------------------------------------------------------
\* Until a hook has run, open does not shrink.
LEMMA OpenGrows ==
    ASSUME HookInv, ServerNext, ran' = <<>>
    PROVE  ran = <<>> /\ open \subseteq open'
<1>1. CASE UNCHANGED <<ran, open>>
    BY <1>1
<1>2. CASE \E r : Opens(r)
    BY <1>2 DEF Opens
<1>3. CASE MainInits
    <2>1. (\E r : Opens(r)) \/ UNCHANGED <<ran, open>>
        BY <1>3 DEF MainInits, LoadOptions, InitProvider, InitRedis, RedisReady, InitRedisLock,
                    InitLimiter, InitToken, Takes, InitDatabase, DatabasesReady, InitMigration,
                    StartMigration, MigrationEnds, InitServices, Register, InitServicesRefused,
                    Provide, lcVars, resVars
    <2> QED BY <1>1, <1>2, <2>1
<1>4. CASE MainExits
    BY <1>1, <1>4 DEF MainExits, MainCall, MainCalls, Calls, CallLoad, CallUnload, CallShutdown,
                      MainReturns, Exit, ClosePubSub, Sleep, MainEnds, lcVars, resVars
<1>5. CASE InitFails \/ Killed
    BY <1>1, <1>5 DEF InitFails, Killed, lcVars, resVars
<1>6. CASE HolderStep
    <2>1. ~HookNext
        <3> SUFFICES ASSUME HookNext PROVE FALSE
            OBVIOUS
        <3>1. ran \in Seq(Nat) /\ at \in Nat /\ ran' = Append(ran, at)
            BY LenProperties DEF HookNext, HookInv
        <3> QED BY <3>1, AppendProperties
    <2>2. UNCHANGED <<ran, open>>
        BY <1>6, <2>1 DEF HolderStep, HolderSteps, LoadNext, LoadFails, UnloadNext
    <2> QED BY <1>1, <2>2
<1>7. CASE HolderDone
    BY <1>1, <1>7 DEF HolderDone, LoadDone, UnloadDone, HookDone, resVars
<1>8. CASE OtherCall
    BY <1>1, <1>8 DEF OtherCall, Calls, Register, AddShutdown, CallLoad, CallUnload, resVars
<1>9. CASE OtherStore \/ Signal \/ Migrates
    BY <1>1, <1>9 DEF OtherStore, Signal, Migrates, lcVars, svVars, resVars
<1>10. CASE \E q \in Request : Arrive(q) \/ Refuse(q) \/ RequestStep(q)
    BY <1>1, <1>10 DEF Arrive, Refuse, RequestStep, Admit, Answer, Passes, lcVars, resVars
<1> QED BY <1>3, <1>4, <1>5, <1>6, <1>7, <1>8, <1>9, <1>10 DEF ServerNext

\* What happens to the stores, and to what they hold.
LEMMA StoresChange ==
    ASSUME ServerNext
    PROVE  \/ UNCHANGED <<rdbs, dbs>>
           \/ UNCHANGED dbs /\ \E name, db, v : v \in open' /\ rdbs' = RedisSet(rdbs, name, db, v)
           \/ UNCHANGED rdbs /\ \E name, v : v \in open' /\ dbs' = StoreSet(dbs, name, v)
           \/ UNCHANGED dbs /\ \E name, db : rdbs' = RedisSetDefaultDb(rdbs, name, db)
           \/ UNCHANGED rdbs /\ \E name : dbs' = StoreSetDefault(dbs, name)
<1>1. CASE InitRedis
    BY <1>1 DEF InitRedis, Opens
<1>2. CASE InitDatabase
    BY <1>2 DEF InitDatabase, Opens
<1>3. CASE MainInits /\ ~InitRedis /\ ~InitDatabase
    BY <1>3 DEF MainInits, LoadOptions, InitProvider, RedisReady, InitRedisLock,
                InitLimiter, InitToken, Takes, DatabasesReady, InitMigration,
                StartMigration, MigrationEnds, InitServices, InitServicesRefused,
                Provide, resVars
<1>4. CASE MainExits
    BY <1>4 DEF MainExits, MainCall, Calls, MainReturns, Exit, ClosePubSub, Sleep, MainEnds, resVars
<1>5. CASE InitFails \/ Killed \/ HolderStep \/ HolderDone
    BY <1>5 DEF InitFails, Killed, HolderStep, HolderDone, resVars
<1>6. CASE OtherCall
    BY <1>6 DEF OtherCall, Calls, resVars
<1>7. CASE OtherStore
    BY <1>7 DEF OtherStore
<1>8. CASE Signal \/ Migrates
    BY <1>8 DEF Signal, Migrates, svVars, resVars
<1>9. CASE \E q \in Request : Arrive(q) \/ Refuse(q) \/ RequestStep(q)
    BY <1>9 DEF Arrive, Refuse, RequestStep, Admit, Answer, Passes, resVars
<1> QED BY <1>1, <1>2, <1>3, <1>4, <1>5, <1>6, <1>7, <1>8, <1>9 DEF ServerNext

LEMMA NextStore ==
    ASSUME HookInv, StoreInv, ServerNext
    PROVE  StoreInv'
<1>1. ran' = <<>> => ran = <<>> /\ open \subseteq open'
    BY OpenGrows
<1>2. CASE UNCHANGED <<rdbs, dbs>>
    BY <1>1, <1>2 DEF StoreInv
<1>3. ASSUME UNCHANGED dbs, NEW name, NEW db, NEW v \in open', rdbs' = RedisSet(rdbs, name, db, v)
      PROVE  StoreInv'
    <2>1. /\ rdbs' = [instances |-> rdbs'.instances, dbOf |-> rdbs'.dbOf, default |-> rdbs'.default]
          /\ rdbs'.instances = Put(rdbs.instances, <<name, db>>, v)
          /\ rdbs'.dbOf = IF name \in DOMAIN rdbs.dbOf THEN rdbs.dbOf ELSE Put(rdbs.dbOf, name, db)
          /\ rdbs'.default = IF rdbs.default \in {<<>>, <<name>>} THEN <<name, db>>
                             ELSE rdbs.default
        BY <1>3 DEF RedisSet
    <2>2. /\ DOMAIN rdbs'.instances = DOMAIN rdbs.instances \cup {<<name, db>>}
          /\ \A x \in DOMAIN rdbs'.instances :
                rdbs'.instances[x] = IF x = <<name, db>> THEN v ELSE rdbs.instances[x]
        BY <2>1 DEF Put
    <2>3. /\ DOMAIN rdbs'.dbOf = DOMAIN rdbs.dbOf \cup {name}
          /\ \A x \in DOMAIN rdbs'.dbOf :
                \/ x \in DOMAIN rdbs.dbOf /\ rdbs'.dbOf[x] = rdbs.dbOf[x]
                \/ x = name /\ rdbs'.dbOf[x] = db
        BY <2>1 DEF Put
    <2>4. ran' = <<>> => \A x \in DOMAIN rdbs'.instances : rdbs'.instances[x] \in open'
        BY <1>1, <1>3, <2>2 DEF StoreInv
    <2>5. \A x \in DOMAIN rdbs'.dbOf : <<x, rdbs'.dbOf[x]>> \in DOMAIN rdbs'.instances
        BY <2>2, <2>3 DEF StoreInv
    <2>6. \A x \in DOMAIN rdbs'.instances : x[1] \in DOMAIN rdbs'.dbOf
        <3> TAKE x \in DOMAIN rdbs'.instances
        <3>1. CASE x = <<name, db>>
            BY <2>3, <3>1
        <3>2. CASE x \in DOMAIN rdbs.instances
            BY <2>3, <3>2 DEF StoreInv
        <3> QED BY <2>2, <3>1, <3>2
    <2>7. rdbs'.default \in DOMAIN rdbs'.instances
        BY <2>1, <2>2 DEF StoreInv
    <2>8. dbs' = dbs
        BY <1>3
    <2> QED BY <1>1, <2>1, <2>4, <2>5, <2>6, <2>7, <2>8 DEF StoreInv
<1>4. ASSUME UNCHANGED rdbs, NEW name, NEW v \in open', dbs' = StoreSet(dbs, name, v)
      PROVE  StoreInv'
    <2>1. /\ dbs' = [instances |-> dbs'.instances, default |-> dbs'.default]
          /\ dbs'.instances = Put(dbs.instances, name, v)
          /\ dbs'.default = IF dbs.default = Unnamed THEN name ELSE dbs.default
        BY <1>4 DEF StoreSet
    <2>2. /\ DOMAIN dbs'.instances = DOMAIN dbs.instances \cup {name}
          /\ \A x \in DOMAIN dbs'.instances :
                dbs'.instances[x] = IF x = name THEN v ELSE dbs.instances[x]
        BY <2>1 DEF Put
    <2>3. ran' = <<>> => \A x \in DOMAIN dbs'.instances : dbs'.instances[x] \in open'
        BY <1>1, <1>4, <2>2 DEF StoreInv
    <2>4. dbs'.default \in DOMAIN dbs'.instances
        BY <2>1, <2>2 DEF StoreInv
    <2>5. rdbs' = rdbs
        BY <1>4
    <2> QED BY <1>1, <2>1, <2>3, <2>4, <2>5 DEF StoreInv
<1>5. ASSUME UNCHANGED dbs, NEW name, NEW db, rdbs' = RedisSetDefaultDb(rdbs, name, db)
      PROVE  StoreInv'
    <2>1. /\ rdbs'.instances = rdbs.instances /\ rdbs'.default = rdbs.default
          /\ DOMAIN rdbs'.dbOf = DOMAIN rdbs.dbOf
          /\ \A x \in DOMAIN rdbs'.dbOf :
                \/ rdbs'.dbOf[x] = rdbs.dbOf[x]
                \/ <<x, rdbs'.dbOf[x]>> \in DOMAIN rdbs.instances
          /\ rdbs' = [instances |-> rdbs'.instances, dbOf |-> rdbs'.dbOf,
                      default |-> rdbs'.default]
        BY <1>5, SetDefaultNames
    <2>2. \A x \in DOMAIN rdbs'.dbOf : <<x, rdbs'.dbOf[x]>> \in DOMAIN rdbs'.instances
        BY <2>1 DEF StoreInv
    <2>3. dbs' = dbs
        BY <1>5
    <2> QED BY <1>1, <2>1, <2>2, <2>3 DEF StoreInv
<1>6. ASSUME UNCHANGED rdbs, NEW name, dbs' = StoreSetDefault(dbs, name)
      PROVE  StoreInv'
    <2>1. /\ dbs' = [instances |-> dbs.instances, default |-> dbs'.default]
          /\ dbs'.default = dbs.default \/ dbs'.default \in DOMAIN dbs.instances
        <3>1. CASE name \in DOMAIN dbs.instances
            <4>1. dbs' = [dbs EXCEPT !.default = name]
                BY <1>6, <3>1 DEF StoreSetDefault
            <4>2. dbs' = [instances |-> dbs.instances, default |-> name]
                BY <4>1 DEF StoreInv
            <4> QED BY <3>1, <4>2
        <3>2. CASE name \notin DOMAIN dbs.instances
            BY <1>6, <3>2 DEF StoreSetDefault, StoreInv
        <3> QED BY <3>1, <3>2
    <2>2. dbs'.instances = dbs.instances
        BY <2>1
    <2>3. \/ dbs'.instances = Empty /\ dbs'.default = Unnamed
          \/ dbs'.default \in DOMAIN dbs'.instances
        BY <2>1, <2>2 DEF StoreInv
    <2>4. rdbs' = rdbs
        BY <1>6
    <2> QED BY <1>1, <2>1, <2>2, <2>3, <2>4 DEF StoreInv
<1> QED BY <1>2, <1>3, <1>4, <1>5, <1>6, StoresChange
-----------------------------------------------------------------------------
LEMMA InitIInv == ServerInit => IInv
<1> SUFFICES ASSUME ServerInit PROVE IInv
    OBVIOUS
<1>1. LifeInv
    <2>1. services = <<>> /\ loaded = FALSE /\ mu = "free" /\ net = [s \in Service |-> 0]
        BY DEF ServerInit, Init
    <2>2. services \in Seq(Service) /\ Len(services) = 0
        BY <2>1
    <2>3. Depth = 0
        BY <2>1 DEF Depth
    <2>4. \A i : i \notin 1..Depth
        BY <2>3
    <2>5. net \in [Service -> {0, 1}] /\ \A s \in Service : net[s] = 0
        BY <2>1
    <2>6. \A i, j \in 1..Len(services) : services[i] = services[j] => i = j
        BY <2>2
    <2>7. \A s \in Service : net[s] = 1 <=> \E i \in 1..Depth : services[i] = s
        BY <2>4, <2>5
    <2>8. ~loaded /\ loaded \in BOOLEAN /\ mu \notin {"load", "rollback", "unload"}
        BY <2>1
    <2> QED BY <2>2, <2>5, <2>6, <2>7, <2>8 DEF LifeInv
<1>2. MigInv
    BY InitMig DEF ServerInit
<1>3. StageInv
    BY DEF ServerInit, Init, StageInv, Stages
<1>4. RequestInv
    BY DEF ServerInit, Init, RequestInv, InProgress
<1>5. HookInv
    <2>1. /\ hooks = 0 /\ hookOf = <<>> /\ open = {} /\ ran = <<>> /\ stage = "start"
          /\ mu = "free" /\ rdbs = NewRedisStore(<<>>)
        BY DEF ServerInit, Init
    <2>2. hookOf \in Seq(Resource) /\ Len(hookOf) = hooks /\ ran \in Seq(Nat)
        BY <2>1
    <2>3. Hooked = {} /\ \A i : i \notin 1..hooks
        BY <2>1 DEF Hooked
    <2>4. DOMAIN rdbs.dbOf = {}
        BY <2>1 DEF NewRedisStore, Empty
    <2> QED BY <2>1, <2>2, <2>3, <2>4 DEF HookInv, OpenExact
<1>6. StoreInv
    BY DEF ServerInit, NewRedisStore, NewStore, Empty, StoreInv
<1> QED BY <1>1, <1>2, <1>3, <1>4, <1>5, <1>6 DEF IInv

LEMMA NextIInv == IInv /\ [ServerNext]_allVars => IInv'
<1> SUFFICES ASSUME IInv, [ServerNext]_allVars PROVE IInv'
    OBVIOUS
<1>1. CASE ServerNext
    BY <1>1, NextLife, NextMig, NextStage, NextRequest, NextHook, NextStore DEF IInv
<1>2. CASE UNCHANGED allVars
    <2>1. LifeInv'
        BY <1>2, LifeKept DEF allVars, lcVars, IInv
    <2>2. MigInv'
        BY <1>2 DEF allVars, mvars, IInv, MigInv, LockExact, Operating, DbAt
    <2>3. StageInv' /\ RequestInv'
        BY <1>2 DEF allVars, lcVars, svVars, resVars, IInv, StageInv, RequestInv, InProgress
    <2>4. /\ UNCHANGED <<hooks, hookOf, open, ran, rdbs, dbs, todo, stage, mu, at, shutdown>>
          /\ HookInv /\ StoreInv
        BY <1>2 DEF allVars, lcVars, svVars, resVars, IInv
    <2>5. /\ Left' = Left /\ (mu' = "shutdown" => at' \in 0..hooks')
          /\ \A name \in DOMAIN rdbs'.dbOf : Client(name, 1) \in Hooked
          /\ stage' \in {"token", "opendb"} => todo' \subseteq Databases
        BY <2>4 DEF Left, HookInv
    <2>6. HookInv'
        BY <2>4, <2>5, HookKept
    <2>7. StoreInv'
        BY <2>4 DEF StoreInv
    <2> QED BY <2>1, <2>2, <2>3, <2>6, <2>7 DEF IInv
<1> QED BY <1>1, <1>2

\* The invariant holds in every state of the process.
THEOREM Inductive == ServerSpec => []IInv
<1>1. ServerInit => IInv
    BY InitIInv
<1>2. IInv /\ [ServerNext]_allVars => IInv'
    BY NextIInv
<1> QED BY <1>1, <1>2, PTL DEF ServerSpec

\* Services are up in the order of their registration, through failed loads and
\* rollbacks, whoever calls Register, Load and Unload meanwhile.
THEOREM ServicesInOrder == ServerSpec => []DependencyOrder
<1>1. IInv => DependencyOrder
    BY LifeOrder DEF IInv, StageInv
<1> QED BY <1>1, Inductive, PTL

\* When nobody holds lc.mu, all services are up or none.
THEOREM ServicesAllOrNone == ServerSpec => []AllOrNone
<1>1. IInv => AllOrNone
    BY LifeOrder DEF IInv, StageInv
<1> QED BY <1>1, Inductive, PTL

\* No database is operated on without its lock, or by two runners at a time,
\* and a lock is left behind only by a lost answer or a crash.
THEOREM LocksAreExact == ServerSpec => []LockExact
<1>1. IInv => LockExact
    BY DEF IInv, MigInv
<1> QED BY <1>1, Inductive, PTL

\* If requests are prompt, none is in progress once a hook has run.
THEOREM HandlersFindAllOpen == ServerSpec => []NoUseAfterClose
<1>1. IInv => NoUseAfterClose
    BY DEF IInv, RequestInv, NoUseAfterClose
<1> QED BY <1>1, Inductive, PTL

\* A resource of a lower layer outlives those of the layers above.
LEMMA LowerOpen ==
    ASSUME HookInv, NEW x \in open, NEW y \in Hooked, y # Other, Layer(y) < Layer(x)
    PROVE  y \in open
<1>1. x \in Hooked /\ \A i \in 1..hooks : hookOf[i] = x => i <= Left
    BY DEF HookInv, OpenExact
<1>2. PICK j \in 1..hooks : hookOf[j] = x
    BY <1>1 DEF Hooked
<1>3. ASSUME NEW i \in 1..hooks, hookOf[i] = y
      PROVE  i <= Left
    <2>1. hooks \in Nat /\ Layer(x) \in Nat /\ Layer(y) \in Nat
        BY LenProperties DEF HookInv, Layer
    <2>2. ~(j < i)
        BY <1>2, <1>3, <2>1 DEF HookInv
    <2>3. j <= Left /\ Left \in Int
        BY <1>1, <1>2, <2>1 DEF Left, HookInv
    <2> QED BY <2>1, <2>2, <2>3
<1> QED BY <1>3 DEF HookInv, OpenExact

\* Nothing outlives what it was made of, and a process that has gone the way
\* of Exit has closed all it opened, also what others had it close.
THEOREM AllIsClosed == ServerSpec => []ResourcesClosed
<1>1. IInv => ResourcesClosed
    <2> SUFFICES ASSUME IInv PROVE ResourcesClosed
        OBVIOUS
    <2>1. open \subseteq Hooked
        BY DEF IInv, HookInv, OpenExact
    <2>2. ASSUME Limiter \in open
          PROVE  Client("limiter", 1) \in open
        <3>1. Client("limiter", 1) \in Hooked
            BY <2>1, <2>2 DEF IInv, HookInv
        <3> QED BY <2>2, <3>1, Layers, LowerOpen DEF IInv
    <2>3. ASSUME NEW p \in Providers, NEW x \in open, x[1] # "provider"
          PROVE  Provider(p) \in open
        <3>1. PICK i \in 1..hooks : hookOf[i] = x
            BY <2>1 DEF Hooked
        <3>2. Layer(x) > 1
            BY <2>3 DEF Layer
        <3>3. Provider(p) \in Hooked
            BY <3>1, <3>2 DEF IInv, HookInv
        <3>4. Provider(p) # Other /\ Layer(Provider(p)) < Layer(x)
            BY <3>2, Layers
        <3> QED BY <3>3, <3>4, LowerOpen DEF IInv
    <2>4. ASSUME stage = "gone", code = 0, op = "none"
          PROVE  open = {}
        <3>1. Left = 0
            BY <2>4 DEF IInv, StageInv, Left
        <3>2. \A i \in 1..hooks : ~(i <= 0)
            BY LenProperties DEF IInv, HookInv
        <3> QED BY <3>1, <3>2 DEF IInv, HookInv, OpenExact, Hooked
    <2> QED BY <2>2, <2>3, <2>4 DEF ResourcesClosed
<1> QED BY <1>1, Inductive, PTL

\* Whatever others set as a default, Default and Get find an open client.
THEOREM DefaultsAreUsable == ServerSpec => []DefaultsUsable
<1>1. IInv => DefaultsUsable
    <2> SUFFICES ASSUME IInv, ran = <<>>
                 PROVE  /\ \A name \in DOMAIN rdbs.dbOf : RedisGet(rdbs, name) \in open
                        /\ rdbs.instances # Empty => RedisDefault(rdbs) \in open
                        /\ dbs.instances # Empty => StoreDefault(dbs) \in open
        BY DEF DefaultsUsable
    <2>1. \A name \in DOMAIN rdbs.dbOf : RedisGet(rdbs, name) \in open
        BY DEF IInv, StoreInv, RedisGet, Lookup
    <2>2. rdbs.instances # Empty => RedisDefault(rdbs) \in open
        BY DEF IInv, StoreInv, RedisDefault, Lookup
    <2>3. dbs.instances # Empty => StoreDefault(dbs) \in open
        BY DEF IInv, StoreInv, StoreDefault, StoreGet, Lookup
    <2> QED BY <2>1, <2>2, <2>3
<1> QED BY <1>1, Inductive, PTL
=============================================================================
