-------------------------------- MODULE Redlb -------------------------------
(***************************************************************************)
(* pkg/red/redlb: instances register themselves in Redis, each under a key *)
(* with a lifetime that heartbeats renew, and in an index, a set of keys   *)
(* with a lifetime of its own; a gRPC resolver reads the index, then the   *)
(* keys, removes from the index what has gone, and reports the rest.       *)
(*                                                                         *)
(* A command of a lease may be lost, or be executed long after its caller  *)
(* has given it up; an instance may stop at any time.  Time is counted in  *)
(* heartbeat intervals.                                                    *)
(***************************************************************************)
EXTENDS Naturals, FiniteSets

CONSTANTS Lease,      \* what the calls of Register are about
          Request,    \* Request[l]: the Registration
          Nothing,    \* a field that is empty, or an address without a port
          Ttl,        \* opt.ttl, in heartbeat intervals
          Watcher,    \* the goroutine of watch
          Caller,     \* the callers of ResolveNow
          NoLease,
          MaxFaults   \* bound: calls to Redis that fail

Refresher == {Watcher} \cup Caller

ASSUME RedlbAssumption == /\ Ttl \in Nat \ {0} /\ MaxFaults \in Nat
                          /\ Watcher \notin Caller /\ NoLease \notin Lease

-----------------------------------------------------------------------------
\* What buildEndpoint accepts: a name, an address, and the port of grpc, and
\* of http if it is given.
IsPort(p) == p \in 1..65535
Accepted(l) == LET req == Request[l]
               IN /\ req.service # Nothing /\ req.ip # Nothing
                  /\ IsPort(req.grpc)
                  /\ req.http = Nothing \/ IsPort(req.http)

\* serviceKey.  An instance that gives no id gets one that its process alone has.
KeyOf(l) == LET req == Request[l]
            IN <<req.service, IF req.id # Nothing
                              THEN <<req.id>>
                              ELSE <<req.ip, req.grpc, req.http, req.pid>>>>
Key == {KeyOf(l) : l \in Lease}
-----------------------------------------------------------------------------
VARIABLES \* Redis
          life,          \* life[k]: the intervals until k expires; 0, it does not exist
          index, idxLife,
          late,          \* commands given up that Redis may still execute
          \* the instances
          ka,            \* keepAlive of a lease: "new", "failed", "run" or "exit"
          stop,          \* its Stop: "no", "wait", "delete", "done" or "failed"
          due,           \* the leases whose ticker has fired in this interval
          \* the resolver
          resolver,      \* "none", "build", "open" or "closed"
          pc,            \* "idle", "members", "values", "clean" or "report"
          keys, found,   \* the keys and the values of a refresh
          addrs,         \* the state of the ClientConn
          \* history
          by,            \* by[k]: who wrote k in time, NoLease for a late command
          faults         \* a counter for the bound

redis == <<life, index, idxLife, late, by>>
leases == <<ka, stop, due>>
client == <<resolver, pc, keys, found, addrs>>
vars == <<redis, leases, client, faults>>

Init == /\ life = [k \in Key |-> 0]
        /\ index = {} /\ idxLife = 0
        /\ late = {}
        /\ ka = [l \in Lease |-> "new"]
        /\ stop = [l \in Lease |-> "no"]
        /\ due = {}
        /\ resolver = "none"
        /\ pc = [r \in Refresher |-> "idle"]
        /\ keys = [r \in Refresher |-> {}]
        /\ found = [r \in Refresher |-> {}]
        /\ addrs = {}
        /\ by = [k \in Key |-> NoLease]
        /\ faults = 0
-----------------------------------------------------------------------------
\* Redis.  The commands of a lease are transactions.

\* Mutants of Upsert: the index lives as long as its first key; it is
\* written by Register only; a key that exists keeps its lifetime.
UpsertNoExpire(l, w) ==
    /\ life' = [life EXCEPT ![KeyOf(l)] = Ttl]
    /\ index' = index \cup {KeyOf(l)}
    /\ idxLife' = IF index = {} THEN Ttl ELSE idxLife
    /\ by' = [by EXCEPT ![KeyOf(l)] = w]
UpsertKeyOnly(l, w) ==
    /\ life' = [life EXCEPT ![KeyOf(l)] = Ttl]
    /\ index' = IF ka[l] = "new" THEN index \cup {KeyOf(l)} ELSE index
    /\ idxLife' = IF index' = {} THEN 0 ELSE Ttl
    /\ by' = [by EXCEPT ![KeyOf(l)] = w]
UpsertKeepTtl(l, w) ==
    /\ life' = [life EXCEPT ![KeyOf(l)] = IF @ = 0 THEN Ttl ELSE @]
    /\ index' = index \cup {KeyOf(l)}
    /\ idxLife' = Ttl
    /\ by' = [by EXCEPT ![KeyOf(l)] = w]

\* upsert: SET PX, SADD and PEXPIRE.
Upsert(l, w) ==
    /\ life' = [life EXCEPT ![KeyOf(l)] = Ttl]
    /\ index' = index \cup {KeyOf(l)}
    /\ idxLife' = Ttl
    /\ by' = [by EXCEPT ![KeyOf(l)] = w]

\* SREM; a set without members does not exist.
Remove(ks) == /\ index' = index \ ks
              /\ idxLife' = IF index' = {} THEN 0 ELSE idxLife

\* The transaction of Stop: DEL and SREM.
Delete(l) == /\ life' = [life EXCEPT ![KeyOf(l)] = 0]
             /\ by' = [by EXCEPT ![KeyOf(l)] = NoLease]
             /\ Remove({KeyOf(l)})

\* A call to Redis fails: its command has been executed, is lost, or is late.
Fault(Command, name, l) ==
    /\ faults < MaxFaults
    /\ faults' = faults + 1
    /\ \/ Command /\ UNCHANGED late
       \/ UNCHANGED redis
       \/ late' = late \cup {<<name, l>>} /\ UNCHANGED <<life, index, idxLife, by>>

\* Redis executes a late command.
Deliver ==
    \E c \in late :
        /\ late' = late \ {c}
        /\ IF c[1] = "upsert" THEN Upsert(c[2], NoLease) ELSE Delete(c[2])
        /\ UNCHANGED <<leases, client, faults>>

\* An interval passes.  The tickers fire, those of the last interval having
\* been served: a heartbeat takes no longer than opt.operationTimeout.
Tick ==
    /\ \A l \in due : ka[l] # "run"
    /\ life' = [k \in Key |-> IF life[k] = 0 THEN 0 ELSE life[k] - 1]
    /\ by' = [k \in Key |-> IF life[k] <= 1 THEN NoLease ELSE by[k]]
    /\ idxLife' = IF idxLife = 0 THEN 0 ELSE idxLife - 1
    /\ index' = IF idxLife <= 1 THEN {} ELSE index
    /\ due' = {l \in Lease : ka[l] = "run"}
    /\ UNCHANGED <<late, ka, stop, client, faults>>
-----------------------------------------------------------------------------
\* Register returns an error before it calls Redis.
RegisterRefused(l) == ka[l] = "new" /\ ~Accepted(l) /\ UNCHANGED vars

\* Register: the instance is written once, and keepAlive started.
Register(l) ==
    /\ ka[l] = "new" /\ Accepted(l)
    /\ Upsert(l, l)
    /\ ka' = [ka EXCEPT ![l] = "run"]
    /\ UNCHANGED <<late, stop, due, client, faults>>

\* Register returns an error and no Lease, whatever Redis does.
RegisterFails(l) ==
    /\ ka[l] = "new" /\ Accepted(l)
    /\ Fault(Upsert(l, l), "upsert", l)
    /\ ka' = [ka EXCEPT ![l] = "failed"]
    /\ UNCHANGED <<stop, due, client>>

\* keepAlive, case <-ticker.C; a heartbeat that fails is logged.
Heartbeat(l) ==
    /\ ka[l] = "run" /\ l \in due
    /\ Upsert(l, l)
    /\ due' = due \ {l}
    /\ UNCHANGED <<late, ka, stop, client, faults>>
HeartbeatFails(l) ==
    /\ ka[l] = "run" /\ l \in due
    /\ Fault(Upsert(l, l), "upsert", l)
    /\ due' = due \ {l}
    /\ UNCHANGED <<ka, stop, client>>

\* keepAlive returns and closes doneCh.
Ends(l) == /\ ka[l] = "run"
           /\ ka' = [ka EXCEPT ![l] = "exit"]
           /\ due' = due \ {l}
           /\ UNCHANGED <<stop, redis, client, faults>>

\* keepAlive, case <-ctx.Done(): the context is the one of Register.  Or the
\* process has ended, and the lease makes no step any more.
CtxCancelled(l) == Ends(l)

\* keepAlive, case <-lease.stopCh
SeesStop(l) == stop[l] = "wait" /\ Ends(l)

StopGoes(l, from, to) == /\ ka[l] \in {"run", "exit"}
                         /\ stop[l] \in from
                         /\ stop' = [stop EXCEPT ![l] = to]

\* Mutant of Stop: without <-l.doneCh.
StopAtOnce(l) == /\ StopGoes(l, {"no", "failed"}, "delete")
                 /\ UNCHANGED <<redis, ka, due, client, faults>>

\* Stop closes stopCh and waits for doneCh.  It may be called again when it
\* has returned an error.
Stop(l) == /\ StopGoes(l, {"no", "failed"}, "wait")
           /\ UNCHANGED <<redis, ka, due, client, faults>>
StopGoesOn(l) == /\ ka[l] = "exit"
                 /\ StopGoes(l, {"wait"}, "delete")
                 /\ UNCHANGED <<redis, ka, due, client, faults>>
StopReturns(l) == /\ StopGoes(l, {"delete"}, "done")
                  /\ Delete(l)
                  /\ UNCHANGED <<late, ka, due, client, faults>>
StopFails(l) == /\ StopGoes(l, {"delete"}, "failed")
                /\ Fault(Delete(l), "delete", l)
                /\ UNCHANGED <<ka, due, client>>
-----------------------------------------------------------------------------
\* refresh, which calls Discover.
Starts(r) == /\ pc[r] = "idle"
             /\ pc' = [pc EXCEPT ![r] = "members"]
Refreshed(r) == /\ pc' = [pc EXCEPT ![r] = "idle"]
                /\ keys' = [keys EXCEPT ![r] = {}]
                /\ found' = [found EXCEPT ![r] = {}]
                /\ resolver' = IF resolver = "build" THEN "open" ELSE resolver

\* Build: a first refresh, and then the goroutine of watch.
Build == /\ resolver = "none" /\ resolver' = "build"
         /\ Starts(Watcher)
         /\ UNCHANGED <<redis, leases, keys, found, addrs, faults>>

\* watch, case <-ticker.C
WatchTick == /\ resolver = "open"
             /\ Starts(Watcher)
             /\ UNCHANGED <<redis, leases, resolver, keys, found, addrs, faults>>

\* ResolveNow, which gRPC calls after Build has returned.
ResolveNow(r) == /\ resolver = "open"
                 /\ Starts(r)
                 /\ UNCHANGED <<redis, leases, resolver, keys, found, addrs, faults>>

Close == /\ resolver = "open" /\ resolver' = "closed"
         /\ UNCHANGED <<redis, leases, pc, keys, found, addrs, faults>>

\* SMEMBERS; no members, no endpoints.
Members(r) ==
    /\ pc[r] = "members"
    /\ keys' = [keys EXCEPT ![r] = index]
    /\ pc' = [pc EXCEPT ![r] = IF index = {} THEN "report" ELSE "values"]
    /\ UNCHANGED <<redis, leases, resolver, found, addrs, faults>>

\* MGET
Values(r) ==
    /\ pc[r] = "values"
    /\ found' = [found EXCEPT ![r] = {k \in keys[r] : life[k] > 0}]
    /\ pc' = [pc EXCEPT ![r] = IF found'[r] = keys[r] THEN "report" ELSE "clean"]
    /\ UNCHANGED <<redis, leases, resolver, keys, addrs, faults>>

Stale(r) == keys[r] \ found[r]

\* cleanupStaleKeys; an error is logged.
Clean(r) ==
    /\ pc[r] = "clean"
    /\ \/ Remove(Stale(r)) /\ UNCHANGED faults
       \/ faults < MaxFaults /\ faults' = faults + 1 /\ UNCHANGED <<index, idxLife>>
    /\ pc' = [pc EXCEPT ![r] = "report"]
    /\ UNCHANGED <<life, late, by, leases, resolver, keys, found, addrs>>

\* UpdateState
Report(r) ==
    /\ pc[r] = "report"
    /\ addrs' = found[r]
    /\ Refreshed(r)
    /\ UNCHANGED <<redis, leases, faults>>

\* ReportError leaves the ClientConn what it has.
ReportError(r) ==
    /\ pc[r] \in {"members", "values"}
    /\ faults < MaxFaults /\ faults' = faults + 1
    /\ Refreshed(r)
    /\ UNCHANGED <<redis, leases, addrs>>
-----------------------------------------------------------------------------
Serves(l) == \/ RegisterRefused(l) \/ Register(l) \/ RegisterFails(l)
             \/ Heartbeat(l) \/ HeartbeatFails(l)
             \/ CtxCancelled(l) \/ SeesStop(l)
             \/ Stop(l) \/ StopGoesOn(l) \/ StopReturns(l) \/ StopFails(l)
Refreshes(r) == Members(r) \/ Values(r) \/ Clean(r) \/ Report(r) \/ ReportError(r)

Next == \/ \E l \in Lease : Serves(l)
        \/ \E r \in Refresher : Refreshes(r)
        \/ \E r \in Caller : ResolveNow(r)
        \/ Build \/ WatchTick \/ Close
        \/ Deliver \/ Tick

Spec == Init /\ [][Next]_vars

\* Clocks run, tickers are served, and a refresh that has begun comes to its
\* end: the calls to Redis have a deadline.
FairSpec == /\ Spec
            /\ WF_vars(Tick) /\ WF_vars(WatchTick)
            /\ \A l \in Lease : WF_vars(Heartbeat(l) \/ HeartbeatFails(l))
            /\ \A r \in Refresher : WF_vars(Refreshes(r))
-----------------------------------------------------------------------------
TypeOK ==
    /\ life \in [Key -> 0..Ttl]
    /\ index \subseteq Key /\ idxLife \in 0..Ttl
    /\ late \subseteq {"upsert", "delete"} \X Lease
    /\ ka \in [Lease -> {"new", "failed", "run", "exit"}]
    /\ stop \in [Lease -> {"no", "wait", "delete", "done", "failed"}]
    /\ due \subseteq Lease
    /\ resolver \in {"none", "build", "open", "closed"}
    /\ pc \in [Refresher -> {"idle", "members", "values", "clean", "report"}]
    /\ keys \in [Refresher -> SUBSET Key] /\ found \in [Refresher -> SUBSET Key]
    /\ addrs \subseteq Key
    /\ by \in [Key -> Lease \cup {NoLease}]
    /\ faults \in 0..MaxFaults

\* "Stop 停止续期并删除 Redis key" (redlb.go:157): once Stop has returned nil
\* no heartbeat of its lease is left that brings the key back, unless Redis
\* executes one that had been given up.
StopDeletes == \A k \in Key : by[k] # NoLease => stop[by[k]] # "done"

Sole(l) == \A m \in Lease \ {l} : KeyOf(m) # KeyOf(l) \/ ka[m] = "new"

\* An instance that runs outlives failed heartbeats as long as they are
\* fewer than opt.ttl allows (options.go:13, three intervals by default).
SurvivesMisses ==
    \A l \in Lease :
        ka[l] = "run" /\ Sole(l) /\ faults + 1 < Ttl => life[KeyOf(l)] > 0

\* The index never expires under a key that lives: such a key leaves it only
\* when a refresh removes it that had found it gone, some time before
\* (cleanupStaleKeys, redlb.go:328).
LeavesIndex ==
    \A k \in index \ index' :
        life'[k] > 0 => \E r \in Refresher : pc[r] = "clean" /\ k \in Stale(r)
LiveStaysIndexed == [][LeavesIndex]_vars

\* When instances have ceased to come and go the resolver comes to report
\* those that run and no others, whatever late commands, clean-ups that
\* crossed a heartbeat and overlapping refreshes have done before.
Running == {KeyOf(l) : l \in {m \in Lease : ka[m] = "run"}}
Converges == <>[](resolver = "open" => addrs = Running)
=============================================================================
