------------------------------ MODULE Lifecycle -----------------------------
(***************************************************************************)
(* pkg/boot/lifecycle.go: services that are loaded in the order in which   *)
(* they were registered and unloaded in reverse, and hooks that run once,  *)
(* in reverse, at the end.  Every method holds lc.mu from its first to its *)
(* last step, and the steps of Load, Unload and Shutdown are the calls to  *)
(* the services and the hooks, each of which may fail.                     *)
(***************************************************************************)
EXTENDS Naturals, FiniteSets, SequencesExt

CONSTANTS Service,
          NameOf,     \* NameOf[s]: s.Name(), which may be NoName
          NoService,  \* nil, or an interface that holds a nil pointer
          NoName,
          Batches,    \* the argument lists of Register
          MaxHooks,   \* bound: shutdown hooks
          MaxCalls    \* bound: calls of Load and Unload that find something to do

ASSUME BatchAssumption == /\ Batches \subseteq Seq(Service \cup {NoService})
                          /\ NoService \notin Service
                          /\ MaxHooks \in Nat /\ MaxCalls \in Nat

VARIABLES services, hooks,   \* lc.services; Len(lc.shutdowns)
          loaded, shutdown,
          mu,    \* "free", or what its holder does: "load", "rollback", "unload", "shutdown"
          at,    \* the services, or hooks, before the holder's place in the slice
          calls, \* a counter for the bound
          \* history
          net,   \* net[s]: Loads of s that succeeded, less Unloads of s
          ran    \* the hooks that have run

vars == <<services, hooks, loaded, shutdown, mu, at, calls, net, ran>>

Init == /\ services = <<>> /\ hooks = 0
        /\ loaded = FALSE /\ shutdown = FALSE
        /\ mu = "free" /\ at = 0
        /\ calls = 0
        /\ net = [s \in Service |-> 0]
        /\ ran = <<>>
-----------------------------------------------------------------------------
\* lc.index, and whether it lets in the argument k behind those before it.
Names(ss) == {NameOf[s] : s \in ToSet(ss)}

Acceptable(svcs, k) == LET before == services \o SubSeq(svcs, 1, k - 1)
                       IN /\ svcs[k] \in Service
                          /\ NameOf[svcs[k]] \notin Names(before) \cup {NoName}

\* The arguments up to the first that is refused.
Register(svcs) ==
    /\ mu = "free" /\ ~loaded
    /\ \E n \in 0..Len(svcs) :
          /\ \A k \in 1..n : Acceptable(svcs, k)
          /\ n < Len(svcs) => ~Acceptable(svcs, n + 1)
          /\ services' = services \o SubSeq(svcs, 1, n)
    /\ UNCHANGED <<hooks, loaded, shutdown, mu, at, calls, net, ran>>

\* With n hooks before the first nil.
AddShutdown(n) ==
    /\ mu = "free"
    /\ hooks + n <= MaxHooks
    /\ hooks' = hooks + n
    /\ UNCHANGED <<services, loaded, shutdown, mu, at, calls, net, ran>>
-----------------------------------------------------------------------------
Call == calls < MaxCalls /\ calls' = calls + 1

\* Load; it returns at once when loaded is set.
CallLoad ==
    /\ mu = "free" /\ ~loaded /\ Call
    /\ mu' = "load" /\ at' = 0
    /\ UNCHANGED <<services, hooks, loaded, shutdown, net, ran>>

\* The next service loads.
LoadNext ==
    /\ mu = "load" /\ at < Len(services)
    /\ net' = [net EXCEPT ![services[at + 1]] = @ + 1]
    /\ at' = at + 1
    /\ UNCHANGED <<services, hooks, loaded, shutdown, mu, calls, ran>>

\* Mutant of LoadFails: the rollback takes every service.
LoadFailsAll ==
    /\ mu = "load" /\ at < Len(services)
    /\ mu' = "rollback" /\ at' = Len(services)
    /\ UNCHANGED <<services, hooks, loaded, shutdown, calls, net, ran>>

\* Mutant of LoadFails: it returns with the mutex held.
LoadFailsLocked ==
    /\ mu = "load" /\ at < Len(services)
    /\ mu' = "lost"
    /\ UNCHANGED <<services, hooks, loaded, shutdown, at, calls, net, ran>>

\* It fails, and the services before it are unloaded.
LoadFails ==
    /\ mu = "load" /\ at < Len(services)
    /\ mu' = "rollback"
    /\ UNCHANGED <<services, hooks, loaded, shutdown, at, calls, net, ran>>

LoadDone ==
    /\ mu = "load" /\ at = Len(services)
    /\ loaded' = TRUE
    /\ mu' = "free" /\ at' = 0
    /\ UNCHANGED <<services, hooks, shutdown, calls, net, ran>>

\* Unload; it returns at once unless loaded is set.
CallUnload ==
    /\ mu = "free" /\ loaded /\ Call
    /\ mu' = "unload" /\ at' = Len(services)
    /\ UNCHANGED <<services, hooks, loaded, shutdown, net, ran>>

\* Mutant of UnloadNext: in the order of loading.
UnloadForward ==
    /\ mu \in {"rollback", "unload"} /\ at > 0
    /\ LET s == services[IF mu = "unload" THEN Len(services) - at + 1 ELSE at]
       IN net' = [net EXCEPT ![s] = @ - 1]
    /\ at' = at - 1
    /\ UNCHANGED <<services, hooks, loaded, shutdown, mu, calls, ran>>

\* unloadReverse, one service; it goes on whether or not that has failed.
UnloadNext ==
    /\ mu \in {"rollback", "unload"} /\ at > 0
    /\ net' = [net EXCEPT ![services[at]] = @ - 1]
    /\ at' = at - 1
    /\ UNCHANGED <<services, hooks, loaded, shutdown, mu, calls, ran>>

UnloadDone ==
    /\ mu \in {"rollback", "unload"} /\ at = 0
    /\ loaded' = FALSE
    /\ mu' = "free"
    /\ UNCHANGED <<services, hooks, shutdown, at, calls, net, ran>>
-----------------------------------------------------------------------------
\* Shutdown; it returns at once the second time.
CallShutdown ==
    /\ mu = "free" /\ ~shutdown
    /\ mu' = "shutdown" /\ at' = hooks
    /\ UNCHANGED <<services, hooks, loaded, shutdown, calls, net, ran>>

\* shutdownReverse, one hook; it goes on whether or not that has failed.
HookNext ==
    /\ mu = "shutdown" /\ at > 0
    /\ ran' = Append(ran, at)
    /\ at' = at - 1
    /\ UNCHANGED <<services, hooks, loaded, shutdown, mu, calls, net>>

HookDone ==
    /\ mu = "shutdown" /\ at = 0
    /\ shutdown' = TRUE
    /\ mu' = "free"
    /\ UNCHANGED <<services, hooks, loaded, at, calls, net, ran>>

Next == \/ \E svcs \in Batches : Register(svcs)
        \/ \E n \in 1..MaxHooks : AddShutdown(n)
        \/ CallLoad \/ LoadNext \/ LoadFails \/ LoadDone
        \/ CallUnload \/ UnloadNext \/ UnloadDone
        \/ CallShutdown \/ HookNext \/ HookDone

Spec == Init /\ [][Next]_vars
-----------------------------------------------------------------------------
\* "确保后加载的服务优先释放依赖资源" (lifecycle.go:132): a service is up only
\* while every service registered before it is, through failed loads, their
\* rollback and unloads; what has not been registered is never touched.
DependencyOrder ==
    \E n \in 0..Len(services) :
        \A s \in Service : net[s] = IF s \in ToSet(SubSeq(services, 1, n)) THEN 1 ELSE 0

\* No call leaves some of the services loaded: when the mutex is free, loaded
\* tells of all of them.
AllOrNone ==
    mu = "free" => \A s \in Service : net[s] = IF loaded /\ s \in ToSet(services) THEN 1 ELSE 0
=============================================================================
