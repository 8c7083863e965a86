------------------------------- MODULE Server -------------------------------
(***************************************************************************)
(* simd: the main goroutine opens the resources of the process one after   *)
(* the other, each with a hook that will close it, provides them, loads    *)
(* the services, and on a signal goes the way back (simd/sim.go, init.go,  *)
(* cmd/simd/simd.go).  Meanwhile services call the Boot through the        *)
(* functions of pkg/boot/global.go, and requests pass the interceptor of   *)
(* simd/grpc.go.  With an operation as its last argument the process runs  *)
(* that migration and ends.                                                *)
(***************************************************************************)
EXTENDS Lifecycle, Stores, Container, Migration

CONSTANTS Providers,   \* those of trace and metrics that are enabled
          RedisDbs,    \* RedisDbs[name]: the dbs of a configured redis
          Databases,   \* the configured databases
          Configured,  \* the services of the configuration
          Needs,       \* Needs[s]: what the Load of s asks Invoke for
          Given,       \* what Main provides
          Foreign,     \* what a package may have provided before
          Ops,         \* the migrations that may be asked for
          Self,        \* the Runner of this process
          Request,
          Prompt,      \* a request ends within the 200 ms of Exit
          MaxOthers    \* bound: hooks of others

ASSUME ServerAssumption ==
    /\ Providers \subseteq {"trace", "metrics"}
    /\ RedisDbs \in [DOMAIN RedisDbs -> Seq(Nat)]
    /\ Configured \in Seq(Service \cup {NoService})
    /\ Self \in Runner

VARIABLES stage,   \* where the main goroutine is
          code,    \* the exit code, -1 while the process runs
          op,      \* the migration asked for, or "none"
          signal,
          todo,    \* what range has left of the clients, or the databases
          rdbs, dbs, deps,
          hookOf,  \* hookOf[i]: what the hook i closes
          open,    \* the resources that are open
          by,      \* who holds lc.mu: "main", "others" or "none"
          isClosed,
          rpc,     \* a request: "idle", "check", "handle" or "done"
          waited   \* the requests in progress when Exit began to sleep

lcVars == <<services, hooks, loaded, shutdown, mu, at, calls, net, ran>>
resVars == <<todo, rdbs, dbs, deps, hookOf, open>>
svVars == <<stage, code, op, signal, resVars, by, isClosed, rpc, waited>>
allVars == <<lcVars, mvars, svVars>>

ServerInit ==
    /\ Init /\ MigrationInit
    /\ stage = "start" /\ code = -1
    /\ op \in Ops
    /\ signal = FALSE
    /\ todo = {}
    /\ rdbs = NewRedisStore(<<>>) /\ dbs = NewStore(Unnamed) /\ deps = <<>>
    /\ hookOf = <<>> /\ open = {}
    /\ by = "none" /\ isClosed = FALSE
    /\ rpc = [q \in Request |-> "idle"]
    /\ waited = {}

Running == code = -1
-----------------------------------------------------------------------------
\* The main goroutine goes from one stage to another.
Step(from, to) == Running /\ stage = from /\ stage' = to /\ UNCHANGED code
Exits(from, c) == Running /\ stage = from /\ stage' = "gone" /\ code' = c

\* A resource is opened, and its hook added.
Opens(r) == /\ mu = "free"
            /\ hooks' = hooks + 1
            /\ hookOf' = Append(hookOf, r)
            /\ open' = open \cup {r}
            /\ UNCHANGED <<services, loaded, shutdown, mu, at, calls, net, ran>>

\* The resources: providers, a client for each db of a redis, the limiter and
\* databases.  The hook of somebody else closes none of them.
Provider(p) == <<"provider", p>>
Client(name, k) == <<"redis", name, k>>
Clients == UNION {{Client(name, k) : k \in 1..Len(RedisDbs[name])} : name \in DOMAIN RedisDbs}
Limiter == <<"limiter">>
Database(name) == <<"database", name>>
Other == <<"other">>

Rest == UNCHANGED <<mvars, op, signal, by, isClosed, rpc, waited>>

\* main, before Main; the packages have been initialised.
LoadOptions == /\ Step("start", "trace")
               /\ UNCHANGED <<lcVars, resVars>> /\ Rest

\* initTrace and initMetrics
InitProvider(p, next) ==
    /\ Step(p, next)
    /\ IF p \in Providers THEN Opens(Provider(p)) ELSE UNCHANGED <<lcVars, hookOf, open>>
    /\ todo' = Clients
    /\ UNCHANGED <<rdbs, dbs, deps>> /\ Rest

\* The client that range comes to next may be this.
NextClient(name, k) ==
    /\ Client(name, k) \in todo
    /\ \A other \in DOMAIN RedisDbs : \A j \in DOMAIN RedisDbs[other] :
          Client(other, j) \in todo =>
              IF other = name THEN k <= j ELSE Client(other, 1) \in todo

\* Mutant of InitRedis: one hook for a name.
InitRedisOneHook ==
    /\ Step("redis", "redis")
    /\ \E name \in DOMAIN RedisDbs : \E k \in DOMAIN RedisDbs[name] :
          /\ NextClient(name, k)
          /\ todo' = todo \ {Client(name, k)}
          /\ IF k = 1 THEN Opens(Client(name, k))
             ELSE open' = open \cup {Client(name, k)} /\ UNCHANGED <<lcVars, hookOf>>
          /\ rdbs' = RedisSet(rdbs, name, RedisDbs[name][k], Client(name, k))
    /\ UNCHANGED <<dbs, deps>> /\ Rest

\* initRedis, one client: a name of the map is drawn once those before it are
\* done with, and its dbs are gone through in their order.
InitRedis ==
    /\ Step("redis", "redis")
    /\ \E name \in DOMAIN RedisDbs : \E k \in DOMAIN RedisDbs[name] :
          /\ NextClient(name, k)
          /\ todo' = todo \ {Client(name, k)}
          /\ Opens(Client(name, k))
          /\ rdbs' = RedisSet(rdbs, name, RedisDbs[name][k], Client(name, k))
    /\ UNCHANGED <<dbs, deps>> /\ Rest
RedisReady == /\ todo = {} /\ Step("redis", "redlock")
              /\ UNCHANGED <<lcVars, resVars>> /\ Rest

\* initRedisLock and initToken take a client of the store.
Takes(name, from, to) == /\ RedisGet(rdbs, name) # NoValue
                         /\ Step(from, to)
                         /\ UNCHANGED <<lcVars, resVars>> /\ Rest
InitRedisLock == Takes("default", "redlock", "limiter")
InitToken == Takes("user", "token", "opendb")

\* NewRedisRateLimiter has loaded the rules.
InitLimiter == /\ RedisGet(rdbs, "limiter") # NoValue
               /\ Step("limiter", "token")
               /\ Opens(Limiter)
               /\ todo' = Databases
               /\ UNCHANGED <<rdbs, dbs, deps>> /\ Rest

\* initDatabase, one name, in any order.
InitDatabase ==
    /\ Step("opendb", "opendb")
    /\ \E name \in todo : /\ todo' = todo \ {name}
                          /\ Opens(Database(name))
                          /\ dbs' = StoreSet(dbs, name, Database(name))
    /\ UNCHANGED <<rdbs, deps>> /\ Rest
DatabasesReady == /\ todo = {} /\ Step("opendb", "migration")
                  /\ UNCHANGED <<lcVars, resVars>> /\ Rest

\* initMigration: without an operation, on; with one, to the end, and
\* os.Exit(0) whatever has come of it.
InitMigration == /\ op = "none" /\ Step("migration", "services")
                 /\ UNCHANGED <<lcVars, resVars>> /\ Rest
StartMigration == /\ op # "none" /\ Step("migration", "migrating")
                  /\ Run(Self)
                  /\ UNCHANGED <<lcVars, resVars, op, signal, by, isClosed, rpc, waited>>
MigrationEnds == /\ mpc[Self] = "end" /\ Exits("migrating", 0)
                 /\ UNCHANGED <<lcVars, resVars>> /\ Rest

\* initServices; an error of Register is fatal, and one of Load is not.
AllAcceptable == \A k \in DOMAIN Configured : Acceptable(Configured, k)
InitServices == /\ Step("services", "provide")
                /\ AllAcceptable
                /\ Register(Configured)
                /\ UNCHANGED resVars /\ Rest

\* Others have loaded, or registered a service of that name.
InitServicesRefused == /\ mu = "free" /\ (loaded \/ ~AllAcceptable)
                       /\ Exits("services", 1)
                       /\ UNCHANGED <<lcVars, resVars>> /\ Rest

\* log.Fatal: the process ends as it is.
InitFails == /\ stage \in {"start", "trace", "redis", "redlock", "limiter", "token",
                           "opendb", "services"}
             /\ Exits(stage, 1)
             /\ UNCHANGED <<lcVars, resVars>> /\ Rest

\* Provide, whose error is ignored.
Provide == /\ Step("provide", "load")
           /\ deps' = Provided(deps, Given)
           /\ UNCHANGED <<lcVars, todo, rdbs, dbs, hookOf, open>> /\ Rest
-----------------------------------------------------------------------------
\* The goroutines that call Lifecycle, and the stage after a call of main.
After == [load |-> "run", unload |-> "pubsub", shutdown |-> "exit"]

Calls(who) == by' = who /\ UNCHANGED <<code, op, signal, resVars, isClosed, rpc, waited>>

MainCalls == \/ stage = "load" /\ CallLoad
             \/ stage = "unload" /\ CallUnload
             \/ stage = "shutdown" /\ CallShutdown
MainCall == Running /\ MainCalls /\ Calls("main") /\ UNCHANGED <<stage, mvars>>

\* A call that finds nothing to do.
MainReturns == /\ mu = "free"
               /\ \/ stage = "load" /\ loaded
                  \/ stage = "unload" /\ ~loaded
               /\ Step(stage, After[stage])
               /\ UNCHANGED <<lcVars, resVars>> /\ Rest

\* A step of Load, Unload or Shutdown.  A service whose Invoke fails does not load.
HolderSteps ==
    \/ /\ LoadNext
       /\ LET needs == Needs[services[at + 1]] IN Invoked(deps, needs) = needs
       /\ UNCHANGED open
    \/ (LoadFails \/ UnloadNext) /\ UNCHANGED open
    \/ HookNext /\ open' = open \ {hookOf[at]}
HolderStep == /\ Running /\ HolderSteps
              /\ UNCHANGED <<stage, code, todo, rdbs, dbs, deps, hookOf>> /\ Rest

HolderDone == /\ Running /\ (LoadDone \/ UnloadDone \/ HookDone)
              /\ stage' = IF by = "main" THEN After[stage] ELSE stage
              /\ by' = "none"
              /\ UNCHANGED <<mvars, code, op, signal, resVars, isClosed, rpc, waited>>

\* What the functions of global.go, and the stores that Invoke has given
\* them, let others do: packages before main, services from Load on.
Others == Running /\ stage \in {"start", "load", "run", "unload", "pubsub", "sleep", "shutdown"}
OtherCall ==
    /\ Others /\ UNCHANGED <<stage, mvars>>
    /\ \/ /\ \E svcs \in Batches : Register(svcs)
          /\ Calls(by)
       \/ /\ Cardinality({i \in DOMAIN hookOf : hookOf[i] = Other}) < MaxOthers
          /\ stage # "start" /\ AddShutdown(1)
          /\ hookOf' = Append(hookOf, Other)
          /\ UNCHANGED <<code, op, signal, todo, rdbs, dbs, deps, open, by, isClosed, rpc, waited>>
       \/ /\ stage # "start" /\ calls + 2 < MaxCalls
          /\ CallLoad \/ CallUnload
          /\ Calls("others")
OtherStore ==
    /\ Others
    /\ \/ stage = "start" /\ deps' = Provided(deps, Foreign) /\ UNCHANGED <<rdbs, dbs>>
       \/ /\ stage # "start"
          /\ \E k \in DOMAIN RedisDbs, d \in 0..1 : rdbs' = RedisSetDefaultDb(rdbs, k, d)
          /\ UNCHANGED <<dbs, deps>>
       \/ /\ stage # "start"
          /\ \E d \in Databases \cup {"other"} : dbs' = StoreSetDefault(dbs, d)
          /\ UNCHANGED <<rdbs, deps>>
    /\ UNCHANGED <<lcVars, stage, code, todo, hookOf, open>> /\ Rest
-----------------------------------------------------------------------------
\* SIGINT or SIGTERM, kept in the channel until main reads it.
Signal == /\ Running /\ ~signal /\ signal' = TRUE
          /\ UNCHANGED <<lcVars, mvars, stage, code, op, resVars, by, isClosed, rpc, waited>>

\* Mutant of Exit: new requests are let in until the process ends.
ExitOpen == /\ signal /\ Step("run", "unload")
            /\ UNCHANGED <<lcVars, mvars, op, signal, resVars, by, isClosed, rpc, waited>>

\* Exit: exitChan is closed, and the API with it.
Exit == /\ signal /\ Step("run", "unload")
        /\ isClosed' = TRUE
        /\ UNCHANGED <<lcVars, mvars, op, signal, resVars, by, rpc, waited>>

InProgress == {q \in Request : rpc[q] \notin {"idle", "done"}}

\* Close of the PubSub, and the sleep of 200 ms, which every request that is
\* in progress at its beginning outlives unless it is Prompt.
ClosePubSub == /\ Step("pubsub", "sleep")
               /\ waited' = InProgress
               /\ UNCHANGED <<lcVars, mvars, op, signal, resVars, by, isClosed, rpc>>
Sleep == /\ Prompt => waited \cap InProgress = {}
         /\ Step("sleep", "shutdown")
         /\ waited' = {}
         /\ UNCHANGED <<lcVars, mvars, op, signal, resVars, by, isClosed, rpc>>

\* main returns.
MainEnds == /\ Exits("exit", 0)
            /\ UNCHANGED <<lcVars, resVars>> /\ Rest
-----------------------------------------------------------------------------
Passes(q, from, to) ==
    /\ rpc[q] = from
    /\ rpc' = [rpc EXCEPT ![q] = to]
    /\ UNCHANGED <<lcVars, mvars, stage, code, op, signal, resVars, by, isClosed, waited>>

\* unaryServerInterceptor: the request, if parseGrpcMethod and checkGrpcMaintenance
\* let it in, is limited, validated and authenticated, and then handled.
Arrive(q) == ~isClosed /\ Passes(q, "idle", "check")
Refuse(q) == Passes(q, "idle", "done")
Admit(q) == Passes(q, "check", "handle")

\* An error on the way, of Internal if it is a panic, or the answer of the handler.
Answer(q) == \E from \in {"check", "handle"} : Passes(q, from, "done")

\* The interceptor is in place once the services are being loaded.
Serving == Running /\ stage \in {"load", "run", "unload", "pubsub", "sleep", "shutdown", "exit"}
RequestStep(q) == Admit(q) \/ Answer(q)
-----------------------------------------------------------------------------
MainInits == \/ LoadOptions
             \/ InitProvider("trace", "metrics") \/ InitProvider("metrics", "redis")
             \/ InitRedis \/ RedisReady \/ InitRedisLock \/ InitLimiter \/ InitToken
             \/ InitDatabase \/ DatabasesReady \/ InitMigration \/ StartMigration \/ MigrationEnds
             \/ InitServices \/ InitServicesRefused \/ Provide
MainExits == MainCall \/ MainReturns \/ Exit \/ ClosePubSub \/ Sleep \/ MainEnds

\* The runners of this process and of others, which are of interest from here on.
Migrates == /\ Running /\ op # "none" /\ stage \in {"migration", "migrating"}
            /\ \/ \E r \in Runner : (r = Self => stage = "migrating") /\ Moves(r)
               \/ \E r \in Runner \ {Self} : Run(r) \/ Crash(r)
            /\ UNCHANGED <<lcVars, svVars>>
Killed == /\ stage = "migrating" /\ Crash(Self) /\ Exits("migrating", 137)
          /\ UNCHANGED <<lcVars, resVars, op, signal, by, isClosed, rpc, waited>>

ServerNext == \/ MainInits \/ MainExits \/ InitFails \/ Killed
              \/ HolderStep \/ HolderDone
              \/ OtherCall \/ OtherStore \/ Signal \/ Migrates
              \/ Serving /\ \E q \in Request : Arrive(q) \/ Refuse(q) \/ RequestStep(q)

ServerSpec == ServerInit /\ [][ServerNext]_allVars

\* The goroutines of the process run, services, hooks and handlers return:
\* while there is a step to take other than those of others, one is taken.
Progress == \/ MainInits \/ MainExits \/ HolderStep \/ HolderDone
            \/ Running /\ Moves(Self) /\ UNCHANGED <<lcVars, svVars>>
            \/ Serving /\ \E q \in Request : RequestStep(q)
ServerFairSpec == ServerSpec /\ WF_allVars(Progress)
-----------------------------------------------------------------------------
\* "确保所有的请求都处理完毕" (sim.go:77): if requests are prompt, no hook runs
\* while one that was let in is in progress; it never finds a resource closed.
NoUseAfterClose == Prompt /\ InProgress # {} => ran = <<>>

\* A resource is closed before those it was made of, the limiter before its
\* Redis client and all else before the providers, and when the process has
\* gone the way of Exit nothing is open.
ResourcesClosed ==
    /\ Limiter \in open => Client("limiter", 1) \in open
    /\ \A p \in Providers, x \in open : x[1] # "provider" => Provider(p) \in open
    /\ stage = "gone" /\ code = 0 /\ op = "none" => open = {}

\* Default and Get(name) of both stores answer once anything is set, with a
\* client that is open until Shutdown begins, whatever the order of the
\* configuration's maps and the changes of default (store.go:63, 156).
DefaultsUsable ==
    LET redis == {RedisGet(rdbs, name) : name \in DOMAIN rdbs.dbOf}
                 \cup IF rdbs.instances = Empty THEN {} ELSE {RedisDefault(rdbs)}
        database == IF dbs.instances = Empty THEN {} ELSE {StoreDefault(dbs)}
    IN Running /\ ran = <<>> => redis \cup database \subseteq open

\* A process that has been told to end does, whether its services load or
\* fail, whoever else loads and unloads, and also in the middle of its start.
SignalEnds == (signal /\ Running) ~> ~Running
=============================================================================
