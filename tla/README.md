# Verification of simhub

simhub is a Go service framework: a process (`cmd/simd`) that loads services,
serves them over gRPC and HTTP, and a set of packages they share: locks, an
in-process message bus, sessions and locks in Redis, rate limits, service
discovery, migrations. This directory models the parts whose correctness
depends on interleaving, failure and order, checks them with TLC and proves
some of the results with TLAPS.

Contents: [the system](#the-system) · [modules](#modules) ·
[runs](#what-the-runs-show) · [bounds](#bounds) · [fairness](#fairness) ·
[proofs](#proofs) · [divergences](#divergences-between-code-and-documents) ·
[not modelled](#not-modelled) · [plan](#plan)

To check a run: `tlc -config <run>.cfg <Module>`; to check proofs:
`tlapm <Module>_proofs.tla`. `PROJECT.json` lists the runs, the code lines of
every definition, the hazards and, for every property, a mutant of the code
that violates it.

## The system

| component | code | state | operations |
|---|---|---|---|
| KeyMutex | `pkg/boot/keymutex.go` | `km.locks`: key → entry (reference count, channel of capacity 1) | Lock(ctx), Unlock |
| MultiKeyLocker | same file | sorted key list of a locker | Locker, Lock, Unlock |
| PubSub | `pkg/boot/pubsub.go` | topics → subscriber list under an RWMutex, a queue and workers per subscriber, `closed`, `exitCh` | Publish, TryPublish, Subscribe, Start, Stop, Close |
| TokenManager | `pkg/token` | Redis: session hash, index of access and of refresh tokens, unique key per user and platform | Create, Verify, Refresh, Revoke |
| rule store and reload | `pkg/ratelimit` | Redis hash of rules; per instance a compiled snapshot | SetRule, DeleteRule, Reload, reload loop, Close |
| limiter | `pkg/ratelimit` | Redis counter per rule and subject, with expiry | Allow |
| Lifecycle | `pkg/boot/lifecycle.go` | registered services, shutdown hooks, `loaded`, `shutdown` | Register, AddShutdown, Load, Unload, Shutdown |
| RedLock | `pkg/red/redlock` | Redis key with an owner's value and expiry | TryLock, Lock, Unlock |
| redlb | `pkg/red/redlb` | Redis: a key per instance, with a lifetime, and an index set; a gRPC resolver | Register, heartbeat, Stop, Discover, watch, ResolveNow, Close |
| simd server | `simd`, `cmd/simd`, `pkg/boot/global.go` | the stages of the start and of the exit, the hooks, the requests in progress | Main, the inits, Exit, unary interceptor |
| msgcode | `pkg/msgcode` | Redis: the code, and counters of the codes sent by hour and by day | Send, SendValue, Verify, Delete |
| Stores | `pkg/boot/store.go` | named entries and the default name | Set, Get, Default |
| migration | `pkg/migration` | migration registry, version tables | Run over several databases |
| Container | `pkg/boot/container.go` | providers by type | Provide, Invoke |
| bitflag | `pkg/bitflag` | a word of 63 flags | Set, Clear, Toggle, Has, Enums, masks, Scan, Value |
| meta, utils, errfmt, logger | | none shared | pure functions |

Interaction. Services of a process share `KeyMutex`, `PubSub`, `Stores` and the
`Container` through `Boot` (`global.go`); `simd` fills the stores, provides them,
migrates the databases or loads the services, and on exit runs the hooks that
close what it has opened. Processes interact only through
Redis: `TokenManager`, the rules, the counters, `RedLock`, `redlb` and `msgcode` are state
machines whose steps are single commands or Lua scripts (atomic in Redis) and
whose clients may be slow, fail, or have a command executed twice, because
go-redis repeats a command whose reply was lost (3 times by default; nothing in
the code sets another number).

What is hard, and what makes each part correct:

- **KeyMutex**: an entry is deleted by the last user and created again by the
  next while others are still between two critical sections with the old one.
  Correct: one holder per key, exact reference counts, a receive in Unlock that
  never blocks, waiters that are not starved, cancellation that returns.
- **MultiKeyLocker**: lists in any order with repetitions, a context that ends
  in the middle. Correct: all keys or none; no deadlock.
- **PubSub**: a publisher blocks on a full queue while it holds a read lock;
  Stop and Close race with it, with Start and with each other. Correct: a
  publication reaches everybody registered throughout; after Stop no worker
  runs; Close always returns and frees whoever is blocked.
- **TokenManager**: three commands per call with others in between, scripts that
  run twice, keys that expire separately. Correct: at most one session per user
  with the unique option, index keys that agree with the sessions, refresh
  tokens that work once, dead tokens that stay dead.
- **rules**: reloads of one instance overlap with each other and with writes of
  others; some rules are broken. Correct: a snapshot is one the hash has held;
  no rule lapses that nobody touched; instances converge.
- **limiter**: requests of many instances, replaced rules, scripts that fail or
  run twice. Correct: no window admits more than its rule; the answer is that
  of the strictest rule.
- **Lifecycle**: loads that fail midway, refused registrations, repeated calls.
  Correct: dependencies are up while their dependants are; all or none stay
  loaded; hooks run once, in reverse order.
- **simd server**: a start that fails at any stage, a signal at any time, a Load
  that fails and is ignored, other goroutines that hold the mutex of `Lifecycle`,
  requests in progress at the exit. Correct: a process that is told to end does,
  closes each resource before those it is made of, and leaves none open.
- **Stores**: filled in the order of Go's maps. Correct: whatever comes first,
  the default names a client that exists and is open.
- **migration**: runners of several processes that stop, or lose answers, under a
  lock that is a row. Correct: one runner at a time, and no lock left behind by
  one that has been answered.
- **redlb**: heartbeats that fail or come late, clean-ups that cross a heartbeat,
  refreshes that overlap. Correct: the resolver comes to report what runs, an
  instance survives the failures that its lifetime allows for, Stop is final.
- **msgcode**: a pipeline that is no transaction and is sent again when the
  connection breaks. Correct: the code of the last Send stands, no replaced code
  is accepted, the counters cover what was sent and do not stay for ever.
- **RedLock**: expiry while a command is in flight, late and repeated commands.
  Correct: a lease is exclusive; calls end; the lock is not kept for ever.

## Modules

| module | models | correspondence |
|---|---|---|
| `KeyLock` | what a KeyMutex promises | one lock per key: Request, Acquire, Abandon, Release |
| `KeyMutex` | `keymutex.go:12-80` | one step per critical section of `km.mu` and per channel operation; `ent[p]` is the local `e`, `pc` the place in Lock or Unlock; `Entry` are addresses, reused once nothing refers to them |
| `MultiKeyLocker` | `keymutex.go:83-131` | extends KeyMutex: every step is a KeyMutex step of the goroutine and a step of its loop |
| `PubSub` | `pubsub.go`, one topic | write sections, and read sections that cannot block, are one step; `writer` is a writer that has announced itself to the RWMutex, which keeps new readers out, as in `sync.RWMutex` |
| `TokenManager` | `token.go` | a call is Lookup (GET), Load (HGETALL), and a script (Reply, ReplyLost, RequestLost); an access and refresh token that live and die together are one identifier with two index keys |
| `RuleSync` | `ratelimit.go:123-160, 445-594` | reload = Load (HGETALL) then Swap (compile and store); an instance's loop and its callers are agents that do so independently |
| `RateLimiter` | `ratelimit.go:23-35, 162-290` | extends RuleSync: Begin takes the snapshot, Count is one script, Decide applies the failure policy |
| `Lifecycle` | `lifecycle.go` | one step per call of a service's Load or Unload or of a hook; `mu` is `lc.mu`, held during Load, Unload and Shutdown |
| `Stores` | `store.go` | operators: a store is a value, and a method a function of it |
| `Container` | `container.go` | operators: a type is a base under a number of pointers; Provide and Invoke work through a list up to the first failure |
| `Migration` | `pkg/migration/runner.go` | one step per call to a database; each may fail, or go unanswered, executed or not |
| `Server` | `simd/sim.go`, `init.go`, `grpc.go`, `cmd/simd`, `global.go` | `stage` is the place of the main goroutine in Main and Exit; `hookOf[i]` says what hook i closes, `open` what is open, `rpc` where a request is |
| `RedLock` | `redlock.go` | commands to Redis are atomic; each may be answered, lost before or after its execution, repeated by go-redis, or executed late |
| `Redlb` | `redlb.go`, `resolver.go` | keys with lifetimes counted in heartbeat intervals; a refresh is Members, Values, Clean, Report; `late` holds commands given up that Redis may still execute |
| `MsgCode` | `msgcode.go` | one step per command of the pipeline; time in hours |

`MC*` modules give constants their values and state TLC's symmetry; `*_proofs`
modules hold the theorems, `MultiKeyLocker_proofs` also those of `KeyMutex`,
`RateLimiter_proofs` those of `RuleSync`, and `Server_proofs` those of `Lifecycle`,
`Stores` and `Migration`. `KeyMutex` and `RedLock` need no MC module.

Composition: `MultiKeyLocker` runs on `KeyMutex`, `RateLimiter` on `RuleSync`, and
`Server` on `Lifecycle`, `Stores`, `Container` and `Migration`; each adds its own
variables and conjoins its steps with those of the modules below. `KeyLock` is the
abstract specification of `KeyMutex` (`ImplementsKeyLock`, `ImplementsFairly`,
with `INSTANCE KeyLock WITH`), and `KeyMutex!Spec` that of `MultiKeyLocker`
(`UsesKeyMutex`, which is proved and not run).

Operators named as mutants in a comment (`RegisterUncounted`, `RemoveUnlocked`,
...) are no part of the specification: each is what a definition would be with a
plausible bug, and is there to show that a property notices it.

Choices worth knowing:

- `KeyMutex` assumes the discipline of `sync.Mutex`: nobody locks a key he holds
  or unlocks a key another holds.
- In `PubSub`, each publisher makes one call and each subscriber has one user.
  Handlers do not call back. With `Orderly`, no Start overlaps a Stop or Close
  of the same subscriber; the run `pubsub_race` drops it.
- In `TokenManager` the random generators never repeat, a user stands for
  (user id, platform), and lifetimes are at least a second.
- In `RateLimiter` requests have one subject; which rules match a path and
  method, and the order of the scripts, is any.
- In `Server`, packages may Provide and Register before main runs; from the Load
  of the services on, other goroutines use the rest of `global.go` (Load,
  Unload, AddShutdown, changes of the default). Nobody but Exit shuts the
  `Lifecycle` or the PubSub down. Services, hooks and handlers do
  not panic outside the interceptor. No code of this commit registers the
  interceptor of `grpc.go` with a gRPC server, only its tests call it; the model
  lets requests through it from the Load on.
- In `Redlb` there is one service name, and what Redis holds always decodes. An
  instance that crashes is a lease that makes no more heartbeats.
- In `MsgCode` a connection that breaks takes the remaining commands of its
  pipeline with it; the client sends the whole pipeline again or gives up. A
  sender has one code, and no two the same.
- In `RedLock` no two Lockers have the same value, and a Locker is not used
  again while an Unlock of it that has failed may still be executed.

## What the runs show

| run | checks |
|---|---|
| `keymutex` | `MutualExclusion`, `RefExact` (an entry exists iff somebody uses its key, and counts its users), `DrainReady` (Unlock's receive finds its message), the refinement of `KeyLock` with its fairness, `DoneReturns` (a Lock whose context is done returns) |
| `locker` | `AllOrNothing` (all keys, none, or a prefix inside the loops), `AscendingWaits` (nobody waits for a key below one he holds), `LockerReturns` (no deadlock) |
| `token` | `SessionsExact` (one session per user with WithUnique; session, index keys and unique key name each other), `RefreshOnce`, `VerifySound` (a token invalid when Verify began is not verified), `DeadStaysDead`, `RevokeExact` (a Revoke kills its session, and one that comes too late touches no newer one); with and without WithUnique |
| `pubsub_list` | `ReachesAll` (a Publish that returns nil has reached every subscriber registered throughout), `StoppedForGood` |
| `pubsub_close` | `CloseReturns`: with full queues that nobody reads, Close and the blocked publishers return |
| `pubsub_race` | **violated** `StopWaitsForStarted` |
| `rules` | `WholeSnapshot`, `UntouchedStaysInForce`, `Converges` |
| `limiter` | `WindowLimit`, `VerdictIsStrictest` |
| `server` | `DependencyOrder` (a service is up only while those before it are), `AllOrNone`, `NoUseAfterClose` (no hook runs while a prompt request is in progress), `ResourcesClosed`, `DefaultsUsable`, `LockExact` (a database is migrated under its lock, which is left behind only by a crash or a lost answer), `SignalEnds` |
| `redlock` | `LeaseOwned` (whoever holds a lease has the key for its rest), `CallsReturn`, `LockPassesOn` |
| `redlb` | `StopDeletes` (no heartbeat follows a Stop that returned nil), `SurvivesMisses`, `LiveStaysIndexed` (a live key leaves the index only through a clean-up that had found it gone), `Converges` (the resolver comes to report exactly what runs) |
| `msgcode` | `VerifySound` (a replaced or deleted code is not accepted), `NewestStands` (the code of the last Send stays for its lifetime), `CountsCover` (counters cover every Send that returned nil, and count none twice without a repetition), `CountersGo` (only a Send that gave up leaves a counter without a lifetime) |

The type invariants are proved for the modules that have proofs, and checked in
`token` as a part of `SessionsExact`.
`CHECK_DEADLOCK FALSE` stands where the program may come to rest: every actor of
`PubSub` makes one call, the callers of `RuleSync` and `RateLimiter` have
`MaxCalls`, the senders of `MsgCode` have `MaxSends`, and the process of `Server`
ends.

## Bounds

- `keymutex`: three goroutines, the fewest with a waiter between a holder and
  another waiter; one key, with four addresses, one more than the entries that
  three frames can refer to. Keys meet only in the allocator, which `locker`
  exercises with three keys and five addresses; there `FirstFit` lets the
  allocator hand out the lowest free address, addresses being interchangeable.
- `locker`: two goroutines, lists `<<2, 1>>`, `<<1, 2, 1>>`, `<<3, 2>>` and `<<>>`:
  opposite orders, a repetition, no key at all, and lists with one key in common,
  so that a Lock can fail after it has locked another. A deadlock of more
  goroutines is excluded by the proof of `AscendingWaits`.
- `token`: two concurrent calls, three identifiers, one repetition per script
  (`Retries`), time up to `MaxNow` (the constraint `InTime`). Calls follow one
  another without bound while identifiers last. Three identifiers allow a
  login, its rotation and a second login; lifetimes of 1 and 2 let either kind
  of key expire first. One user: other users share no key with him.
- `pubsub_list`: one publisher and two subscribers of two workers each, queue of
  one, so that the list shifts under a publisher. `pubsub_close`: a Publish and a
  TryPublish, one subscriber, queue of one, so that the second message blocks.
- `rules`: one instance, two callers and its loop, hence three reloads that
  overlap; fields with a good rule and one that does not compile, or does not
  decode; two calls (`MaxCalls`), one failure of Redis (`MaxFaults`).
- `limiter`: two requests, one instance, three rules on two fields (two versions
  of one rule, of which one has a window below a millisecond), one call of
  SetRule or DeleteRule, one failure. A rule with total 1 is exceeded by two
  requests.
- `server`: three services, two of one name, so that batches are refused at each
  position; three configured Redis, of which one has two databases; two
  databases, one with migrations; one other runner and one request. `MaxHooks`
  leaves room for every hook of the start and `MaxOthers`, one, of others;
  `MaxCalls` bounds the calls on `Lifecycle`, two of them for others. 410 000
  states.
- `redlock`: two Lockers, a lifetime of one tick, one retry of Lock and one of
  go-redis (`MaxResend`); calls and time are unbounded, since lifetimes count
  down. Longer lifetimes are in the proof.
- `redlb`: a lifetime of three intervals, as by default; an instance, its
  successor under the same id, and a registration without a port; a watcher and
  one caller of ResolveNow, so that two refreshes overlap; one failed, lost or
  late command (`MaxFaults`). 400 000 states. Any number of each is in the proofs.
- `msgcode`: two Sends in all (`MaxSends`), at once or by one sender, who may send
  a CodeValue again; one broken connection (`MaxBreaks`); days of two hours and
  time up to 3 (`MaxNow`), so that counters outlast the end of an hour and of a
  day; codes that live one hour in Redis (`CodeTtl`) and one or two in their own
  record (`CvTtls`). Symmetry is sound, all properties of the run being
  invariants. 2.4 million states.

## Fairness

- `KeyMutex`: weak fairness of what a goroutine does by itself, and strong
  fairness of the blocked send: Go runs runnable goroutines, and a channel
  serves blocked senders first come first served. `MultiKeyLocker` adds that an
  owner unlocks sooner or later; without it nobody else could get the keys.
- `PubSub`: weak fairness of every call under way and of every worker (handlers
  return). No call has to be made and no context has to end.
- `RuleSync`: the ticker fires again and again and a reload under way goes on;
  nobody has to call, start or close.
- `RedLock`: calls under way go on and time passes.
- `Server`: as long as the goroutines of the process have a step to take, one is
  taken: the main goroutine's, the holder's of `lc.mu`, a request's. No signal has
  to come, no request has to arrive, and others need not call; their calls
  are bounded, so they cannot keep the mutex for ever.
- `Redlb`: the clock runs, heartbeats are made or fail within their interval, the
  watcher's ticker is served, refreshes end, since each has a deadline. No
  instance has to start or stop.

`TokenManager`, `RateLimiter` and `MsgCode` state no liveness: their loops are
bounded by their data.

## Proofs

All for every value of the constants, by an inductive invariant that is proved
of Init and of each action, and then implies the property. No assumption is made
but the named `ASSUME`s of the modules, which say what kinds of values the
constants are, and, where `StoppedForGood` is proved, `Orderly`: without it the
run `pubsub_race` violates `StopWaitsForStarted`, which `StoppedForGood` implies.
The order of the keys is assumed for lockers only.

- **KeyMutex** (`TypeCorrect`, `Exclusion`, `ReferenceCount`,
  `UnlockNeverBlocks`, `Refinement`). Exclusion by itself is not inductive. `IInv`
  adds which entry a frame may point to (`FramesOK`, `HeldOK`), that no two keys
  share an entry (`Injective`), and that the one message of a channel has one
  goroutine entitled to take it (`OneHolder`, `HolderOrDrainer`, `OneDrainer`).
  The reference count must be exact for an entry not to be deleted under a
  frame, and the frames must be right for the count to be, so the two are proved
  together. The refinement maps every step to a step of `KeyLock` or a stutter.
- **MultiKeyLocker** (`LockersUseKeyMutex`, `LocksAllOrNothing`, `WaitsAscend`).
  Since lockers refine KeyMutex, its theorems hold under them. The loop
  invariant says which prefix of the sorted list is held at each place of Lock,
  its rollback and Unlock.
- **RuleSync** (`RulesTyped`, `RulesWhole`, `RulesStayInForce`). What an agent
  has loaded and not yet stored was in the hash and carries every rule untouched
  since its instance started (`Carried`); no caller has a reload under way in an
  instance that is not up (`CallersLate`), so no reload of a former life reaches
  a new one.
- **RateLimiter** (`LimiterTyped`, `LimiterKeepsWindow`, `LimiterStrictest`). A
  counter is at least the number of requests that were told its present window
  (`Counted`); those whom a version with total t has passed number at most t
  (`PassedLimit`); the quota is the strictest of what was seen (`Strictest`).
- **RedLock** (`LockTyped`, `LockOwned`). A Locker in use has no late Unlock
  (`NoneLate`), and a Locker whose SET is unanswered, or that waits to unlock,
  has no lease beyond that of its key (`OneMore`).
- **TokenManager** (`SessionsAreExact`, `RefreshIsOnce`, `VerifyIsSound`,
  `TheDeadStayDead`, `RevokeIsExact`). A script writes what its call had chosen
  some commands before, so the invariant speaks of calls under way: the pair
  that a call is about to write is known to nobody, is written by no other call
  and is named by no other session (`NewAlone`), and the session of a pending
  Create is one that nobody has looked up (`CreateAlone`). Refresh tokens and
  sessions expire together (`SameLife`), a pair that has been exchanged is
  never a session's again (`RotatedDead`), and a Verify that has passed its
  first read remembers a session that fits (`VerifyFits`). The action
  properties follow from one fact about all steps: none writes a token that a
  call has returned (`Settled`).
- **Server**, with **Lifecycle**, **Stores** and **Migration**
  (`ServicesInOrder`, `ServicesAllOrNone`, `LocksAreExact`,
  `HandlersFindAllOpen`, `AllIsClosed`, `DefaultsAreUsable`). `LifeInv`: the services up
  are those before the place that Load, its rollback or Unload has come to, and
  no service is registered twice. `MigInv`: a runner that is at work has the
  lock, one that has returned has told how. `StageInv`: who may hold `lc.mu` at
  each stage of main, which is what ties the calls of others to main's own.
  `RequestInv`: from Exit on nobody is let in, and the sleep has waited for
  those who were. `HookInv`: hooks are added layer by layer (providers, Redis,
  limiter, databases, others), as the stages come, and what is open is what has
  a hook that has not run; so what is closed first is what was opened last.
  `StoreInv`: a default is a key of its store and every value has been opened.
  The theorems hold for any configuration; the assumptions on the constants are
  that there are two kinds of providers and lists of databases and services.
- **Redlb** (`TypeCorrect`, `StopIsFinal`, `IndexKeepsLive`, `MissesSurvived`).
  Every step is one of a few effects on Redis (`Effect`): a write, a late write, a
  deletion, a clean-up, an interval that passes. The writer of a key has not seen
  its Stop return, because Stop deletes only after the heartbeats have ended
  (`StopFollows`, `Owned`); every write gives the index a full lifetime, so no
  key outlives it (`IndexOutlives`); and a key that one lease alone writes has, with
  the failures counted, its full lifetime left (`Budget`, `LateFrom`).

- **PubSub** (`NilReachesAll`, `StoppedIsFinal`). A publisher in its loop holds the
  read lock, so all that the list has before its place have been sent the message
  (`LoopInv`); before the loop, the list still has whom the call found registered,
  since RemoveSubscriber takes one element out and leaves the others
  (`WithoutOne`, `ListInv`). For Stop, a Start under way excludes a Close that has
  begun (`StopInv`).
- **MsgCode** (`VerifyIsSound`, `NewestIsThere`, `CountsAreRight`, `CountersDoGo`).
  What a Send replaces is never what another Send in progress has yet to set, nor
  the code stored when it returns (`CodeInv`); the code stored lives as long as
  any that stands, whoever has set it (`StandInv`); a counter without a lifetime
  has a Send before its EXPIRE (`LifeInv`); and the difference between a counter
  and the Sends that returned, or the pipelines sent, is the number of Sends that
  have come past its INCR, or have not (`CountInv`), for any number of them.

Only model-checked: liveness (fairness and ENABLED are out of the provers'
reach), that is `ImplementsFairly`, `DoneReturns`, `LockerReturns`, `CloseReturns`,
`SignalEnds`, `CallsReturn`, `LockPassesOn` and both `Converges`. What the hash and the index of `TokenManager` expire to, and when, is
proved with the rest; what `Container` resolves is an input of the proofs about
`Server`, which hold whatever Load fails for.

## Divergences between code and documents

With a run that shows it:

- `pubsub_race`: Stop and Close read `s.cancel` without synchronisation with
  Start; between the flag and the assignment they find nil, wait for no worker
  and return, and the workers start afterwards for good.

Seen while modelling, without a run of their own:

- Stop (`pubsub.go:339`) takes the write lock before it cancels its workers, and
  so waits as long as any Publish is blocked; Close (`pubsub.go:256`) does not
  wait for the workers of a subscriber that a concurrent Stop has just removed;
  a Publish between the creation of a topic (`pubsub.go:239`) and its first
  registration is refused for its arguments.
- `TryPublish` "不会阻塞" (`pubsub.go:180`) takes the read lock (`pubsub.go:199`),
  which a Stop that waits for a blocked Publish keeps from it.
- Unlock's `(false, nil)`, for a lock that is not the caller's
  (`redlock.go:133`), is also what the owner is told whose script ran twice
  (`redlock.go:144`).
- `sim.go:77` is to make sure that all requests have been handled, but sleeps for
  200 ms only: `NoUseAfterClose` is conditional on `Prompt`.
- Main ignores the errors of Provide and Load (`sim.go:53, 56`) and runs on
  without services; a migration that fails ends with the exit code 0
  (`init.go:463`).
- `Unload` clears `loaded` though a service has failed to unload
  (`lifecycle.go:110`); the user service panics when it is unloaded twice
  (`services/user/server.go:41`).
- The limiter's Close does not wait for its reload loop (`ratelimit.go:572`).
- SendValue keeps the `CreatedAt` of a CodeValue that was sent before
  (`msgcode.go:60`), so the code may be sent expired; Verify does not delete the
  code (`msgcode.go:105`), so two calls accept it.
- Revoke of an access token that has expired returns nil while its session lives
  on (`token.go:307`).
- A Refresh that go-redis repeats reports `ErrRefreshTokenNotFound`
  (`token.go:21`) although it has used the token up itself.
- A reload that has read the hash before a SetRule may store its older snapshot
  after it (`ratelimit.go:555`); one stored rule that does not compile stops the
  reload of all rules (`ratelimit.go:151`), though one that does not decode skips
  only itself (`ratelimit.go:463`).
- A hook added after Shutdown is accepted and never runs (`lifecycle.go:67`).

## Not modelled

- The HTTP handlers and the answers of the gateway (`simd/http.go`): pure. What
  the interceptor checks a request for is data: it is let in or refused.
- `bitflag`: pure operations on a word, sequential and used by no other component.
- `meta`, `utils`, `errfmt`, `logger`: pure functions and data access.
- The user service, whose Load does nothing; API definitions, generated code, SQL.
- `SetBoot` and the context of a Boot; build information.
- Within modelled parts: several topics, mismatching handler signatures and
  handlers that call back (PubSub); token encoding, and lifetimes below a
  second, which become 0 in the scripts (TokenManager); path matching and rule compilation (ratelimit);
  Lockers that share a value (RedLock); services and handlers that call
  Lifecycle while it calls them, which blocks for ever (Lifecycle); several
  service names and values that do not decode (Redlb).

## Plan

In the order of what matters most:

1. That the composed modules refine the modules they run on: a step of `Server`
   is one of `Lifecycle` and of `Migration`, as a step of a locker is one of
   `KeyMutex`.
2. An abstract lease that `RedLock` and the lock of `Migration` implement.
3. `simd/http.go`, and the rest of `pkg/boot/revision.go`.
