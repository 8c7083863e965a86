------------------------------- MODULE PubSub -------------------------------
(***************************************************************************)
(* pkg/boot/pubsub.go, one topic.  Publishers walk the subscriber list and *)
(* send to each subscriber's channel while they hold the read lock of the  *)
(* topic; Subscribe and Stop change the list under its write lock; workers *)
(* receive from the channels; Close stops everything.                      *)
(*                                                                         *)
(* entry.mu is a sync.RWMutex: a writer announces itself, which keeps new  *)
(* readers out, and enters when the readers inside have left.  A write     *)
(* section is one step, and so is a read section without a blocking        *)
(* operation in it.                                                        *)
(*                                                                         *)
(* Each publisher makes one call, so its name stands for its message, and  *)
(* each subscriber has one user that calls Subscribe, Start and Stop.      *)
(***************************************************************************)
EXTENDS Naturals, Sequences, FiniteSets, SequencesExt

CONSTANTS Publisher, Subscriber,
          TryPublisher,  \* the publishers that call TryPublish, not Publish
          Closer,     \* the goroutine that calls Close
          PoolSize,   \* workers per subscriber
          QueueSize,  \* capacity of a subscriber's channel
          Orderly,    \* no Start overlaps a Stop or Close, or comes after it
          None

ASSUME SizeAssumption == PoolSize \in Nat /\ QueueSize \in Nat \ {0}
ASSUME OrderlyAssumption == Orderly \in BOOLEAN /\ TryPublisher \subseteq Publisher
ASSUME NamesAssumption == Closer \notin Subscriber /\ None \notin Subscriber \cup {Closer}

Worker == Subscriber \X (1..PoolSize)
User == Subscriber \cup {Closer}  \* goroutines that take the write lock

VARIABLES
    topic,    \* ps.topics has the entry
    sig,      \* entry.signatureSet
    subs,     \* entry.subs
    writer,   \* the goroutine that has announced itself to entry.mu, or None
    readers,  \* the publishers that hold entry.mu for reading
    closed,   \* ps.closed
    exit,     \* ps.exitCh is closed
    ch,       \* sub.ch
    started,  \* sub.started
    cancel,   \* sub.cancel: "nil", "set", or "called" when the context is cancelled
    work,     \* where a worker is: "none", "receive", "handle" or "done"
    ppc, at, ctx, result,  \* a publisher: place, index, ctx.Done, return value
    upc, target, todo,           \* a user: place, subscriber it stops, snapshot of Close
    \* history
    got,      \* the messages ever sent to a subscriber
    through,  \* the subscribers registered since a publisher's call began
    early     \* Start was called before Close

topicVars == <<topic, sig, subs>>
subVars == <<ch, started, cancel, work>>
pubVars == <<ppc, at, ctx, result>>
userVars == <<upc, target, todo>>
history == <<got, through, early>>
vars == <<topicVars, writer, readers, closed, exit, subVars, pubVars, userVars, history>>

Init == /\ topic = FALSE /\ sig = FALSE /\ subs = <<>>
        /\ writer = None /\ readers = {}
        /\ closed = FALSE /\ exit = FALSE
        /\ ch = [s \in Subscriber |-> <<>>]
        /\ started = [s \in Subscriber |-> FALSE]
        /\ cancel = [s \in Subscriber |-> "nil"]
        /\ work = [w \in Worker |-> "none"]
        /\ ppc = [p \in Publisher |-> "new"]
        /\ at = [p \in Publisher |-> 0]
        /\ ctx = [p \in Publisher |-> FALSE]
        /\ result = [p \in Publisher |-> "none"]
        /\ upc = [u \in User |-> "new"]
        /\ target = [u \in User |-> None]
        /\ todo = <<>>
        /\ got = [s \in Subscriber |-> {}]
        /\ through = [p \in Publisher |-> {}]
        /\ early = [s \in Subscriber |-> FALSE]
-----------------------------------------------------------------------------
\* Publish and TryPublish.
Go(p, place) == ppc' = [ppc EXCEPT ![p] = place]

Return(p, r) == /\ Go(p, "done")
                /\ result' = [result EXCEPT ![p] = r]

Call(p) ==
    /\ ppc[p] = "new"
    /\ through' = [through EXCEPT ![p] = ToSet(subs)]
    /\ IF closed THEN Return(p, "closed") ELSE Go(p, "find") /\ UNCHANGED result
    /\ UNCHANGED <<topicVars, writer, readers, closed, exit, subVars, at, ctx,
                   userVars, got, early>>

Find(p) ==
    /\ ppc[p] = "find"
    /\ IF topic THEN Go(p, "args") /\ UNCHANGED result ELSE Return(p, "nil")
    /\ UNCHANGED <<topicVars, writer, readers, closed, exit, subVars, at, ctx,
                   userVars, history>>

\* buildArgs compares the arguments with the topic's signature; the callers
\* pass what the handlers take, which is not the empty list.
BuildArgs(p) ==
    /\ ppc[p] = "args"
    /\ writer = None
    /\ IF sig THEN Go(p, "rlock") /\ UNCHANGED result ELSE Return(p, "mismatch")
    /\ UNCHANGED <<topicVars, writer, readers, closed, exit, subVars, at, ctx,
                   userVars, history>>

RLock(p) ==
    /\ ppc[p] = "rlock"
    /\ writer = None
    /\ readers' = readers \cup {p}
    /\ at' = [at EXCEPT ![p] = 1]
    /\ Go(p, "send")
    /\ UNCHANGED <<topicVars, writer, closed, exit, subVars, ctx, result,
                   userVars, history>>

Room(s) == Len(ch[s]) < QueueSize

Send(p) ==
    /\ ppc[p] = "send"
    /\ at[p] <= Len(subs)
    /\ LET s == subs[at[p]] IN
       /\ Room(s)
       /\ ch' = [ch EXCEPT ![s] = Append(@, p)]
       /\ got' = [got EXCEPT ![s] = @ \cup {p}]
    /\ at' = [at EXCEPT ![p] = @ + 1]
    /\ UNCHANGED <<topicVars, writer, readers, closed, exit, started, cancel, work,
                   ppc, ctx, result, userVars, through, early>>

\* The default case of TryPublish's select.
Skip(p) ==
    /\ ppc[p] = "send"
    /\ p \in TryPublisher
    /\ at[p] <= Len(subs)
    /\ ~Room(subs[at[p]]) /\ ~exit /\ ~ctx[p]
    /\ at' = [at EXCEPT ![p] = @ + 1]
    /\ UNCHANGED <<topicVars, writer, readers, closed, exit, subVars,
                   ppc, ctx, result, userVars, history>>

\* The call leaves the loop, and the deferred RUnlock runs.
Leave(p) ==
    /\ ppc[p] = "send"
    /\ \/ at[p] > Len(subs) /\ Return(p, "nil")
       \/ at[p] <= Len(subs) /\ exit /\ Return(p, "closed")
       \/ at[p] <= Len(subs) /\ ctx[p] /\ Return(p, "ctx")
    /\ readers' = readers \ {p}
    /\ UNCHANGED <<topicVars, writer, closed, exit, subVars, at, ctx,
                   userVars, history>>

\* Only the selects look at the context.
Expire(p) ==
    /\ ppc[p] = "send"
    /\ ~ctx[p]
    /\ ctx' = [ctx EXCEPT ![p] = TRUE]
    /\ UNCHANGED <<topicVars, writer, readers, closed, exit, subVars,
                   ppc, at, result, userVars, history>>

Publishing(p) == Find(p) \/ BuildArgs(p) \/ RLock(p) \/ Send(p) \/ Skip(p) \/ Leave(p)
-----------------------------------------------------------------------------
\* Subscribe, Start and Stop.
Step(u, from, to) == /\ upc[u] = from
                     /\ upc' = [upc EXCEPT ![u] = to]

\* Subscribe calls getOrCreateTopic, ...
CallSubscribe(s) ==
    /\ Step(s, "new", "subscribe")
    /\ topic' = TRUE
    /\ UNCHANGED <<sig, subs, writer, readers, closed, exit, subVars, pubVars,
                   target, todo, history>>

\* ... then entry.mu.Lock(), as Stop does: the first half of it, ...
Announce(u) ==
    /\ \/ Step(u, "subscribe", "append")
       \/ Step(u, "stop", "remove")
    /\ writer = None
    /\ writer' = u
    /\ UNCHANGED <<topicVars, readers, closed, exit, subVars, pubVars,
                   target, todo, history>>

\* ... the second half, and the write section.
AppendSub(s) ==
    /\ Step(s, "append", "idle")
    /\ readers = {}
    /\ sig' = TRUE
    /\ subs' = Append(subs, s)
    /\ writer' = None
    /\ UNCHANGED <<topic, readers, closed, exit, subVars, pubVars, target, todo, history>>

\* Nobody is about to stop s.
Quiet(s) == ~closed /\ \A u \in User : target[u] # s

CallStart(s) ==
    /\ Orderly => Quiet(s)
    /\ IF started[s]
       THEN Step(s, "idle", "idle") /\ UNCHANGED <<started, early>>
       ELSE /\ Step(s, "idle", "start")
            /\ started' = [started EXCEPT ![s] = TRUE]
            /\ early' = [early EXCEPT ![s] = ~closed]
    /\ UNCHANGED <<topicVars, writer, readers, closed, exit, ch, cancel, work, pubVars,
                   target, todo, got, through>>

SetCancel(s) ==
    /\ Step(s, "start", "spawn")
    /\ cancel' = [cancel EXCEPT ![s] = "set"]
    /\ UNCHANGED <<topicVars, writer, readers, closed, exit, ch, started, work, pubVars,
                   target, todo, history>>

\* wg.Add and the go statements.
Spawn(s) ==
    /\ Step(s, "spawn", "idle")
    /\ work' = [w \in Worker |-> IF w[1] = s THEN "receive" ELSE work[w]]
    /\ UNCHANGED <<topicVars, writer, readers, closed, exit, ch, started, cancel, pubVars,
                   target, todo, history>>

\* The context given to Start is done: the workers will exit without a Stop.
ParentDone(s) ==
    /\ cancel[s] = "set"
    /\ cancel' = [cancel EXCEPT ![s] = "called"]
    /\ UNCHANGED <<topicVars, writer, readers, closed, exit, ch, started, work, pubVars,
                   userVars, history>>

CallStop(s) ==
    /\ Step(s, "idle", "stop")
    /\ target' = [target EXCEPT ![s] = s]
    /\ UNCHANGED <<topicVars, writer, readers, closed, exit, subVars, pubVars,
                   todo, history>>

\* removeSubscriber: the list without the first place of s.
RemoveSubscriber(s) ==
    \/ s \notin ToSet(subs) /\ UNCHANGED subs
    \/ \E i \in 1..Len(subs) :
          /\ subs[i] = s /\ \A j \in 1..(i - 1) : subs[j] # s
          /\ subs' = RemoveAt(subs, i)

\* Mutant of RemoveSub: the list changes under publishers that walk it.
RemoveUnlocked(u) ==
    /\ Step(u, "remove", "cancel")
    /\ RemoveSubscriber(target[u])
    /\ writer' = None
    /\ through' = [p \in Publisher |-> through[p] \ {target[u]}]
    /\ UNCHANGED <<topic, sig, readers, closed, exit, subVars, pubVars, target, todo,
                   got, early>>

RemoveSub(u) ==
    /\ Step(u, "remove", "cancel")
    /\ readers = {}
    /\ RemoveSubscriber(target[u])
    /\ writer' = None
    /\ through' = [p \in Publisher |-> through[p] \ {target[u]}]
    /\ UNCHANGED <<topic, sig, readers, closed, exit, subVars, pubVars, target, todo,
                   got, early>>

Cancel(u) ==
    /\ Step(u, "cancel", "wait")
    /\ cancel' = [cancel EXCEPT ![target[u]] = IF @ = "nil" THEN @ ELSE "called"]
    /\ UNCHANGED <<topicVars, writer, readers, closed, exit, ch, started, work, pubVars,
                   target, todo, history>>

Running(s) == {w \in Worker : w[1] = s /\ work[w] \in {"receive", "handle"}}

\* Mutant of Waited: Stop does not wait for the workers.
WaitedForNobody(u) ==
    /\ Step(u, "wait", IF u = Closer THEN "next" ELSE "stopped")
    /\ UNCHANGED <<topicVars, writer, readers, closed, exit, subVars, pubVars,
                   target, todo, history>>

\* wg.Wait() returns.
Waited(u) ==
    /\ Step(u, "wait", IF u = Closer THEN "next" ELSE "stopped")
    /\ Running(target[u]) = {}
    /\ UNCHANGED <<topicVars, writer, readers, closed, exit, subVars, pubVars,
                   target, todo, history>>
-----------------------------------------------------------------------------
\* Close.
CallClose ==
    /\ Step(Closer, "new", "exit")
    /\ Orderly => \A s \in Subscriber : upc[s] \notin {"start", "spawn"}
    /\ closed' = TRUE
    /\ UNCHANGED <<topicVars, writer, readers, exit, subVars, pubVars,
                   target, todo, history>>

\* Mutant of CloseExit: exitCh stays open.
CloseLeavesOpen ==
    /\ Step(Closer, "exit", "snapshot")
    /\ UNCHANGED <<topicVars, writer, readers, closed, exit, subVars, pubVars,
                   target, todo, history>>

CloseExit ==
    /\ Step(Closer, "exit", "snapshot")
    /\ exit' = TRUE
    /\ UNCHANGED <<topicVars, writer, readers, closed, subVars, pubVars,
                   target, todo, history>>

\* The copy of ps.topics, and entry.subscribers().
NoTopic ==
    /\ Step(Closer, "snapshot", "closed")
    /\ ~topic
    /\ UNCHANGED <<topicVars, writer, readers, closed, exit, subVars, pubVars,
                   target, todo, history>>

Snapshot ==
    /\ Step(Closer, "snapshot", "next")
    /\ topic
    /\ writer = None
    /\ todo' = subs
    /\ UNCHANGED <<topicVars, writer, readers, closed, exit, subVars, pubVars,
                   target, history>>

CloseNext ==
    /\ \/ /\ todo # <<>>
          /\ Step(Closer, "next", "stop")
          /\ target' = [target EXCEPT ![Closer] = Head(todo)]
          /\ todo' = Tail(todo)
       \/ /\ todo = <<>>
          /\ Step(Closer, "next", "closed")
          /\ UNCHANGED <<target, todo>>
    /\ UNCHANGED <<topicVars, writer, readers, closed, exit, subVars, pubVars, history>>
-----------------------------------------------------------------------------
\* Workers.
Receive(w) ==
    /\ work[w] = "receive"
    /\ ch[w[1]] # <<>>
    /\ ch' = [ch EXCEPT ![w[1]] = Tail(@)]
    /\ work' = [work EXCEPT ![w] = "handle"]
    /\ UNCHANGED <<topicVars, writer, readers, closed, exit, started, cancel, pubVars,
                   userVars, history>>

\* handle: the handler returns, or panics and is recovered.
Handled(w) ==
    /\ work[w] = "handle"
    /\ work' = [work EXCEPT ![w] = "receive"]
    /\ UNCHANGED <<topicVars, writer, readers, closed, exit, ch, started, cancel, pubVars,
                   userVars, history>>

Exit(w) ==
    /\ work[w] = "receive"
    /\ cancel[w[1]] = "called"
    /\ work' = [work EXCEPT ![w] = "done"]
    /\ UNCHANGED <<topicVars, writer, readers, closed, exit, ch, started, cancel, pubVars,
                   userVars, history>>

Working(w) == Receive(w) \/ Handled(w) \/ Exit(w)
-----------------------------------------------------------------------------
\* What goes on by itself once called.
Proceed(u) == \/ u # Closer /\ (AppendSub(u) \/ SetCancel(u) \/ Spawn(u))
              \/ Announce(u) \/ RemoveSub(u) \/ Cancel(u) \/ Waited(u)
              \/ u = Closer /\ (CloseExit \/ NoTopic \/ Snapshot \/ CloseNext)

Calls == \/ \E p \in Publisher : Expire(p) \/ Call(p)
         \/ \E s \in Subscriber : CallSubscribe(s) \/ CallStart(s) \/ CallStop(s)
                                   \/ ParentDone(s)
         \/ CallClose

Next == \/ Calls
        \/ \E p \in Publisher : Publishing(p)
        \/ \E u \in User : Proceed(u)
        \/ \E w \in Worker : Working(w)

Spec == Init /\ [][Next]_vars

\* Goroutines run, handlers return.  Nobody has to call anything, and no
\* context has to expire.
Fairness == /\ \A p \in Publisher : WF_vars(Publishing(p))
            /\ \A u \in User : WF_vars(Proceed(u))
            /\ \A w \in Worker : WF_vars(Working(w))

FairSpec == Spec /\ Fairness
-----------------------------------------------------------------------------
\* A Publish that returns nil has reached every subscriber that was registered
\* for the whole of the call, however the list changed meanwhile.
ReachesAll ==
    \A p \in Publisher \ TryPublisher : result[p] = "nil"
        => \A s \in through[p] : p \in got[s]

\* When Stop has returned, the handler of the subscriber runs no more.
StoppedForGood ==
    \A u \in User, s \in Subscriber :
        \/ u = s /\ upc[u] = "stopped"
        \/ u = Closer /\ upc[u] \in {"next", "closed"} /\ target[u] = s
        => Running(s) = {}

\* The same, only for subscribers whose Start was called before Close
\* ("停止消费并等待所有 worker 退出", pubsub.go:339).
StopWaitsForStarted ==
    \A s \in Subscriber :
        upc[Closer] \in {"next", "closed"} /\ target[Closer] = s /\ early[s]
            => Running(s) = {}

\* Close returns, and so does every publisher that was blocked, even when a
\* queue is full and nobody reads it.
CloseReturns ==
    closed ~> /\ upc[Closer] = "closed"
              /\ \A p \in Publisher : ppc[p] \in {"new", "done"}
=============================================================================
