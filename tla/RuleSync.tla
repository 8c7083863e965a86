------------------------------ MODULE RuleSync ------------------------------
(***************************************************************************)
(* pkg/ratelimit: the rules, one Redis hash shared by every instance of    *)
(* the service, and the snapshot each instance limits by.  SetRule and     *)
(* DeleteRule write the hash and reload the snapshot of their own          *)
(* instance; a loop in each instance reloads periodically.  A reload reads *)
(* the whole hash, compiles it and stores the snapshot, and nothing orders *)
(* two reloads of one instance.                                            *)
(*                                                                         *)
(* A Rule is a stored value, with the hash field it is stored under.       *)
(***************************************************************************)
EXTENDS Naturals, FiniteSets

CONSTANTS Instance, Caller,
          At,       \* At[c]: the instance whose methods a caller calls
          Rule,
          FieldOf,  \* FieldOf[r]: rule.Name as stored, the field of the hash
          Garbled,  \* rules that LoadRules cannot decode
          Broken,   \* rules that compileRule refuses
          MaxCalls, MaxFaults,  \* bounds: calls, and failures of Redis
          None

ASSUME RuleAssumption == Garbled \subseteq Rule /\ Broken \subseteq Rule /\ None \notin Rule
ASSUME CallerAssumption == At \in [Caller -> Instance] /\ Caller \cap Instance = {}

Agent == Caller \cup Instance     \* an instance stands for its reload loop
Home(a) == IF a \in Caller THEN At[a] ELSE a
Field == {FieldOf[r] : r \in Rule}

VARIABLES store,   \* the hash: a field's rule, or None
          rules,   \* rules[i]: the snapshot of i's limiter
          status,  \* "new", "starting", "up" or "closed"
          apc, loaded,   \* an agent: place, what LoadRules returned to it
          calls, faults, \* counters for the bounds
          \* history
          past,          \* every set of rules that the hash has held
          since          \* since[i]: the rules in the hash ever since i started

vars == <<store, rules, status, apc, loaded, calls, faults, past, since>>

\* HGETALL without the values that do not decode.
Decoded(h) == {h[f] : f \in Field} \ (Garbled \cup {None})

\* Rules with broken or undecodable values come from an earlier SetRule or
\* from another program.
Init == /\ store \in {h \in [Field -> Rule \cup {None}] :
                          \A f \in Field : h[f] # None => FieldOf[h[f]] = f}
        /\ rules = [i \in Instance |-> {}]
        /\ status = [i \in Instance |-> "new"]
        /\ apc = [a \in Agent |-> "idle"]
        /\ loaded = [a \in Agent |-> {}]
        /\ calls = 0 /\ faults = 0
        /\ past = {{}, Decoded(store)}
        /\ since = [i \in Instance |-> {}]
-----------------------------------------------------------------------------
Go(a, place) == apc' = [apc EXCEPT ![a] = place]

\* The call, or the round of the loop, ends with r.  The first round of an
\* instance is the Reload of NewRedisRateLimiter, which starts the loop or
\* gives up.
Finish(a, r) ==
    /\ Go(a, "idle")
    /\ status' = IF a \in Instance /\ status[a] = "starting"
                 THEN [status EXCEPT ![a] = IF r = "ok" THEN "up" ELSE "new"]
                 ELSE status

Fault == faults < MaxFaults /\ faults' = faults + 1

\* NewRedisRateLimiter
Start(i) ==
    /\ status[i] = "new"
    /\ status' = [status EXCEPT ![i] = "starting"]
    /\ rules' = [rules EXCEPT ![i] = {}]
    /\ Go(i, "load")
    /\ since' = [since EXCEPT ![i] = Decoded(store)]
    /\ UNCHANGED <<store, loaded, calls, faults, past>>

\* The ticker fires.
Tick(i) ==
    /\ status[i] = "up" /\ apc[i] = "idle"
    /\ Go(i, "load")
    /\ UNCHANGED <<store, rules, status, loaded, calls, faults, past, since>>

\* Close; a reload that is under way may still finish.
Close(i) ==
    /\ status[i] = "up"
    /\ status' = [status EXCEPT ![i] = "closed"]
    /\ UNCHANGED <<store, rules, apc, loaded, calls, faults, past, since>>

\* SetRule (HSET) or DeleteRule (HDEL): the write.  Its reply may be lost, or
\* the command may not reach Redis, and then the call returns the error.
Write(c, f, r) ==
    /\ status[At[c]] \in {"up", "closed"} /\ apc[c] = "idle"
    /\ calls < MaxCalls /\ calls' = calls + 1
    /\ \/ store' = [store EXCEPT ![f] = r] /\ Go(c, "load") /\ UNCHANGED <<status, faults>>
       \/ store' = [store EXCEPT ![f] = r] /\ Fault /\ Finish(c, "error")
       \/ store' = store /\ Fault /\ Finish(c, "error")
    /\ past' = past \cup {Decoded(store')}
    /\ since' = [i \in Instance |-> since[i] \cap Decoded(store')]
    /\ UNCHANGED <<rules, loaded>>

SetRule(c, r) == Write(c, FieldOf[r], r)
DeleteRule(c, f) == Write(c, f, None)

\* Mutant of Load: what has been loaded once is not read again.
LoadOnce(a) ==
    /\ apc[a] = "load"
    /\ loaded' = [loaded EXCEPT ![a] = IF @ = {} THEN Decoded(store) ELSE @]
    /\ Go(a, "compile")
    /\ UNCHANGED <<status, faults, store, rules, calls, past, since>>

\* LoadRules
Load(a) ==
    /\ apc[a] = "load"
    /\ \/ /\ loaded' = [loaded EXCEPT ![a] = Decoded(store)]
          /\ Go(a, "compile")
          /\ UNCHANGED <<status, faults>>
       \/ /\ Fault \/ (status[Home(a)] = "closed" /\ a \in Instance /\ UNCHANGED faults)
          /\ Finish(a, "error")
          /\ UNCHANGED loaded
    /\ UNCHANGED <<store, rules, calls, past, since>>

\* Mutants of Swap: the rules that compile replace the others, or a failure
\* leaves no rules.
SwapCompiled(a) ==
    /\ apc[a] = "compile"
    /\ rules' = [rules EXCEPT ![Home(a)] = loaded[a] \ Broken]
    /\ Finish(a, "ok")
    /\ UNCHANGED <<store, loaded, calls, faults, past, since>>

SwapOrClear(a) ==
    /\ apc[a] = "compile"
    /\ rules' = [rules EXCEPT ![Home(a)] = IF loaded[a] \cap Broken = {}
                                           THEN loaded[a] ELSE {}]
    /\ Finish(a, IF loaded[a] \cap Broken = {} THEN "ok" ELSE "error")
    /\ UNCHANGED <<store, loaded, calls, faults, past, since>>

\* Limiter.Reload: the first rule that does not compile ends it.
Swap(a) ==
    /\ apc[a] = "compile"
    /\ \/ /\ loaded[a] \cap Broken = {}
          /\ rules' = [rules EXCEPT ![Home(a)] = loaded[a]]
          /\ Finish(a, "ok")
       \/ /\ loaded[a] \cap Broken # {}
          /\ Finish(a, "error")
          /\ UNCHANGED rules
    /\ UNCHANGED <<store, loaded, calls, faults, past, since>>

Proceed(a) == Load(a) \/ Swap(a)

Next == \/ \E i \in Instance : Start(i) \/ Tick(i) \/ Close(i)
        \/ \E c \in Caller : \/ \E r \in Rule \ Garbled : SetRule(c, r)
                             \/ \E f \in Field : DeleteRule(c, f)
        \/ \E a \in Agent : Proceed(a)

Spec == Init /\ [][Next]_vars

\* The ticker keeps firing, and a reload that has begun goes on.  Nobody has
\* to start or close an instance, or to call anything.
Fairness == /\ \A i \in Instance : WF_vars(Tick(i))
            /\ \A a \in Agent : WF_vars(Proceed(a))

FairSpec == Spec /\ Fairness
-----------------------------------------------------------------------------
TypeOK == /\ store \in [Field -> Rule \cup {None}]
          /\ rules \in [Instance -> SUBSET Rule]
          /\ status \in [Instance -> {"new", "starting", "up", "closed"}]
          /\ apc \in [Agent -> {"idle", "load", "compile"}]
          /\ loaded \in [Agent -> SUBSET Rule]
          /\ past \subseteq SUBSET Rule
          /\ since \in [Instance -> SUBSET Rule]

\* An instance never limits by a mixture: whatever reloads overlap and fail,
\* its snapshot is what the hash held at one moment, every rule of it
\* compiled.
WholeSnapshot ==
    \A i \in Instance : rules[i] \in past /\ rules[i] \cap (Broken \cup Garbled) = {}

\* A failed reload takes no limit away (ratelimit.go:588), nor does a slow one:
\* a rule that nobody has touched since the instance started is always in force.
UntouchedStaysInForce ==
    \A i \in Instance : status[i] \in {"up", "closed"} => since[i] \subseteq rules[i]

\* Once the calls are over, an instance that runs comes to limit by what the
\* hash holds, and stays with it, whatever older snapshot a slow SetRule or a
\* slow round of the loop has stored meanwhile -- as long as every rule compiles.
Converges ==
    \A i \in Instance :
        <>[](status[i] = "up" /\ Decoded(store) \cap Broken = {}
               => rules[i] = Decoded(store))
=============================================================================
