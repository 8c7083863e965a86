----------------------------- MODULE RateLimiter ----------------------------
(***************************************************************************)
(* pkg/ratelimit, Limiter.Allow: requests counted in Redis against the     *)
(* rules of RuleSync, while those change.  A request takes the snapshot of *)
(* its instance once and then runs one counting script per rule that it    *)
(* matches; a counter is shared by every instance and every version of a   *)
(* rule, and vanishes when its window is over.                             *)
(*                                                                         *)
(* The requests have one subject, so a counter is known by the name of its *)
(* rule; which rules match a request's path and method is left open, and   *)
(* so is the order of the scripts.                                         *)
(***************************************************************************)
EXTENDS RuleSync, Integers

CONSTANTS Request,
          NameOf,      \* NameOf[r]: the trimmed name, which keys the counter
          TotalOf,     \* TotalOf[r]: requests that a window admits
          Brief,       \* rules whose window is no full millisecond
          FailClosed   \* the failure policy

ASSUME LimitAssumption == /\ TotalOf \in [Rule -> Nat \ {0}]
                          /\ FailClosed \in BOOLEAN
                          /\ IsFiniteSet(Request)

Name == {NameOf[r] : r \in Rule}

VARIABLES counter,  \* counter[n]: the key of n, or 0 when it does not exist
          pc, todo, \* a request: place, matched rules that are to be counted
          quota,    \* the strictest Quota so far
          err,      \* a script has failed (firstErr)
          \* history
          seen,     \* seen[q]: <<rule, remaining>> of every script that replied
          within    \* within[n]: the requests told the count of n's present window

limitVars == <<counter, pc, todo, quota, err, seen, within>>

\* &Quota{Allowed: true, Remaining: -1}: nothing has limited the request.
Unlimited == [allowed |-> TRUE, remaining |-> -1]

RLInit == /\ Init
          /\ counter = [n \in Name |-> 0]
          /\ pc = [q \in Request |-> "new"]
          /\ todo = [q \in Request |-> {}]
          /\ quota = [q \in Request |-> Unlimited]
          /\ err = [q \in Request |-> FALSE]
          /\ seen = [q \in Request |-> {}]
          /\ within = [n \in Name |-> {}]
-----------------------------------------------------------------------------
\* Allow takes the snapshot of instance i and matches the request.
Begin(q, i, matched) ==
    /\ pc[q] = "new"
    /\ status[i] \in {"up", "closed"}
    /\ matched \subseteq rules[i]
    /\ pc' = [pc EXCEPT ![q] = "count"]
    /\ todo' = [todo EXCEPT ![q] = matched]
    /\ UNCHANGED <<vars, counter, quota, err, seen, within>>

\* luaIncrWindow: what INCR returns, and the counter that the script leaves,
\* which PEXPIRE with 0 deletes at once.
Current(r) == counter[NameOf[r]] + 1

Incr(r) == counter' = [counter EXCEPT ![NameOf[r]] =
                           IF r \in Brief /\ Current(r) = 1 THEN 0 ELSE Current(r)]

\* Mutants of Stricter: one request too many, or the laxest rule answers.
StricterLate(q, remaining) ==
    LET current == [allowed |-> remaining >= -1, remaining |-> remaining]
        least == IF seen[q] = {} \/ remaining < quota[q].remaining
                 THEN current ELSE quota[q]
    IN [least EXCEPT !.allowed = @ /\ current.allowed]

Laxer(q, remaining) ==
    LET current == [allowed |-> remaining >= 0, remaining |-> remaining]
    IN IF seen[q] = {} \/ remaining > quota[q].remaining THEN current ELSE quota[q]

\* The quota after the reply of one more rule.
Stricter(q, remaining) ==
    LET current == [allowed |-> remaining >= 0, remaining |-> remaining]
        least == IF seen[q] = {} \/ remaining < quota[q].remaining
                 THEN current ELSE quota[q]
    IN [least EXCEPT !.allowed = @ /\ current.allowed]

\* evalRule, and what Allow makes of its quota.
Count(q, r) ==
    LET remaining == TotalOf[r] - Current(r)
    IN /\ r \in todo[q]
       /\ Incr(r)
       /\ todo' = [todo EXCEPT ![q] = @ \ {r}]
       /\ quota' = [quota EXCEPT ![q] = Stricter(q, remaining)]
       /\ seen' = [seen EXCEPT ![q] = @ \cup {<<r, remaining>>}]
       /\ within' = [within EXCEPT ![NameOf[r]] =
                         IF counter'[NameOf[r]] = 0 THEN {} ELSE @ \cup {q}]
       /\ UNCHANGED <<vars, pc, err>>

\* The script fails, before or after it ran; or the reply is lost and
\* go-redis runs it once more.
CountFails(q, r) ==
    /\ r \in todo[q]
    /\ Fault
    /\ \/ UNCHANGED counter /\ todo' = [todo EXCEPT ![q] = @ \ {r}]
                            /\ err' = [err EXCEPT ![q] = TRUE]
       \/ Incr(r) /\ todo' = [todo EXCEPT ![q] = @ \ {r}]
                  /\ err' = [err EXCEPT ![q] = TRUE]
       \/ Incr(r) /\ UNCHANGED <<todo, err>>
    /\ UNCHANGED <<store, rules, status, apc, loaded, calls, past, since,
                   pc, quota, seen, within>>

\* Allow returns.
Decide(q) ==
    /\ pc[q] = "count" /\ todo[q] = {}
    /\ pc' = [pc EXCEPT ![q] = "done"]
    /\ quota' = IF err[q] /\ FailClosed
                THEN [quota EXCEPT ![q] =
                         [allowed |-> FALSE,
                          remaining |-> IF seen[q] = {} THEN 0 ELSE @.remaining]]
                ELSE quota
    /\ UNCHANGED <<vars, counter, todo, err, seen, within>>

\* The window of a counter is over.
WindowEnds(n) ==
    /\ counter[n] > 0
    /\ counter' = [counter EXCEPT ![n] = 0]
    /\ within' = [within EXCEPT ![n] = {}]
    /\ UNCHANGED <<vars, pc, todo, quota, err, seen>>

Allow(q) == \/ \E i \in Instance : \E matched \in SUBSET rules[i] : Begin(q, i, matched)
            \/ \E r \in todo[q] : Count(q, r) \/ CountFails(q, r)
            \/ Decide(q)

RLNext == \/ Next /\ UNCHANGED limitVars
          \/ \E q \in Request : Allow(q)
          \/ \E n \in Name : WindowEnds(n)

RLSpec == RLInit /\ [][RLNext]_<<vars, limitVars>>
-----------------------------------------------------------------------------
RLTypeOK == /\ counter \in [Name -> Nat]
            /\ pc \in [Request -> {"new", "count", "done"}]
            /\ todo \in [Request -> SUBSET Rule]
            /\ quota \in [Request -> [allowed : BOOLEAN, remaining : Int]]
            /\ err \in [Request -> BOOLEAN]
            /\ seen \in [Request -> SUBSET (Rule \X Int)]
            /\ within \in [Name -> SUBSET Request]

\* The requests of the window that have been admitted.
Admitted(n) == {q \in within[n] : pc[q] = "done" /\ quota[q].allowed}

\* In one window, the instances together admit no more requests by a rule than
\* its total, however many run at once, whatever replies are lost, and while
\* the rule is replaced: no more than one of its versions allows.  (A request
\* whose script failed is not told the count, and fail_open admits it.)
WindowLimit ==
    \A n \in Name : Admitted(n) # {} =>
        \E r \in Rule : NameOf[r] = n /\ Cardinality(Admitted(n)) <= TotalOf[r]

\* The answer is that of the strictest rule (ratelimit_test.go:210), in
\* whatever order the rules came: what remains is the least of what any rule
\* leaves, and one rule that is used up denies the request.  A failed script
\* denies it under fail_closed and else changes nothing.
VerdictIsStrictest ==
    \A q \in Request : pc[q] = "done" =>
        /\ quota[q].allowed <=> /\ \A s \in seen[q] : s[2] >= 0
                                /\ ~(err[q] /\ FailClosed)
        /\ seen[q] # {} => /\ \E s \in seen[q] : s[2] = quota[q].remaining
                           /\ \A s \in seen[q] : s[2] >= quota[q].remaining
=============================================================================
