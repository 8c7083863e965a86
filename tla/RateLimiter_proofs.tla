-------------------------- MODULE RateLimiter_proofs ------------------------
(***************************************************************************)
(* Proofs about RuleSync and RateLimiter, for any set of instances,        *)
(* callers, requests and rules and any number of calls and failures.       *)
(*                                                                         *)
(* The invariant of RuleSync follows a reload: what an agent is about to   *)
(* compile is something that the hash has held, and contains every rule    *)
(* that nobody has touched since its instance started (Carried).  The      *)
(* second needs that no caller has a reload under way in an instance that  *)
(* has not started (CallersLate).                                          *)
(*                                                                         *)
(* The limit of a window rests on two counts: no more requests have been   *)
(* told the count of a window than the counter says (Counted), and those   *)
(* whom no rule of the window's name refused are at most the total of one  *)
(* of these rules (PassedLimit) -- a request told a count above the total  *)
(* is none of them, and for any other the counter itself is the bound.     *)
(* That an admitted request is one whom no rule refused needs the verdict  *)
(* before the last reply as well (Strictest).                              *)
(***************************************************************************)
EXTENDS RateLimiter, FiniteSetTheorems, TLAPS

Carried ==
    \A a \in Agent : apc[a] = "compile" =>
        /\ loaded[a] \in past
        /\ loaded[a] \cap Garbled = {}
        /\ since[Home(a)] \subseteq loaded[a]

History == /\ {} \in past
           /\ Decoded(store) \in past
           /\ \A i \in Instance : since[i] \subseteq Decoded(store)

CallersLate ==
    \A c \in Caller : apc[c] # "idle" => status[At[c]] \in {"up", "closed"}

IInv == /\ TypeOK
        /\ History
        /\ CallersLate
        /\ Carried
        /\ WholeSnapshot
        /\ UntouchedStaysInForce
-----------------------------------------------------------------------------
\* LoadRules returns rules that decode, whatever the hash holds.
LEMMA DecodedRules ==
    ASSUME NEW h \in [Field -> Rule \cup {None}]
    PROVE  Decoded(h) \subseteq Rule /\ Decoded(h) \cap Garbled = {}
BY DEF Decoded

\* Every agent reloads the snapshot of one instance, its own if it is a loop.
LEMMA HomeType ==
    ASSUME NEW a \in Agent
    PROVE  Home(a) \in Instance /\ (a \in Instance => Home(a) = a)
BY CallerAssumption DEF Home, Agent

\* No instance limits at first.
LEMMA InitIInv == Init => IInv
<1> SUFFICES ASSUME Init PROVE IInv
    OBVIOUS
<1>1. store \in [Field -> Rule \cup {None}]
    BY DEF Init
<1>2. TypeOK
    BY <1>1, DecodedRules, CallerAssumption DEF Init, TypeOK
<1>3. History /\ CallersLate /\ Carried
    BY DEF Init, History, CallersLate, Carried, Agent
<1>4. WholeSnapshot /\ UntouchedStaysInForce
    BY DEF Init, WholeSnapshot, UntouchedStaysInForce
<1> QED BY <1>2, <1>3, <1>4 DEF IInv
-----------------------------------------------------------------------------
\* The end of a call or a round keeps the types, and starts no instance anew.
LEMMA FinishType ==
    ASSUME TypeOK, NEW a \in Agent, NEW r \in {"ok", "error"}, Finish(a, r)
    PROVE  /\ apc' = [apc EXCEPT ![a] = "idle"]
           /\ apc' \in [Agent -> {"idle", "load", "compile"}]
           /\ status' \in [Instance -> {"new", "starting", "up", "closed"}]
           /\ \A i \in Instance :
                 \/ status'[i] = status[i]
                 \/ i = a /\ status[i] = "starting"
                    /\ status'[i] = IF r = "ok" THEN "up" ELSE "new"
<1>1. apc' = [apc EXCEPT ![a] = "idle"]
    BY DEF Finish, Go
<1>2. CASE a \in Instance /\ status[a] = "starting"
    BY <1>1, <1>2 DEF Finish, TypeOK
<1>3. CASE ~(a \in Instance /\ status[a] = "starting")
    BY <1>1, <1>3 DEF Finish, TypeOK
<1> QED BY <1>2, <1>3

\* NewRedisRateLimiter begins its first reload.
LEMMA StartIInv ==
    ASSUME IInv, NEW i \in Instance, Start(i)
    PROVE  IInv'
<1> USE DEF IInv
<1>0. i \in Agent /\ Home(i) = i /\ store' = store /\ Decoded(store)' = Decoded(store)
    BY HomeType DEF Agent, Start, Decoded
<1>1. TypeOK'
    BY <1>0, DecodedRules DEF Start, Go, TypeOK
<1>2. History'
    BY <1>0 DEF Start, History, TypeOK
<1>3. CallersLate'
    <2> SUFFICES ASSUME NEW c \in Caller, apc'[c] # "idle"
                 PROVE  status'[At[c]] \in {"up", "closed"}
        BY DEF CallersLate
    <2>1. c # i /\ c \in Agent
        BY CallerAssumption DEF Agent
    <2>2. apc'[c] = apc[c]
        BY <2>1 DEF Start, Go, TypeOK
    <2>3. status[At[c]] \in {"up", "closed"}
        BY <2>2 DEF CallersLate
    <2> QED BY <2>3, CallerAssumption DEF Start, TypeOK
<1>4. Carried'
    <2> SUFFICES ASSUME NEW a \in Agent, apc'[a] = "compile"
                 PROVE  /\ loaded[a] \in past /\ loaded[a] \cap Garbled = {}
                        /\ since'[Home(a)] \subseteq loaded[a]
        BY DEF Carried, Start, Home
    <2>1. a # i /\ apc[a] = "compile"
        BY <1>0 DEF Start, Go, TypeOK
    <2>2. Home(a) # i
        <3>1. CASE a \in Caller
            BY <2>1, <3>1 DEF CallersLate, Start, Home
        <3>2. CASE a \notin Caller
            BY <2>1, <3>2 DEF Home
        <3> QED BY <3>1, <3>2
    <2>3. since'[Home(a)] = since[Home(a)]
        BY <2>2, HomeType DEF Start, TypeOK
    <2> QED BY <2>1, <2>3 DEF Carried
<1>5. WholeSnapshot'
    BY DEF Start, WholeSnapshot, History, TypeOK
<1>6. UntouchedStaysInForce'
    <2> SUFFICES ASSUME NEW j \in Instance, status'[j] \in {"up", "closed"}
                 PROVE  since'[j] \subseteq rules'[j]
        BY DEF UntouchedStaysInForce
    <2>1. j # i
        BY DEF Start, TypeOK
    <2> QED BY <2>1 DEF Start, TypeOK, UntouchedStaysInForce
<1> QED BY <1>1, <1>2, <1>3, <1>4, <1>5, <1>6

\* The loop begins another.
LEMMA TickIInv ==
    ASSUME IInv, NEW i \in Instance, Tick(i)
    PROVE  IInv'
<1> USE DEF IInv
<1>0. i \in Agent /\ Decoded(store)' = Decoded(store)
    BY DEF Agent, Tick, Decoded
<1>1. TypeOK'
    BY <1>0 DEF Tick, Go, TypeOK
<1>2. History'
    BY <1>0 DEF Tick, History
<1>3. CallersLate'
    <2> SUFFICES ASSUME NEW c \in Caller, apc'[c] # "idle"
                 PROVE  status[At[c]] \in {"up", "closed"}
        BY DEF CallersLate, Tick
    <2>1. c # i /\ c \in Agent
        BY CallerAssumption DEF Agent
    <2> QED BY <2>1 DEF Tick, Go, TypeOK, CallersLate
<1>4. Carried'
    <2> SUFFICES ASSUME NEW a \in Agent, apc'[a] = "compile"
                 PROVE  apc[a] = "compile"
        BY DEF Carried, Tick, Home
    <2> QED BY <1>0 DEF Tick, Go, TypeOK
<1>5. WholeSnapshot' /\ UntouchedStaysInForce'
    BY DEF Tick, WholeSnapshot, UntouchedStaysInForce
<1> QED BY <1>1, <1>2, <1>3, <1>4, <1>5

\* Close leaves the snapshot and the reloads under way alone.
LEMMA CloseIInv ==
    ASSUME IInv, NEW i \in Instance, Close(i)
    PROVE  IInv'
<1> USE DEF IInv
<1>1. TypeOK'
    BY DEF Close, TypeOK
<1>2. History'
    BY DEF Close, History, Decoded
<1>3. CallersLate'
    BY CallerAssumption DEF Close, CallersLate, TypeOK
<1>4. Carried'
    BY DEF Close, Carried, Home
<1>5. WholeSnapshot' /\ UntouchedStaysInForce'
    BY DEF Close, WholeSnapshot, UntouchedStaysInForce, TypeOK
<1> QED BY <1>1, <1>2, <1>3, <1>4, <1>5
-----------------------------------------------------------------------------
\* SetRule and DeleteRule: the rules they touch leave the untouched ones.
LEMMA WriteIInv ==
    ASSUME IInv, NEW c \in Caller, NEW f \in Field, NEW r \in Rule \cup {None}, Write(c, f, r)
    PROVE  IInv'
<1> USE DEF IInv
<1>0. c \in Agent /\ c \notin Instance
    BY CallerAssumption DEF Agent
<1>1. store' \in [Field -> Rule \cup {None}]
    BY DEF Write, TypeOK
<1>2. /\ Decoded(store)' \subseteq Rule
      /\ past' = past \cup {Decoded(store)'}
      /\ since' = [i \in Instance |-> since[i] \cap Decoded(store)']
      /\ UNCHANGED <<rules, loaded>>
    BY <1>1, DecodedRules DEF Write, Decoded
<1>3. /\ status' = status
      /\ apc' \in [Agent -> {"idle", "load", "compile"}]
      /\ \A a \in Agent : a # c => apc'[a] = apc[a]
      /\ apc'[c] # "compile"
    <2>1. CASE Go(c, "load") /\ UNCHANGED status
        BY <2>1, <1>0 DEF Go, TypeOK
    <2>2. CASE Finish(c, "error")
        BY <2>2, <1>0 DEF Finish, Go, TypeOK
    <2> QED BY <2>1, <2>2 DEF Write
<1>4. TypeOK'
    <2>1. since' \in [Instance -> SUBSET Rule] /\ past' \subseteq SUBSET Rule
        BY <1>2 DEF TypeOK
    <2> QED BY <2>1, <1>1, <1>2, <1>3 DEF TypeOK
<1>5. History'
    BY <1>2 DEF History
<1>6. CallersLate'
    BY <1>0, <1>3 DEF CallersLate, Agent, Write
<1>7. Carried'
    <2> SUFFICES ASSUME NEW a \in Agent, apc'[a] = "compile"
                 PROVE  /\ loaded[a] \in past' /\ loaded[a] \cap Garbled = {}
                        /\ since'[Home(a)] \subseteq loaded[a]
        BY <1>2 DEF Carried, Home
    <2>1. apc[a] = "compile"
        BY <1>3
    <2>2. since'[Home(a)] \subseteq since[Home(a)]
        BY <1>2, HomeType
    <2> QED BY <2>1, <2>2, <1>2 DEF Carried
<1>8. WholeSnapshot'
    BY <1>2 DEF WholeSnapshot
<1>9. UntouchedStaysInForce'
    BY <1>2, <1>3 DEF UntouchedStaysInForce
<1> QED BY <1>4, <1>5, <1>6, <1>7, <1>8, <1>9
-----------------------------------------------------------------------------
\* What LoadRules returns is whole, and carries every untouched rule.
LEMMA LoadIInv ==
    ASSUME IInv, NEW a \in Agent, Load(a)
    PROVE  IInv'
<1> USE DEF IInv
<1>0. /\ Decoded(store)' = Decoded(store)
      /\ UNCHANGED <<store, rules, past, since>>
      /\ Decoded(store) \subseteq Rule /\ Decoded(store) \cap Garbled = {}
    BY DecodedRules DEF Load, Decoded, TypeOK
<1>1. CASE /\ loaded' = [loaded EXCEPT ![a] = Decoded(store)]
           /\ Go(a, "compile")
           /\ UNCHANGED status
    <2>1. TypeOK'
        BY <1>0, <1>1 DEF Go, TypeOK
    <2>2. History'
        BY <1>0 DEF History
    <2>3. CallersLate'
        BY <1>1 DEF CallersLate, Go, TypeOK, Agent, Load
    <2>4. Carried'
        <3> SUFFICES ASSUME NEW b \in Agent, apc'[b] = "compile"
                     PROVE  /\ loaded'[b] \in past /\ loaded'[b] \cap Garbled = {}
                            /\ since[Home(b)] \subseteq loaded'[b]
            BY <1>0 DEF Carried, Home
        <3>1. CASE b = a
            BY <3>1, <1>0, <1>1, HomeType DEF History, TypeOK
        <3>2. CASE b # a
            BY <3>2, <1>1 DEF Carried, Go, TypeOK
        <3> QED BY <3>1, <3>2
    <2>5. WholeSnapshot' /\ UntouchedStaysInForce'
        BY <1>0, <1>1 DEF WholeSnapshot, UntouchedStaysInForce
    <2> QED BY <2>1, <2>2, <2>3, <2>4, <2>5
<1>2. CASE Finish(a, "error") /\ UNCHANGED loaded
    <2>0. /\ apc' = [apc EXCEPT ![a] = "idle"]
          /\ apc' \in [Agent -> {"idle", "load", "compile"}]
          /\ status' \in [Instance -> {"new", "starting", "up", "closed"}]
          /\ \A i \in Instance : \/ status'[i] = status[i]
                                 \/ status[i] = "starting" /\ status'[i] = "new"
        BY <1>2, FinishType
    <2>1. TypeOK'
        BY <1>0, <1>2, <2>0 DEF TypeOK
    <2>2. History'
        BY <1>0 DEF History
    <2>3. CallersLate'
        <3> SUFFICES ASSUME NEW c \in Caller, apc'[c] # "idle"
                     PROVE  status'[At[c]] \in {"up", "closed"}
            BY DEF CallersLate
        <3>1. apc[c] # "idle"
            BY <2>0 DEF TypeOK, Agent
        <3> QED BY <3>1, <2>0, CallerAssumption DEF CallersLate
    <2>4. Carried'
        <3> SUFFICES ASSUME NEW b \in Agent, apc'[b] = "compile"
                     PROVE  apc[b] = "compile"
            BY <1>0, <1>2 DEF Carried, Home
        <3> QED BY <2>0 DEF TypeOK
    <2>5. WholeSnapshot' /\ UntouchedStaysInForce'
        BY <1>0, <2>0 DEF WholeSnapshot, UntouchedStaysInForce
    <2> QED BY <2>1, <2>2, <2>3, <2>4, <2>5
<1> QED BY <1>1, <1>2 DEF Load

\* Limiter.Reload stores what was loaded, or leaves the snapshot as it was.
LEMMA SwapIInv ==
    ASSUME IInv, NEW a \in Agent, Swap(a)
    PROVE  IInv'
<1> USE DEF IInv
<1>0. /\ Decoded(store)' = Decoded(store)
      /\ UNCHANGED <<store, loaded, past, since>>
      /\ apc[a] = "compile"
      /\ loaded[a] \in past /\ loaded[a] \cap Garbled = {}
      /\ since[Home(a)] \subseteq loaded[a]
      /\ Home(a) \in Instance
    BY HomeType DEF Swap, Decoded, Carried
<1>1. PICK r \in {"ok", "error"} :
         /\ Finish(a, r)
         /\ \/ /\ r = "ok" /\ loaded[a] \cap Broken = {}
               /\ rules' = [rules EXCEPT ![Home(a)] = loaded[a]]
            \/ r = "error" /\ rules' = rules
    BY DEF Swap
<1>2. /\ apc' = [apc EXCEPT ![a] = "idle"]
      /\ apc' \in [Agent -> {"idle", "load", "compile"}]
      /\ status' \in [Instance -> {"new", "starting", "up", "closed"}]
      /\ \A i \in Instance : \/ status'[i] = status[i]
                             \/ i = a /\ status[i] = "starting"
                                /\ status'[i] = IF r = "ok" THEN "up" ELSE "new"
    BY <1>1, FinishType
<1>3. TypeOK'
    BY <1>0, <1>1, <1>2 DEF TypeOK
<1>4. History'
    BY <1>0 DEF History
<1>5. CallersLate'
    <2> SUFFICES ASSUME NEW c \in Caller, apc'[c] # "idle"
                 PROVE  status'[At[c]] \in {"up", "closed"}
        BY DEF CallersLate
    <2>1. apc[c] # "idle"
        BY <1>2 DEF TypeOK, Agent
    <2> QED BY <2>1, <1>2, CallerAssumption DEF CallersLate
<1>6. Carried'
    <2> SUFFICES ASSUME NEW b \in Agent, apc'[b] = "compile"
                 PROVE  apc[b] = "compile"
        BY <1>0 DEF Carried, Home
    <2> QED BY <1>2 DEF TypeOK
<1>7. WholeSnapshot'
    <2> SUFFICES ASSUME NEW i \in Instance
                 PROVE  rules'[i] \in past /\ rules'[i] \cap (Broken \cup Garbled) = {}
        BY <1>0 DEF WholeSnapshot
    <2>1. CASE rules'[i] = rules[i]
        BY <2>1 DEF WholeSnapshot
    <2>2. CASE rules'[i] = loaded[a] /\ loaded[a] \cap Broken = {}
        BY <2>2, <1>0
    <2> QED BY <2>1, <2>2, <1>1 DEF TypeOK
<1>8. UntouchedStaysInForce'
    <2> SUFFICES ASSUME NEW i \in Instance, status'[i] \in {"up", "closed"}
                 PROVE  since[i] \subseteq rules'[i]
        BY <1>0 DEF UntouchedStaysInForce
    <2>1. CASE i = Home(a) /\ r = "ok"
        BY <2>1, <1>0, <1>1 DEF TypeOK
    <2>2. CASE ~(i = Home(a) /\ r = "ok")
        <3>1. rules'[i] = rules[i]
            BY <2>2, <1>0, <1>1 DEF TypeOK
        <3>2. status[i] \in {"up", "closed"}
            BY <2>2, <1>2, HomeType
        <3> QED BY <3>1, <3>2 DEF UntouchedStaysInForce
    <2> QED BY <2>1, <2>2
<1> QED BY <1>3, <1>4, <1>5, <1>6, <1>7, <1>8
-----------------------------------------------------------------------------
\* The invariant is inductive.
LEMMA NextIInv == IInv /\ [Next]_vars => IInv'
<1> SUFFICES ASSUME IInv, [Next]_vars PROVE IInv'
    OBVIOUS
<1>1. CASE \E i \in Instance : Start(i) \/ Tick(i) \/ Close(i)
    BY <1>1, StartIInv, TickIInv, CloseIInv
<1>2. CASE \E c \in Caller : \E r \in Rule \ Garbled : SetRule(c, r)
    <2> PICK c \in Caller, r \in Rule \ Garbled : SetRule(c, r)
        BY <1>2
    <2> FieldOf[r] \in Field /\ Write(c, FieldOf[r], r)
        BY DEF SetRule, Field
    <2> QED BY WriteIInv
<1>3. CASE \E c \in Caller : \E f \in Field : DeleteRule(c, f)
    BY <1>3, WriteIInv DEF DeleteRule
<1>4. CASE \E a \in Agent : Proceed(a)
    BY <1>4, LoadIInv, SwapIInv DEF Proceed
<1>5. CASE UNCHANGED vars
    BY <1>5 DEF vars, IInv, TypeOK, History, CallersLate, Carried, WholeSnapshot,
                UntouchedStaysInForce, Home, Decoded
<1> QED BY <1>1, <1>2, <1>3, <1>4, <1>5 DEF Next

\* Whatever calls, reloads and failures overlap, the invariant holds.
THEOREM RulesInvariance == Spec => []IInv
BY InitIInv, NextIInv, PTL DEF Spec

\* The variables of the rules keep their types.
THEOREM RulesTyped == Spec => []TypeOK
<1>1. IInv => TypeOK
    BY DEF IInv
<1> QED BY <1>1, RulesInvariance, PTL

\* Whatever reloads of one instance overlap and fail, its snapshot is one that
\* the hash has held (Limiter.Reload, ratelimit.go:146).
THEOREM RulesWhole == Spec => []WholeSnapshot
<1>1. IInv => WholeSnapshot
    BY DEF IInv
<1> QED BY <1>1, RulesInvariance, PTL

\* A failed or a slow reload never takes away a rule that nobody has touched
\* since the instance started (ratelimit.go:588).
THEOREM RulesStayInForce == Spec => []UntouchedStaysInForce
<1>1. IInv => UntouchedStaysInForce
    BY DEF IInv
<1> QED BY <1>1, RulesInvariance, PTL
-----------------------------------------------------------------------------
\* The requests of the window whom no version of the rule refused.
Passed(n) == {q \in within[n] : \A s \in seen[q] : NameOf[s[1]] = n => s[2] >= 0}

Counted == \A n \in Name : Cardinality(within[n]) <= counter[n]

Bounded(S, n) ==
    S # {} => \E r \in Rule : NameOf[r] = n /\ Cardinality(S) <= TotalOf[r]

PassedLimit == \A n \in Name : Bounded(Passed(n), n)

\* The verdict on what has been seen so far.
NoneRefuses(q) == \A s \in seen[q] : s[2] >= 0

Strictest ==
    \A q \in Request :
        /\ todo[q] # {} => pc[q] = "count"
        /\ seen[q] # {} => /\ \E s \in seen[q] : s[2] = quota[q].remaining
                           /\ \A s \in seen[q] : s[2] >= quota[q].remaining
        /\ quota[q].allowed <=>
               NoneRefuses(q) /\ ~(pc[q] = "done" /\ err[q] /\ FailClosed)

RLInv == IInv /\ RLTypeOK /\ Counted /\ PassedLimit /\ Strictest
-----------------------------------------------------------------------------
\* Sets of requests are finite.
LEMMA Requests ==
    ASSUME NEW S \in SUBSET Request
    PROVE  IsFiniteSet(S) /\ Cardinality(S) \in Nat
BY FS_Subset, FS_CardinalityType, LimitAssumption

\* The bound of a set of passed requests holds for its subsets.
LEMMA Fewer ==
    ASSUME NEW n, NEW S \in SUBSET Request, NEW T \in SUBSET S, Bounded(S, n)
    PROVE  Bounded(T, n)
<1> SUFFICES ASSUME T # {}
             PROVE  \E r \in Rule : NameOf[r] = n /\ Cardinality(T) <= TotalOf[r]
    BY DEF Bounded
<1>1. Cardinality(T) <= Cardinality(S) /\ Cardinality(T) \in Nat /\ Cardinality(S) \in Nat
    BY Requests, FS_Subset
<1>2. PICK r \in Rule : NameOf[r] = n /\ Cardinality(S) <= TotalOf[r]
    BY DEF Bounded
<1>3. TotalOf[r] \in Nat
    BY LimitAssumption
<1> QED BY <1>1, <1>2, <1>3

\* No request has been counted at first.
LEMMA InitRLInv == RLInit => RLInv
<1> SUFFICES ASSUME RLInit PROVE RLInv
    OBVIOUS
<1>1. IInv
    BY InitIInv DEF RLInit
<1>2. RLTypeOK
    BY DEF RLInit, RLTypeOK, Unlimited
<1>3. Counted /\ PassedLimit
    BY FS_EmptySet DEF RLInit, Counted, PassedLimit, Bounded, Passed
<1>4. Strictest
    BY DEF RLInit, Strictest, NoneRefuses, Unlimited
<1> QED BY <1>1, <1>2, <1>3, <1>4 DEF RLInv
-----------------------------------------------------------------------------
\* What the rest of the invariant says depends on the limiter's variables alone.
LEMMA LimitersOwn ==
    ASSUME RLInv, IInv', UNCHANGED limitVars
    PROVE  RLInv'
<1>1. RLTypeOK'
    BY DEF RLInv, limitVars, RLTypeOK
<1>2. Counted'
    BY DEF RLInv, limitVars, Counted
<1>3. PassedLimit'
    BY DEF RLInv, limitVars, PassedLimit, Bounded, Passed
<1>4. Strictest'
    BY DEF RLInv, limitVars, Strictest, NoneRefuses
<1> QED BY <1>1, <1>2, <1>3, <1>4 DEF RLInv

\* And the rules' part does not depend on the count of the failures.
LEMMA RulesOwn ==
    ASSUME IInv, UNCHANGED <<store, rules, status, apc, loaded, past, since>>
    PROVE  IInv'
BY DEF IInv, TypeOK, History, CallersLate, Carried, WholeSnapshot,
       UntouchedStaysInForce, Home, Decoded

\* Allow takes its snapshot.
LEMMA BeginRLInv ==
    ASSUME RLInv, NEW q \in Request, NEW i \in Instance, NEW matched \in SUBSET rules[i],
           Begin(q, i, matched)
    PROVE  RLInv'
<1> USE DEF RLInv
<1>1. IInv'
    BY RulesOwn DEF Begin, vars
<1>2. RLTypeOK'
    <2>1. matched \subseteq Rule
        BY DEF IInv, TypeOK
    <2> QED BY <2>1 DEF Begin, RLTypeOK
<1>3. Counted' /\ PassedLimit'
    BY DEF Begin, Counted, PassedLimit, Bounded, Passed
<1>4. Strictest'
    BY DEF Begin, Strictest, NoneRefuses, RLTypeOK
<1> QED BY <1>1, <1>2, <1>3, <1>4

\* Allow returns: what it admits was admitted by every script.
LEMMA DecideRLInv ==
    ASSUME RLInv, NEW q \in Request, Decide(q)
    PROVE  RLInv'
<1> USE DEF RLInv
<1>1. IInv'
    BY RulesOwn DEF Decide, vars
<1>2. RLTypeOK'
    BY DEF Decide, RLTypeOK
<1>3. Counted' /\ PassedLimit'
    BY DEF Decide, Counted, PassedLimit, Bounded, Passed
<1>4. Strictest'
    <2> SUFFICES ASSUME NEW p \in Request
                 PROVE  /\ todo[p] # {} => pc'[p] = "count"
                        /\ seen[p] # {} => /\ \E s \in seen[p] : s[2] = quota'[p].remaining
                                           /\ \A s \in seen[p] : s[2] >= quota'[p].remaining
                        /\ quota'[p].allowed <=>
                               NoneRefuses(p) /\ ~(pc'[p] = "done" /\ err[p] /\ FailClosed)
        BY DEF Decide, Strictest, NoneRefuses
    <2>1. CASE p = q
        <3>1. pc'[q] = "done" /\ todo[q] = {} /\ pc[q] = "count"
            BY DEF Decide, RLTypeOK
        <3>2. CASE err[q] /\ FailClosed
            <4>1. /\ quota'[q].allowed = FALSE
                  /\ seen[q] # {} => quota'[q].remaining = quota[q].remaining
                BY <3>2 DEF Decide, RLTypeOK
            <4> QED BY <2>1, <3>1, <3>2, <4>1 DEF Strictest
        <3>3. CASE ~(err[q] /\ FailClosed)
            BY <2>1, <3>1, <3>3 DEF Decide, Strictest
        <3> QED BY <3>2, <3>3
    <2>2. CASE p # q
        <3>1. pc'[p] = pc[p] /\ quota'[p] = quota[p]
            BY <2>2 DEF Decide, RLTypeOK
        <3> QED BY <3>1 DEF Strictest
    <2> QED BY <2>1, <2>2
<1> QED BY <1>1, <1>2, <1>3, <1>4

\* The counter of a window expires.
LEMMA WindowEndsRLInv ==
    ASSUME RLInv, NEW n \in Name, WindowEnds(n)
    PROVE  RLInv'
<1> USE DEF RLInv
<1>1. IInv'
    BY RulesOwn DEF WindowEnds, vars
<1>2. RLTypeOK'
    BY DEF WindowEnds, RLTypeOK
<1>3. Counted'
    BY FS_EmptySet DEF WindowEnds, Counted, RLTypeOK
<1>4. PassedLimit'
    <2> SUFFICES ASSUME NEW m \in Name
                 PROVE  Bounded(Passed(m), m)'
        BY DEF PassedLimit
    <2>1. CASE m = n
        BY <2>1 DEF WindowEnds, Bounded, Passed, RLTypeOK
    <2>2. CASE m # n
        <3>1. Passed(m)' = Passed(m)
            BY <2>2 DEF WindowEnds, Passed, RLTypeOK
        <3> QED BY <3>1 DEF PassedLimit, Bounded
    <2> QED BY <2>1, <2>2
<1>5. Strictest'
    BY DEF WindowEnds, Strictest, NoneRefuses
<1> QED BY <1>1, <1>2, <1>3, <1>4, <1>5
-----------------------------------------------------------------------------
\* A script leaves the counter a natural number, at least one above what it
\* was unless it has deleted it.
LEMMA IncrCounter ==
    ASSUME RLTypeOK, NEW r \in Rule, Incr(r)
    PROVE  /\ NameOf[r] \in Name /\ Current(r) \in Nat
           /\ counter' \in [Name -> Nat]
           /\ \A n \in Name : n # NameOf[r] => counter'[n] = counter[n]
           /\ Current(r) = counter[NameOf[r]] + 1
           /\ \/ counter'[NameOf[r]] = Current(r)
              \/ counter'[NameOf[r]] = 0 /\ counter[NameOf[r]] = 0
<1>1. NameOf[r] \in Name /\ counter[NameOf[r]] \in Nat
    BY DEF RLTypeOK, Name
<1>2. Current(r) = counter[NameOf[r]] + 1 /\ Current(r) \in Nat
    BY <1>1 DEF Current
<1>3. CASE r \in Brief /\ Current(r) = 1
    <2>1. counter' = [counter EXCEPT ![NameOf[r]] = 0]
        BY <1>3 DEF Incr
    <2>2. counter[NameOf[r]] = 0
        BY <1>1, <1>2, <1>3
    <2> QED BY <2>2, <1>1, <1>2, <1>3, <2>1 DEF RLTypeOK
<1>4. CASE ~(r \in Brief /\ Current(r) = 1)
    <2>1. counter' = [counter EXCEPT ![NameOf[r]] = Current(r)]
        BY <1>4 DEF Incr
    <2> QED BY <1>1, <1>2, <2>1 DEF RLTypeOK
<1> QED BY <1>3, <1>4

\* A failed script may have counted, but tells the request nothing.
LEMMA CountFailsRLInv ==
    ASSUME RLInv, NEW q \in Request, NEW r \in todo[q], CountFails(q, r)
    PROVE  RLInv'
<1> USE DEF RLInv
<1>0. r \in Rule /\ UNCHANGED <<pc, quota, seen, within>>
    BY DEF CountFails, RLTypeOK
<1>1. IInv'
    BY RulesOwn DEF CountFails
<1>2. /\ counter' \in [Name -> Nat]
      /\ \A n \in Name : counter'[n] >= counter[n]
    <2>1. CASE UNCHANGED counter
        BY <2>1 DEF RLTypeOK
    <2>2. CASE Incr(r)
        <3> SUFFICES ASSUME NEW n \in Name
                     PROVE  counter' \in [Name -> Nat] /\ counter'[n] >= counter[n]
            BY <1>0, <2>2, IncrCounter
        <3>1. counter[n] \in Nat /\ counter' \in [Name -> Nat]
            BY <1>0, <2>2, IncrCounter DEF RLTypeOK
        <3> QED BY <3>1, <1>0, <2>2, IncrCounter
    <2> QED BY <2>1, <2>2 DEF CountFails
<1>3. /\ todo' \in [Request -> SUBSET Rule] /\ err' \in [Request -> BOOLEAN]
      /\ \A p \in Request : todo'[p] \subseteq todo[p]
      /\ \A p \in Request : p # q => err'[p] = err[p]
    <2>1. CASE UNCHANGED <<todo, err>>
        BY <2>1 DEF RLTypeOK
    <2>2. CASE /\ todo' = [todo EXCEPT ![q] = @ \ {r}]
               /\ err' = [err EXCEPT ![q] = TRUE]
        BY <2>2 DEF RLTypeOK
    <2> QED BY <2>1, <2>2 DEF CountFails
<1>4. RLTypeOK'
    BY <1>0, <1>2, <1>3 DEF RLTypeOK
<1>5. Counted'
    <2> SUFFICES ASSUME NEW n \in Name
                 PROVE  Cardinality(within[n]) <= counter'[n]
        BY <1>0 DEF Counted
    <2>1. Cardinality(within[n]) \in Nat /\ Cardinality(within[n]) <= counter[n]
          /\ counter[n] \in Nat
        BY Requests DEF Counted, RLTypeOK
    <2> QED BY <2>1, <1>2
<1>6. PassedLimit'
    BY <1>0 DEF PassedLimit, Bounded, Passed
<1>7. Strictest'
    <2>1. pc[q] = "count"
        BY DEF Strictest
    <2> QED BY <2>1, <1>0, <1>3 DEF Strictest, NoneRefuses
<1> QED BY <1>1, <1>4, <1>5, <1>6, <1>7
-----------------------------------------------------------------------------
\* One more reply: the least of what remains, and refused if any rule refuses.
LEMMA StricterVerdict ==
    ASSUME RLTypeOK, Strictest, NEW q \in Request, NEW x \in Int, pc[q] # "done",
           NEW v, v = Stricter(q, x)
    PROVE  /\ v \in [allowed : BOOLEAN, remaining : Int]
           /\ \/ v.remaining = x
              \/ seen[q] # {} /\ v.remaining = quota[q].remaining
           /\ v.remaining <= x
           /\ \A s \in seen[q] : s[2] >= v.remaining
           /\ v.allowed <=> NoneRefuses(q) /\ x >= 0
<1>1. /\ quota[q] \in [allowed : BOOLEAN, remaining : Int]
      /\ seen[q] \subseteq Rule \X Int
      /\ \A s \in seen[q] : s[2] \in Int
    BY DEF RLTypeOK
<1>2. /\ quota[q].allowed \in BOOLEAN /\ quota[q].remaining \in Int
      /\ quota[q].allowed <=> NoneRefuses(q)
      /\ \A s \in seen[q] : s[2] >= quota[q].remaining
    BY <1>1 DEF Strictest
<1> DEFINE current == [allowed |-> x >= 0, remaining |-> x]
<1>3. CASE seen[q] = {} \/ x < quota[q].remaining
    <2>1. v = [current EXCEPT !.allowed = @ /\ current.allowed]
        BY <1>3 DEF Stricter
    <2>2. v \in [allowed : BOOLEAN, remaining : Int] /\ v.remaining = x
          /\ (v.allowed <=> x >= 0)
        <3>1. CASE x >= 0
            <4>1. v = [allowed |-> TRUE, remaining |-> x]
                BY <2>1, <3>1
            <4> QED BY <3>1, <4>1
        <3>2. CASE ~(x >= 0)
            <4>1. v = [allowed |-> FALSE, remaining |-> x]
                BY <2>1, <3>2
            <4> QED BY <3>2, <4>1
        <3> QED BY <3>1, <3>2
    <2>3. \A s \in seen[q] : s[2] >= x
        BY <1>1, <1>2, <1>3
    <2>4. x >= 0 => NoneRefuses(q)
        BY <1>1, <2>3 DEF NoneRefuses
    <2> QED BY <2>2, <2>3, <2>4
<1>4. CASE seen[q] # {} /\ ~(x < quota[q].remaining)
    <2>1. v = [quota[q] EXCEPT !.allowed = @ /\ (x >= 0)]
        BY <1>4 DEF Stricter
    <2>2. /\ v.remaining = quota[q].remaining
          /\ v.allowed = (quota[q].allowed /\ x >= 0)
        BY <1>1, <2>1
    <2>3. v \in [allowed : BOOLEAN, remaining : Int]
        BY <1>1, <2>1
    <2> QED BY <1>2, <1>4, <2>2, <2>3
<1> QED BY <1>3, <1>4

\* A script counts a request: the count is at least the requests it was told to.
LEMMA CountRLInv ==
    ASSUME RLInv, NEW q \in Request, NEW r \in todo[q], Count(q, r)
    PROVE  RLInv'
<1> USE DEF RLInv
<1> DEFINE name == NameOf[r]
           x == TotalOf[r] - Current(r)
<1>0. r \in Rule /\ pc[q] = "count" /\ Incr(r)
    BY DEF Count, RLTypeOK, Strictest
<1>1. /\ name \in Name /\ Current(r) \in Nat /\ Current(r) = counter[name] + 1
      /\ counter' \in [Name -> Nat]
      /\ \A n \in Name : n # name => counter'[n] = counter[n]
      /\ counter'[name] = Current(r) \/ counter'[name] = 0
    BY <1>0, IncrCounter
<1>2. TotalOf[r] \in Nat /\ x \in Int
    BY <1>0, <1>1, LimitAssumption
<1>3. /\ UNCHANGED <<vars, pc, err>>
      /\ todo' = [todo EXCEPT ![q] = @ \ {r}]
      /\ quota' = [quota EXCEPT ![q] = Stricter(q, x)]
      /\ seen' = [seen EXCEPT ![q] = @ \cup {<<r, x>>}]
      /\ within' = [within EXCEPT ![name] = IF counter'[name] = 0 THEN {} ELSE @ \cup {q}]
    BY DEF Count
<1>4. IInv'
    BY <1>3, RulesOwn DEF vars
<1>5. /\ Stricter(q, x) \in [allowed : BOOLEAN, remaining : Int]
      /\ \/ Stricter(q, x).remaining = x
         \/ seen[q] # {} /\ Stricter(q, x).remaining = quota[q].remaining
      /\ Stricter(q, x).remaining <= x
      /\ \A s \in seen[q] : s[2] >= Stricter(q, x).remaining
      /\ Stricter(q, x).allowed <=> NoneRefuses(q) /\ x >= 0
    BY <1>0, <1>2, StricterVerdict
<1>6. RLTypeOK'
    <2>1. todo' \in [Request -> SUBSET Rule] /\ seen' \in [Request -> SUBSET (Rule \X Int)]
        BY <1>0, <1>2, <1>3 DEF RLTypeOK
    <2>2. quota' \in [Request -> [allowed : BOOLEAN, remaining : Int]]
        BY <1>3, <1>5 DEF RLTypeOK
    <2>3. within' \in [Name -> SUBSET Request]
        BY <1>1, <1>3 DEF RLTypeOK
    <2> QED BY <2>1, <2>2, <2>3, <1>1, <1>3 DEF RLTypeOK
<1>7. /\ seen'[q] = seen[q] \cup {<<r, x>>}
      /\ \A p \in Request : p # q => seen'[p] = seen[p]
      /\ \A n \in Name : n # name => within'[n] = within[n]
      /\ \/ within'[name] = {}
         \/ within'[name] = within[name] \cup {q} /\ counter'[name] = Current(r)
    BY <1>1, <1>3 DEF RLTypeOK
<1>8. Counted'
    <2> SUFFICES ASSUME NEW n \in Name
                 PROVE  Cardinality(within'[n]) <= counter'[n]
        BY DEF Counted
    <2>0. Cardinality(within[n]) <= counter[n] /\ Cardinality(within[n]) \in Nat
          /\ counter[n] \in Nat /\ counter'[n] \in Nat /\ IsFiniteSet(within[n])
        BY <1>1, Requests DEF Counted, RLTypeOK
    <2>1. CASE n # name
        BY <2>0, <2>1, <1>1, <1>7
    <2>2. CASE n = name /\ within'[n] = {}
        BY <2>0, <2>2, FS_EmptySet
    <2>3. CASE n = name /\ within'[n] = within[n] \cup {q} /\ counter'[n] = Current(r)
        <3>1. Cardinality(within'[n]) <= Cardinality(within[n]) + 1
            <4>1. Cardinality(within[n] \cup {q}) \in {Cardinality(within[n]), Cardinality(within[n]) + 1}
                BY <2>0, FS_AddElement
            <4> QED BY <4>1, <2>0, <2>3
        <3>2. Cardinality(within'[n]) \in Nat
            BY <1>6, Requests DEF RLTypeOK
        <3> QED BY <3>1, <3>2, <2>0, <2>3, <1>1
    <2> QED BY <2>1, <2>2, <2>3, <1>7
<1>9. PassedLimit'
    <2> SUFFICES ASSUME NEW n \in Name
                 PROVE  Bounded(Passed(n), n)'
        BY DEF PassedLimit
    <2>0. Passed(n) \subseteq Request /\ Passed(n)' \subseteq within'[n] /\ within'[n] \subseteq Request
        BY <1>6 DEF Passed, RLTypeOK
    <2>1. CASE Passed(n)' \subseteq Passed(n)
        <3>1. Bounded(Passed(n)', n)
            BY <2>0, <2>1, Fewer DEF PassedLimit
        <3> QED BY <3>1 DEF Bounded
    <2>2. CASE ~(Passed(n)' \subseteq Passed(n))
        <3>1. PICK p \in Passed(n)' : p \notin Passed(n)
            BY <2>2
        <3>2. n = name /\ within'[n] = within[n] \cup {q} /\ counter'[n] = Current(r) /\ p = q
            BY <3>1, <2>0, <1>7 DEF Passed
        <3>3. <<r, x>> \in seen'[q]
            BY <1>7
        <3>4. x >= 0
            <4>1. \A s \in seen'[q] : NameOf[s[1]] = n => s[2] >= 0
                BY <3>1, <3>2 DEF Passed
            <4> QED BY <4>1, <3>2, <3>3
        <3>5. Current(r) <= TotalOf[r]
            BY <3>4, <1>1, <1>2
        <3>6. Cardinality(within'[n]) <= TotalOf[r]
            <4>1. Cardinality(within'[n]) <= counter'[n] /\ Cardinality(within'[n]) \in Nat
                BY <1>8, <2>0, Requests DEF Counted
            <4> QED BY <4>1, <3>2, <3>5, <1>1, <1>2
        <3>7. Bounded(within'[n], n)
            BY <3>2, <3>6, <1>0 DEF Bounded
        <3>8. Bounded(Passed(n)', n)
            BY <3>7, <2>0, Fewer
        <3> QED BY <3>8 DEF Bounded
    <2> QED BY <2>1, <2>2
<1>10. Strictest'
    <2> SUFFICES ASSUME NEW p \in Request
                 PROVE  /\ todo'[p] # {} => pc[p] = "count"
                        /\ seen'[p] # {} => /\ \E s \in seen'[p] : s[2] = quota'[p].remaining
                                            /\ \A s \in seen'[p] : s[2] >= quota'[p].remaining
                        /\ quota'[p].allowed <=>
                               NoneRefuses(p)' /\ ~(pc[p] = "done" /\ err[p] /\ FailClosed)
        BY <1>3 DEF Strictest
    <2>1. CASE p = q
        <3>0. /\ <<r, x>> \in seen'[q] /\ <<r, x>>[2] = x
              /\ seen[q] \subseteq seen'[q]
              /\ \A s \in seen'[q] : s \in seen[q] \/ s[2] = x
            BY <1>7
        <3>1. quota'[q] = Stricter(q, x)
            BY <1>3 DEF RLTypeOK
        <3>2. NoneRefuses(q)' <=> NoneRefuses(q) /\ x >= 0
            BY <3>0 DEF NoneRefuses
        <3>3. \A s \in seen'[q] : s[2] >= quota'[q].remaining
            <4>1. x >= Stricter(q, x).remaining
                BY <1>2, <1>5
            <4> QED BY <4>1, <3>1, <1>5, <1>7
        <3>4. \E s \in seen'[q] : s[2] = quota'[q].remaining
            <4>1. CASE Stricter(q, x).remaining = x
                BY <4>1, <3>0, <3>1
            <4>2. CASE seen[q] # {} /\ Stricter(q, x).remaining = quota[q].remaining
                BY <4>2, <3>1, <1>7 DEF Strictest
            <4> QED BY <4>1, <4>2, <1>5
        <3> QED BY <2>1, <3>1, <3>2, <3>3, <3>4, <1>0, <1>5
    <2>2. CASE p # q
        <3>1. todo'[p] = todo[p] /\ seen'[p] = seen[p] /\ quota'[p] = quota[p]
            BY <2>2, <1>3 DEF RLTypeOK
        <3> QED BY <3>1 DEF Strictest, NoneRefuses
    <2> QED BY <2>1, <2>2
<1> QED BY <1>4, <1>6, <1>8, <1>9, <1>10
-----------------------------------------------------------------------------
\* The invariant is inductive.
LEMMA NextRLInv == RLInv /\ [RLNext]_<<vars, limitVars>> => RLInv'
<1> SUFFICES ASSUME RLInv, [RLNext]_<<vars, limitVars>> PROVE RLInv'
    OBVIOUS
<1>1. CASE Next /\ UNCHANGED limitVars
    <2>1. IInv'
        BY <1>1, NextIInv DEF RLInv
    <2> QED BY <1>1, <2>1, LimitersOwn
<1>2. CASE \E q \in Request : Allow(q)
    BY <1>2, BeginRLInv, CountRLInv, CountFailsRLInv, DecideRLInv DEF Allow
<1>3. CASE \E n \in Name : WindowEnds(n)
    BY <1>3, WindowEndsRLInv
<1>4. CASE UNCHANGED <<vars, limitVars>>
    <2>1. IInv'
        BY <1>4, RulesOwn DEF vars, RLInv
    <2> QED BY <1>4, <2>1, LimitersOwn
<1> QED BY <1>1, <1>2, <1>3, <1>4 DEF RLNext

\* Whatever requests, reloads and failures overlap, the invariant holds.
THEOREM LimiterInvariance == RLSpec => []RLInv
BY InitRLInv, NextRLInv, PTL DEF RLSpec

\* The variables of the limiter keep their types.
THEOREM LimiterTyped == RLSpec => []RLTypeOK
<1>1. RLInv => RLTypeOK
    BY DEF RLInv
<1> QED BY <1>1, LimiterInvariance, PTL

\* Any number of instances admit together, in one window, no more requests
\* by a rule than the total of one of its versions (Limiter.evalRule,
\* ratelimit.go:266).
THEOREM LimiterKeepsWindow == RLSpec => []WindowLimit
<1>1. RLInv => WindowLimit
    <2> SUFFICES ASSUME RLInv, NEW n \in Name
                 PROVE  Bounded(Admitted(n), n)
        BY DEF WindowLimit, Bounded
    <2>1. Admitted(n) \subseteq Passed(n) /\ Passed(n) \subseteq Request
        BY DEF RLInv, RLTypeOK, Strictest, NoneRefuses, Admitted, Passed
    <2> QED BY <2>1, Fewer DEF RLInv, PassedLimit
<1> QED BY <1>1, LimiterInvariance, PTL

\* The quota that Allow returns is that of the strictest rule, whatever the
\* order of the rules (Limiter.Allow, ratelimit.go:224).
THEOREM LimiterStrictest == RLSpec => []VerdictIsStrictest
<1>1. RLInv => VerdictIsStrictest
    BY DEF RLInv, Strictest, NoneRefuses, VerdictIsStrictest
<1> QED BY <1>1, LimiterInvariance, PTL
=============================================================================
