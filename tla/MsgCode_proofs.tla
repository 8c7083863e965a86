--------------------------- MODULE MsgCode_proofs ---------------------------
(***************************************************************************)
(* Proofs about MsgCode, for any finite set of senders, any lifetime, and  *)
(* any number of Sends and broken connections.                             *)
(*                                                                         *)
(* The code in Redis is always of a Send that no later one and no Delete   *)
(* has replaced (CodeInv), it outlives every Send that stands (StandInv),  *)
(* a counter that lacks its lifetime awaits an EXPIRE (LifeInv), and what  *)
(* it misses or has too much are the INCRs under way (CountInv).           *)
(***************************************************************************)
EXTENDS MsgCode, FiniteSetTheorems, TLAPS

Code == [code : Sender, created : Nat, ttl : Nat]
Places == {"idle", "set", "incr hour", "incr day", "expire hour", "expire day", "return"}

\* The Sends whose pipeline has come past a command.
PastSet == {"incr hour", "incr day", "expire hour", "expire day", "return"}
PastHour == {"incr day", "expire hour", "expire day", "return"}
PastDay == {"expire hour", "expire day", "return"}

TypeInv ==
    /\ now \in 1..MaxNow
    /\ code \in Code \cup {NoCode} /\ codeEnd \in Nat
    /\ hour \in [Hour -> Nat] /\ hourEnd \in [Hour -> Nat]
    /\ day \in [Day -> Nat] /\ dayEnd \in [Day -> Nat]
    /\ pc \in [Sender -> Places]
    /\ cv \in [Sender -> Code]
    /\ at \in [Sender -> Hour]
    /\ got \in [Verifier -> Code \cup {NoCode}]
    /\ res \in [Verifier -> {"idle", "get", "check", "ok"}]
    /\ force \in SUBSET Code
    /\ old \in [Sender -> SUBSET Code]
    /\ cand \in [Verifier -> SUBSET Code]
    /\ nils \in [Hour -> Nat] /\ tries \in [Hour -> Nat]
    /\ nilsDay \in [Day -> Nat] /\ triesDay \in [Day -> Nat]

\* No Send has replaced what another one in progress sends, and the code in
\* Redis may be in force, also when a Send returns that has set its own.
CodeInv ==
    /\ \A s \in Sender : InProgress(s) => cv[s] \in force
    /\ \A s, t \in Sender : InProgress(s) => cv[s] \notin old[t]
    /\ code \in force \cup {NoCode}
    /\ \A s \in Sender : pc[s] \in PastSet => code \notin old[s]

VerifyInv ==
    \A v \in Verifier : /\ res[v] = "get" => force \subseteq cand[v]
                        /\ res[v] \in {"check", "ok"} => got[v] \in cand[v]

\* Redis has a code, and for as long as c would be valid.
Covered(c) == \/ CodeTtl = 0 /\ code # NoCode /\ codeEnd = Never
              \/ CodeTtl > 0 /\ code # NoCode /\ codeEnd >= c.created + CodeTtl
              \/ CodeTtl > 0 /\ now >= c.created + CodeTtl

StandInv ==
    /\ stands \subseteq force
    /\ \A c \in force : c.created <= now
    /\ \A s \in Sender : cv[s].created <= now
    /\ \A c \in stands : Covered(c)
    /\ \A s \in Sender : pc[s] \in PastSet /\ s \notin hit => Covered(cv[s])

LifeInv ==
    /\ \A s \in Sender : at[s] <= now
    /\ \A h \in Hour : hourEnd[h] >= h + 2
    /\ \A d \in Day : dayEnd[d] \div DayLen >= d + 2
    /\ \A h \in Hour : hour[h] > 0 /\ hourEnd[h] = Never =>
          \/ h \in gaveUp
          \/ \E s \in Sender : at[s] = h /\ pc[s] \in Places \ {"idle", "expire day", "return"}
    /\ \A d \in Day : day[d] > 0 /\ dayEnd[d] = Never =>
          \/ \E h \in gaveUp : h \in HoursOf(d)
          \/ \E s \in Sender : at[s] \in HoursOf(d) /\ pc[s] \in Places \ {"idle", "return"}

\* The Sends of an hour or a day that have counted, and those that have yet to.
HourDone(h) == {s \in Sender : pc[s] \in PastHour /\ at[s] = h}
HourDue(h) == {s \in Sender : pc[s] \in {"set", "incr hour"} /\ at[s] = h}
DayDone(d) == {s \in Sender : pc[s] \in PastDay /\ DayOf(at[s]) = d}
DayDue(d) == {s \in Sender : pc[s] \in {"set", "incr hour", "incr day"} /\ DayOf(at[s]) = d}

CountInv ==
    /\ \A h \in Hour : /\ now <= h + 1 => nils[h] + Cardinality(HourDone(h)) <= hour[h]
                       /\ hour[h] + Cardinality(HourDue(h)) <= tries[h]
    /\ \A d \in Day : /\ DayOf(now) <= d + 1 => nilsDay[d] + Cardinality(DayDone(d)) <= day[d]
                      /\ day[d] + Cardinality(DayDue(d)) <= triesDay[d]

MCInv == TypeInv /\ CodeInv /\ VerifyInv /\ StandInv /\ LifeInv /\ CountInv
-----------------------------------------------------------------------------
\* Time: no lifetime that an EXPIRE or a SET gives lasts until Never.
LEMMA TimeFacts ==
    /\ Never \in Nat
    /\ \A n \in 0..MaxNow : n < Never /\ n + 2 < Never /\ n + 2 * DayLen < Never
                            /\ n + CodeTtl < Never
    /\ \A h \in Hour : h \in Nat /\ DayOf(h) \in Nat /\ DayOf(h) \in Day
    /\ \A d \in Day : d \in Nat /\ \E h \in Hour : d = DayOf(h)
<1>1. /\ MaxNow \in Nat /\ CodeTtl \in Nat /\ DayLen \in Nat \ {0} /\ 2 * DayLen \in Nat
      /\ 2 * DayLen >= 2
    BY MsgCodeAssumption
<1>2. Never \in Nat /\ Never = MaxNow + CodeTtl + 2 * DayLen + 1
    BY <1>1 DEF Never
<1>3. \A n \in 0..MaxNow : n < Never /\ n + 2 < Never /\ n + 2 * DayLen < Never
                            /\ n + CodeTtl < Never
    BY <1>1, <1>2
<1>4. \A h \in Hour : h \in Nat /\ DayOf(h) \in Nat
    BY <1>1 DEF Hour, DayOf
<1>5. \A h \in Hour : DayOf(h) \in Day
    BY DEF Day
<1>6. \A d \in Day : \E h \in Hour : d = DayOf(h)
    BY DEF Day
<1>7. \A d \in Day : d \in Nat
    BY <1>4, <1>6
<1> QED BY <1>2, <1>3, <1>4, <1>5, <1>6, <1>7

\* Two days later is two days later.
LEMMA TwoDays ==
    ASSUME NEW a \in Nat, NEW b \in Nat, NEW D \in Nat \ {0}, b >= a + 2 * D
    PROVE  b \div D >= (a \div D) + 2
    OBVIOUS

LEMMA DaysGoOn ==
    ASSUME NEW a \in Nat, NEW b \in Nat, NEW D \in Nat \ {0}, a <= b
    PROVE  a \div D <= b \div D /\ a \div D \in Nat /\ b \div D \in Nat
<1>1. a \div D \in Nat
    OBVIOUS
<1>2. b \div D \in Nat
    OBVIOUS
<1>3. a \div D <= b \div D
    OBVIOUS
<1> QED BY <1>1, <1>2, <1>3

LEMMA NeverIsFar ==
    ASSUME NEW d \in Day
    PROVE  Never \div DayLen >= d + 2
<1>1. PICK h \in Hour : d = DayOf(h)
    BY TimeFacts
<1>2. Never >= h + 2 * DayLen /\ h \in Nat /\ Never \in Nat
    BY TimeFacts, MsgCodeAssumption DEF Hour
<1> QED BY <1>1, <1>2, TwoDays, MsgCodeAssumption DEF DayOf

LEMMA NoCodeIsNone == NoCode \notin Code
    BY MsgCodeAssumption DEF Code

LEMMA NowIsAnHour ==
    ASSUME TypeInv
    PROVE  now \in Nat /\ now \in Hour /\ DayOf(now) \in Day /\ DayOf(now) \in Nat
           /\ \A s \in Sender : at[s] \in Hour /\ DayOf(at[s]) \in Day
<1>1. now \in Nat /\ now \in Hour
    BY MsgCodeAssumption DEF TypeInv, Hour
<1>2. \A s \in Sender : at[s] \in Hour
    BY DEF TypeInv
<1> QED BY <1>1, <1>2, TimeFacts

\* What the two ways to send have in common.
LEMMA SendStarts ==
    ASSUME TypeInv, \A t \in Sender : cv[t].created <= now,
           NEW s \in Sender, Send(s) \/ SendValue(s)
    PROVE  \E c \in Code : Starts(s, c) /\ Filled(c) \in Code /\ Filled(c).created <= now
<1>1. CodeTtl \in Nat /\ now \in Nat /\ now # 0
    BY MsgCodeAssumption DEF TypeInv
<1>2. ASSUME NEW c \in Code, c.created <= now
      PROVE  Filled(c) \in Code /\ Filled(c).created <= now
    BY <1>1, <1>2 DEF Filled, CodeValue, Code
<1>3. CASE Send(s)
    <2> DEFINE c == CodeValue(s, now, CodeTtl)
    <2>1. c \in Code /\ c.created <= now
        BY <1>1 DEF CodeValue, Code
    <2>2. Starts(s, c)
        BY <1>3 DEF Send
    <2> HIDE DEF c
    <2> QED BY <1>2, <2>1, <2>2
<1>4. ASSUME NEW ttl \in CvTtls, Starts(s, CodeValue(s, 0, ttl))
      PROVE  \E c \in Code : Starts(s, c) /\ Filled(c) \in Code /\ Filled(c).created <= now
    <2> DEFINE c == CodeValue(s, 0, ttl)
    <2>1. c \in Code /\ c.created <= now
        BY <1>1, MsgCodeAssumption DEF CodeValue, Code
    <2>2. Starts(s, c)
        BY <1>4
    <2> HIDE DEF c
    <2> QED BY <1>2, <2>1, <2>2
<1>5. CASE Starts(s, cv[s])
    <2>1. cv[s] \in Code /\ cv[s].created <= now
        BY DEF TypeInv
    <2> QED BY <1>2, <1>5, <2>1
<1> QED BY <1>3, <1>4, <1>5 DEF SendValue

LEMMA InitMCInv == Init => MCInv
<1> SUFFICES ASSUME Init PROVE MCInv
    OBVIOUS
<1>1. 1 \in 1..MaxNow /\ 1 \in Nat /\ 0 \in Hour
    BY MsgCodeAssumption DEF Hour
<1>2. TypeInv
    <2>1. /\ now \in 1..MaxNow
          /\ code \in Code \cup {NoCode} /\ codeEnd \in Nat
          /\ hour \in [Hour -> Nat] /\ hourEnd \in [Hour -> Nat]
          /\ day \in [Day -> Nat] /\ dayEnd \in [Day -> Nat]
        BY <1>1, TimeFacts DEF Init
    <2>2. cv \in [Sender -> Code]
        BY DEF Init, CodeValue, Code
    <2>3. /\ pc \in [Sender -> Places]
          /\ at \in [Sender -> Hour]
          /\ got \in [Verifier -> Code \cup {NoCode}]
          /\ res \in [Verifier -> {"idle", "get", "check", "ok"}]
        BY <1>1 DEF Init, Places
    <2>4. /\ force \in SUBSET Code
          /\ old \in [Sender -> SUBSET Code]
          /\ cand \in [Verifier -> SUBSET Code]
          /\ nils \in [Hour -> Nat] /\ tries \in [Hour -> Nat]
          /\ nilsDay \in [Day -> Nat] /\ triesDay \in [Day -> Nat]
        BY DEF Init
    <2> QED BY <2>1, <2>2, <2>3, <2>4 DEF TypeInv
<1>3. CodeInv /\ VerifyInv
    BY DEF Init, CodeInv, VerifyInv, InProgress, PastSet
<1>4. StandInv
    BY DEF Init, StandInv, CodeValue, PastSet
<1>5. LifeInv
    <2>1. \A h \in Hour : Never >= h + 2
        BY TimeFacts DEF Hour
    <2>2. \A d \in Day : Never \div DayLen >= d + 2
        BY NeverIsFar
    <2>3. /\ \A s \in Sender : at[s] <= now
          /\ \A h \in Hour : hourEnd[h] = Never /\ hour[h] = 0
          /\ \A d \in Day : dayEnd[d] = Never /\ day[d] = 0
        BY DEF Init
    <2>4. ~(0 > 0)
        OBVIOUS
    <2>5. /\ \A h \in Hour : hourEnd[h] >= h + 2 /\ ~(hour[h] > 0)
          /\ \A d \in Day : dayEnd[d] \div DayLen >= d + 2 /\ ~(day[d] > 0)
        BY <2>1, <2>2, <2>3, <2>4
    <2> QED BY <2>3, <2>5 DEF LifeInv
<1>6. CountInv
    <2>1. /\ \A h \in Hour : HourDone(h) = {} /\ HourDue(h) = {}
          /\ \A d \in Day : DayDone(d) = {} /\ DayDue(d) = {}
        BY DEF Init, HourDone, HourDue, DayDone, DayDue, PastHour, PastDay
    <2>2. Cardinality({}) = 0
        BY FS_EmptySet
    <2>3. /\ \A h \in Hour : nils[h] = 0 /\ tries[h] = 0 /\ hour[h] = 0
          /\ \A d \in Day : nilsDay[d] = 0 /\ triesDay[d] = 0 /\ day[d] = 0
        BY DEF Init
    <2>4. 0 + 0 <= 0
        OBVIOUS
    <2> QED BY <2>1, <2>2, <2>3, <2>4 DEF CountInv
<1> QED BY <1>2, <1>3, <1>4, <1>5, <1>6 DEF MCInv

LEMMA TypeStep ==
    ASSUME TypeInv, StandInv, [Next]_vars
    PROVE  TypeInv'
<1>1. CASE Tick
    <2>1. now' \in 1..MaxNow /\ now' \in Nat
        BY <1>1, MsgCodeAssumption DEF Tick, TypeInv
    <2>2. code' \in Code \cup {NoCode} /\ codeEnd' \in Nat
        BY <1>1, TimeFacts DEF Tick, TypeInv
    <2>3. hour' \in [Hour -> Nat] /\ hourEnd' \in [Hour -> Nat]
        BY <1>1, TimeFacts DEF Tick, TypeInv
    <2>4. day' \in [Day -> Nat] /\ dayEnd' \in [Day -> Nat]
        BY <1>1, TimeFacts DEF Tick, TypeInv
    <2> QED BY <1>1, <2>1, <2>2, <2>3, <2>4
            DEF Tick, TypeInv, senders, tallies, verifiers, history
<1>2. ASSUME NEW s \in Sender, Send(s) \/ SendValue(s)
      PROVE  TypeInv'
    <2>1. PICK c \in Code : Starts(s, c) /\ Filled(c) \in Code
        BY <1>2, SendStarts DEF StandInv
    <2>2. /\ UNCHANGED <<now, store, got, res, nils, nilsDay>>
          /\ cv' = [cv EXCEPT ![s] = Filled(c)]
          /\ at' = [at EXCEPT ![s] = now]
          /\ pc' = [pc EXCEPT ![s] = "set"]
          /\ tries' = [tries EXCEPT ![now] = @ + 1]
          /\ triesDay' = [triesDay EXCEPT ![DayOf(now)] = @ + 1]
          /\ force' = force \cup {Filled(c)}
        BY <2>1 DEF Starts, Tried
    <2>3. old' \in [Sender -> SUBSET Code]
        BY <2>1 DEF Starts, TypeInv
    <2>4. cand' \in [Verifier -> SUBSET Code]
        BY <2>1 DEF Starts, TypeInv
    <2>5. tries' \in [Hour -> Nat] /\ triesDay' \in [Day -> Nat]
        BY <2>2, NowIsAnHour DEF TypeInv
    <2>6. cv' \in [Sender -> Code]
        BY <2>1, <2>2 DEF TypeInv
    <2>7. at' \in [Sender -> Hour]
        BY <2>2, NowIsAnHour DEF TypeInv
    <2>8. pc' \in [Sender -> Places]
        BY <2>2 DEF TypeInv, Places
    <2>9. force' \in SUBSET Code
        BY <2>1, <2>2 DEF TypeInv
    <2> QED BY <2>2, <2>3, <2>4, <2>5, <2>6, <2>7, <2>8, <2>9 DEF TypeInv, store
<1>3. ASSUME NEW s \in Sender, SetCode(s)
      PROVE  TypeInv'
    <2>1. code' \in Code /\ codeEnd' \in Nat
        <3>1. now + CodeTtl \in Nat /\ Never \in Nat
            BY TimeFacts, NowIsAnHour, MsgCodeAssumption
        <3>2. cv[s] \in Code
            BY DEF TypeInv
        <3> QED BY <1>3, <3>1, <3>2 DEF SetCode
    <2>2. pc' \in [Sender -> Places]
        BY <1>3 DEF SetCode, Command, TypeInv, Places
    <2> QED BY <1>3, <2>1, <2>2 DEF SetCode, Command, TypeInv, tallies, verifiers, history
<1>4. ASSUME NEW s \in Sender, IncrHour(s) \/ ExpireHour(s)
      PROVE  TypeInv'
    <2>1. pc' \in [Sender -> Places]
        BY <1>4 DEF IncrHour, ExpireHour, Command, TypeInv, Places
    <2>2. hour' \in [Hour -> Nat]
        <3>1. hour' = hour \/ hour' = [hour EXCEPT ![at[s]] = hour[at[s]] + 1]
            BY <1>4 DEF IncrHour, ExpireHour
        <3>2. at[s] \in Hour /\ hour[at[s]] + 1 \in Nat
            BY DEF TypeInv
        <3> QED BY <3>1, <3>2 DEF TypeInv
    <2>3. hourEnd' \in [Hour -> Nat]
        <3>1. now + 2 \in Nat
            BY NowIsAnHour
        <3> QED BY <1>4, <3>1, NowIsAnHour DEF IncrHour, ExpireHour, TypeInv
    <2> QED BY <1>4, <2>1, <2>2, <2>3
            DEF IncrHour, ExpireHour, Command, TypeInv, tallies, verifiers, history
<1>5. ASSUME NEW s \in Sender, IncrDay(s) \/ ExpireDay(s)
      PROVE  TypeInv'
    <2>1. pc' \in [Sender -> Places]
        BY <1>5 DEF IncrDay, ExpireDay, Command, TypeInv, Places
    <2>2. now + 2 * DayLen \in Nat
        BY NowIsAnHour, MsgCodeAssumption
    <2>3. day' \in [Day -> Nat]
        <3>1. day' = day \/ day' = [day EXCEPT ![DayOf(at[s])] = day[DayOf(at[s])] + 1]
            BY <1>5 DEF IncrDay, ExpireDay
        <3>2. DayOf(at[s]) \in Day /\ day[DayOf(at[s])] + 1 \in Nat
            BY NowIsAnHour DEF TypeInv
        <3> QED BY <3>1, <3>2 DEF TypeInv
    <2>4. dayEnd' \in [Day -> Nat]
        BY <1>5, <2>2, NowIsAnHour DEF IncrDay, ExpireDay, TypeInv
    <2> QED BY <1>5, <2>1, <2>3, <2>4
            DEF IncrDay, ExpireDay, Command, TypeInv, tallies, verifiers, history
<1>6. ASSUME NEW s \in Sender, SendReturns(s)
      PROVE  TypeInv'
    <2>1. pc' \in [Sender -> Places]
        BY <1>6 DEF SendReturns, TypeInv, Places
    <2>2. nils' \in [Hour -> Nat] /\ nilsDay' \in [Day -> Nat]
        BY <1>6, NowIsAnHour DEF SendReturns, TypeInv
    <2>3. old' \in [Sender -> SUBSET Code] /\ force' \in SUBSET Code
        BY <1>6 DEF SendReturns, TypeInv
    <2> QED BY <1>6, <2>1, <2>2, <2>3 DEF SendReturns, TypeInv, store, verifiers
<1>7. ASSUME NEW s \in Sender, Break(s)
      PROVE  TypeInv'
    <2>1. pc' \in [Sender -> Places]
        BY <1>7 DEF Break, TypeInv, Places
    <2>2. tries' \in [Hour -> Nat] /\ triesDay' \in [Day -> Nat]
        BY <1>7, NowIsAnHour DEF Break, Tried, TypeInv
    <2>3. old' \in [Sender -> SUBSET Code]
        BY <1>7 DEF Break, TypeInv
    <2> QED BY <1>7, <2>1, <2>2, <2>3 DEF Break, TypeInv, store, verifiers
<1>8. CASE Delete
    <2>1. codeEnd' \in Nat /\ code' = NoCode
        BY <1>8, TimeFacts DEF Delete
    <2>2. force' \in SUBSET Code
        BY <1>8 DEF Delete, Unsettled, TypeInv
    <2> QED BY <1>8, <2>1, <2>2 DEF Delete, TypeInv, senders, tallies, verifiers
<1>9. ASSUME NEW v \in Verifier, Verify(v) \/ Get(v) \/ Refuses(v) \/ \E s \in Sender : Accepts(v, s)
      PROVE  TypeInv'
    <2>1. /\ res' \in [Verifier -> {"idle", "get", "check", "ok"}]
          /\ got' \in [Verifier -> Code \cup {NoCode}]
        BY <1>9 DEF Verify, Get, Refuses, Accepts, Goes, TypeInv
    <2>2. cand' \in [Verifier -> SUBSET Code]
        BY <1>9 DEF Verify, Get, Refuses, Accepts, Goes, TypeInv
    <2>3. UNCHANGED <<now, store, senders, history>>
        BY <1>9 DEF Verify, Get, Refuses, Accepts, Goes
    <2> QED BY <2>1, <2>2, <2>3 DEF TypeInv, store, senders, tallies, history
<1>10. CASE UNCHANGED vars
    BY <1>10 DEF vars, store, senders, tallies, verifiers, history, TypeInv
<1> QED BY <1>1, <1>2, <1>3, <1>4, <1>5, <1>6, <1>7, <1>8, <1>9, <1>10 DEF Next

-----------------------------------------------------------------------------
\* The code in force.  Only a Send that begins adds one, only one that returns
\* nil or a Delete takes some away.
LEMMA CodeStep ==
    ASSUME TypeInv, CodeInv, StandInv, [Next]_vars
    PROVE  CodeInv'
<1>1. CASE Tick
    <2>1. /\ UNCHANGED <<pc, cv, old, force>> /\ code' \in {code, NoCode}
        BY <1>1 DEF Tick, senders, history
    <2>2. \A s \in Sender : NoCode \notin old[s]
        BY NoCodeIsNone DEF TypeInv
    <2> QED BY <2>1, <2>2 DEF CodeInv, InProgress
<1>2. ASSUME NEW s \in Sender, Send(s) \/ SendValue(s)
      PROVE  CodeInv'
    <2>1. PICK c \in Code : Starts(s, c) /\ Filled(c) \in Code
        BY <1>2, SendStarts DEF StandInv
    <2> DEFINE f == Filled(c)
    <2>2. /\ pc[s] = "idle" /\ code' = code
          /\ force' = force \cup {f}
          /\ \A t \in Sender : /\ pc'[t] = IF t = s THEN "set" ELSE pc[t]
                               /\ cv'[t] = IF t = s THEN f ELSE cv[t]
                               /\ old'[t] = IF t = s THEN force \ (Unsettled \cup {f})
                                                     ELSE old[t] \ {f}
        BY <2>1 DEF Starts, TypeInv, store
    <2> HIDE DEF f
    <2>3. \A t \in Sender : pc'[t] # "idle" => cv'[t] \in force'
        BY <2>2 DEF CodeInv, InProgress
    <2>4. \A t \in Sender : pc[t] # "idle" => cv[t] \in Unsettled
        BY DEF Unsettled, InProgress
    <2>5. \A t, u \in Sender : pc'[t] # "idle" => cv'[t] \notin old'[u]
        BY <2>2, <2>4 DEF CodeInv, InProgress
    <2>6. \A t \in Sender : pc'[t] \in PastSet => code \notin old'[t]
        BY <2>2 DEF CodeInv, PastSet
    <2> QED BY <2>2, <2>3, <2>5, <2>6 DEF CodeInv, InProgress
<1>3. ASSUME NEW s \in Sender, SetCode(s)
      PROVE  CodeInv'
    <2>1. /\ pc[s] = "set" /\ pc' = [pc EXCEPT ![s] = "incr hour"]
          /\ UNCHANGED <<cv, old, force>> /\ code' = cv[s]
        BY <1>3 DEF SetCode, Command, history
    <2>2. \A t \in Sender : InProgress(t)' => InProgress(t)
        BY <2>1 DEF InProgress, TypeInv
    <2>3. cv[s] \in force /\ \A t \in Sender : cv[s] \notin old[t]
        BY <2>1 DEF CodeInv, InProgress
    <2> QED BY <2>1, <2>2, <2>3 DEF CodeInv
<1>4. ASSUME NEW s \in Sender, IncrHour(s) \/ IncrDay(s) \/ ExpireHour(s) \/ ExpireDay(s)
      PROVE  CodeInv'
    <2>1. /\ UNCHANGED <<cv, old, force, code>>
          /\ pc[s] \in PastSet
          /\ \E to \in PastSet : pc' = [pc EXCEPT ![s] = to]
        BY <1>4 DEF IncrHour, IncrDay, ExpireHour, ExpireDay, Command, history, PastSet
    <2>2. \A t \in Sender : (InProgress(t)' => InProgress(t))
                            /\ (pc'[t] \in PastSet => pc[t] \in PastSet)
        BY <2>1 DEF InProgress, PastSet, TypeInv
    <2> QED BY <2>1, <2>2 DEF CodeInv
<1>5. ASSUME NEW s \in Sender, SendReturns(s)
      PROVE  CodeInv'
    <2>1. /\ pc[s] = "return" /\ UNCHANGED <<cv, code>>
          /\ force' = force \ old[s]
          /\ \A t \in Sender : /\ pc'[t] = IF t = s THEN "idle" ELSE pc[t]
                               /\ old'[t] = IF t = s THEN {} ELSE old[t]
        BY <1>5 DEF SendReturns, TypeInv, store
    <2>2. code \notin old[s]
        BY <2>1 DEF CodeInv, PastSet
    <2>3. \A t \in Sender : pc'[t] # "idle" => cv[t] \in force \ old[s]
        BY <2>1 DEF CodeInv, InProgress
    <2>4. \A t \in Sender : old'[t] \subseteq old[t] /\ (pc'[t] # "idle" => pc[t] = pc'[t])
        BY <2>1
    <2>5. \A t, u \in Sender : pc'[t] # "idle" => cv[t] \notin old'[u]
        BY <2>1, <2>4 DEF CodeInv, InProgress
    <2>6. \A t \in Sender : pc'[t] \in PastSet => code \notin old'[t]
        BY <2>1, <2>4 DEF CodeInv, PastSet
    <2>7. code \in force' \cup {NoCode}
        BY <2>1, <2>2 DEF CodeInv
    <2> QED BY <2>1, <2>3, <2>5, <2>6, <2>7 DEF CodeInv, InProgress
<1>6. ASSUME NEW s \in Sender, Break(s)
      PROVE  CodeInv'
    <2>1. /\ pc[s] # "idle" /\ UNCHANGED <<cv, code, force>>
          /\ \A t \in Sender : /\ t # s => pc'[t] = pc[t]
                               /\ old'[t] \subseteq old[t]
          /\ pc'[s] \in {"set", "idle"}
        BY <1>6 DEF Break, TypeInv, store
    <2>2. \A t \in Sender : pc'[t] # "idle" => pc[t] # "idle"
        BY <2>1
    <2>3. \A t \in Sender : pc'[t] \in PastSet => pc[t] \in PastSet
        BY <2>1 DEF PastSet
    <2>4. \A t \in Sender : pc'[t] # "idle" => cv[t] \in force
        BY <2>2 DEF CodeInv, InProgress
    <2>5. \A t, u \in Sender : pc'[t] # "idle" => cv[t] \notin old'[u]
        BY <2>1, <2>2 DEF CodeInv, InProgress
    <2>6. \A t \in Sender : pc'[t] \in PastSet => code \notin old'[t]
        BY <2>1, <2>3 DEF CodeInv
    <2> QED BY <2>1, <2>4, <2>5, <2>6 DEF CodeInv, InProgress
<1>7. CASE Delete
    <2>1. /\ UNCHANGED <<pc, cv, old>> /\ code' = NoCode /\ force' = Unsettled
        BY <1>7 DEF Delete, senders
    <2>2. \A s \in Sender : NoCode \notin old[s]
        BY NoCodeIsNone DEF TypeInv
    <2>3. \A t \in Sender : InProgress(t) => cv[t] \in Unsettled
        BY DEF Unsettled
    <2> QED BY <2>1, <2>2, <2>3 DEF CodeInv, InProgress
<1>8. ASSUME UNCHANGED <<pc, cv, old, code, force>>
      PROVE  CodeInv'
    BY <1>8 DEF CodeInv, InProgress
<1>9. ASSUME NEW v \in Verifier, Verify(v) \/ Get(v) \/ Refuses(v) \/ \E s \in Sender : Accepts(v, s)
      PROVE  CodeInv'
    BY <1>8, <1>9 DEF Verify, Get, Refuses, Accepts, Goes, store, senders, history
<1>10. CASE UNCHANGED vars
    BY <1>8, <1>10 DEF vars, store, senders, history
<1> QED BY <1>1, <1>2, <1>3, <1>4, <1>5, <1>6, <1>7, <1>9, <1>10 DEF Next

\* What a Verify may accept: what is in force when it begins, and later.
LEMMA VerifyStep ==
    ASSUME TypeInv, CodeInv, StandInv, VerifyInv, [Next]_vars
    PROVE  VerifyInv'
<1>1. ASSUME UNCHANGED verifiers, force' \subseteq force
      PROVE  VerifyInv'
    BY <1>1 DEF VerifyInv, verifiers
<1>2. CASE Tick
    BY <1>1, <1>2 DEF Tick, history
<1>3. ASSUME NEW s \in Sender, Send(s) \/ SendValue(s)
      PROVE  VerifyInv'
    <2>1. PICK c \in Code : Starts(s, c) /\ Filled(c) \in Code
        BY <1>3, SendStarts DEF StandInv
    <2>2. /\ UNCHANGED <<got, res>> /\ force' = force \cup {Filled(c)}
          /\ \A v \in Verifier : cand[v] \subseteq cand'[v]
          /\ \A v \in Verifier : res[v] = "get" => Filled(c) \in cand'[v]
        BY <2>1 DEF Starts
    <2> QED BY <2>2 DEF VerifyInv
<1>4. ASSUME NEW s \in Sender,
             \/ SetCode(s) \/ IncrHour(s) \/ IncrDay(s) \/ ExpireHour(s) \/ ExpireDay(s)
             \/ SendReturns(s) \/ Break(s)
      PROVE  VerifyInv'
    <2>1. UNCHANGED verifiers
        BY <1>4 DEF SetCode, IncrHour, IncrDay, ExpireHour, ExpireDay, SendReturns, Break, Command
    <2>2. force' \subseteq force
        BY <1>4 DEF SetCode, IncrHour, IncrDay, ExpireHour, ExpireDay, SendReturns, Break,
                    Command, history
    <2> QED BY <1>1, <2>1, <2>2
<1>5. CASE Delete
    <2>1. Unsettled \subseteq force
        BY DEF Unsettled, CodeInv
    <2> QED BY <1>1, <1>5, <2>1 DEF Delete
<1>6. ASSUME NEW v \in Verifier, Verify(v) \/ Get(v) \/ Refuses(v) \/ \E s \in Sender : Accepts(v, s)
      PROVE  VerifyInv'
    <2>1. /\ force' = force /\ res[v] # "ok"
          /\ \A u \in Verifier : u # v => /\ res'[u] = res[u] /\ got'[u] = got[u]
                                          /\ cand'[u] = cand[u]
        BY <1>6 DEF Verify, Get, Refuses, Accepts, Goes, TypeInv, history
    <2>2. CASE Verify(v)
        <3>1. res'[v] = "get" /\ cand'[v] = force
            BY <2>2 DEF Verify, Goes, TypeInv
        <3> QED BY <2>1, <3>1 DEF VerifyInv
    <2>3. CASE Get(v)
        <3>1. /\ res[v] = "get" /\ res'[v] = "check" /\ cand'[v] = cand[v]
              /\ got'[v] = code /\ code # NoCode
            BY <2>3 DEF Get, Goes, TypeInv
        <3>2. code \in cand[v]
            BY <3>1 DEF VerifyInv, CodeInv
        <3> QED BY <2>1, <3>1, <3>2 DEF VerifyInv
    <2>4. CASE Refuses(v)
        <3>1. res'[v] = "idle"
            BY <2>4 DEF Refuses, Goes, TypeInv
        <3> QED BY <2>1, <3>1 DEF VerifyInv
    <2>5. CASE \E s \in Sender : Accepts(v, s)
        <3>1. /\ res[v] = "check" /\ res'[v] = "ok" /\ cand'[v] = cand[v]
              /\ got'[v] = got[v]
            BY <2>5 DEF Accepts, Goes, TypeInv
        <3> QED BY <2>1, <3>1 DEF VerifyInv
    <2> QED BY <1>6, <2>2, <2>3, <2>4, <2>5
<1>7. CASE UNCHANGED vars
    BY <1>1, <1>7 DEF vars, history
<1> QED BY <1>2, <1>3, <1>4, <1>5, <1>6, <1>7 DEF Next

\* Redis keeps a code for as long as one that stands is valid: a SET gives the
\* code of another Send a lifetime that ends no earlier.
LEMMA StandStep ==
    ASSUME TypeInv, CodeInv, StandInv, [Next]_vars
    PROVE  StandInv'
<1>1. /\ CodeTtl \in Nat /\ now \in Nat /\ now < Never /\ Never \in Nat /\ now \in 0..MaxNow
      /\ \A s \in Sender : cv[s] \in Code
      /\ \A c \in Code : c.created \in Nat
      /\ \A c \in stands : c \in force /\ c \in Code
    BY TimeFacts, NowIsAnHour, MsgCodeAssumption DEF TypeInv, Code, StandInv, Hour
<1>2. CASE Tick
    <2>1. /\ now' = now + 1 /\ now' \in 0..MaxNow
          /\ code' = (IF codeEnd = now' THEN NoCode ELSE code)
          /\ codeEnd' = (IF codeEnd = now' THEN Never ELSE codeEnd)
          /\ UNCHANGED <<pc, cv, force, stands, hit>>
        BY <1>1, <1>2, MsgCodeAssumption DEF Tick, senders, history
    <2>2. now' \in Nat /\ now' # Never /\ now <= now'
        BY <1>1, <2>1, TimeFacts
    <2>3. ASSUME NEW c \in Code, Covered(c)
          PROVE  Covered(c)'
        <3>1. CASE CodeTtl = 0
            BY <1>1, <2>1, <2>2, <2>3, <3>1 DEF Covered
        <3>2. CASE CodeTtl > 0
            <4>1. CASE now >= c.created + CodeTtl
                BY <1>1, <2>1, <3>2, <4>1 DEF Covered
            <4>2. CASE code # NoCode /\ codeEnd >= c.created + CodeTtl
                BY <1>1, <2>1, <3>2, <4>2 DEF Covered
            <4> QED BY <2>3, <3>2, <4>1, <4>2 DEF Covered
        <3> QED BY <1>1, <3>1, <3>2
    <2>4. \A c \in Code : c.created <= now => c.created <= now'
        BY <1>1, <2>2
    <2>5. force \subseteq Code
        BY DEF TypeInv
    <2> QED BY <1>1, <2>1, <2>3, <2>4, <2>5 DEF StandInv
<1>3. ASSUME NEW s \in Sender, Send(s) \/ SendValue(s)
      PROVE  StandInv'
    <2>1. PICK c \in Code : Starts(s, c) /\ Filled(c) \in Code /\ Filled(c).created <= now
        BY <1>3, SendStarts DEF StandInv
    <2> DEFINE f == Filled(c)
    <2>2. /\ UNCHANGED <<now, code, codeEnd>>
          /\ force' = force \cup {f} /\ stands' = stands \ {f} /\ hit' = hit \ {s}
          /\ \A t \in Sender : /\ pc'[t] = IF t = s THEN "set" ELSE pc[t]
                               /\ cv'[t] = IF t = s THEN f ELSE cv[t]
        BY <2>1 DEF Starts, TypeInv, store
    <2>3. f.created <= now
        BY <2>1
    <2> HIDE DEF f
    <2>4. \A x \in Code : Covered(x)' <=> Covered(x)
        BY <2>2 DEF Covered
    <2>5. \A t \in Sender : pc'[t] \in PastSet /\ t \notin hit' =>
              pc[t] \in PastSet /\ t \notin hit /\ cv'[t] = cv[t]
        BY <2>2 DEF PastSet
    <2>6. ASSUME NEW t \in Sender, pc'[t] \in PastSet, t \notin hit'
          PROVE  Covered(cv[t])'
        BY <2>2, <2>5, <2>6 DEF StandInv, Covered
    <2>7. \A x \in stands' : Covered(x)'
        BY <1>1, <2>2, <2>4 DEF StandInv
    <2>8. \A x \in force' : x.created <= now'
        BY <2>2, <2>3 DEF StandInv
    <2>9. \A t \in Sender : cv'[t].created <= now'
        BY <2>2, <2>3 DEF StandInv
    <2>10. stands' \subseteq force'
        BY <2>2 DEF StandInv
    <2> QED BY <2>6, <2>7, <2>8, <2>9, <2>10 DEF StandInv
<1>4. ASSUME NEW s \in Sender, SetCode(s)
      PROVE  StandInv'
    <2>1. /\ UNCHANGED <<now, cv, force, stands, hit>> /\ code' = cv[s]
          /\ codeEnd' = (IF CodeTtl = 0 THEN Never ELSE now + CodeTtl)
        BY <1>4 DEF SetCode, Command, history
    <2>2. code' # NoCode
        BY <1>1, <2>1, NoCodeIsNone
    <2>3. ASSUME NEW c \in Code, c.created <= now
          PROVE  Covered(c)'
        <3>1. c.created \in Nat
            BY <1>1
        <3>2. CASE CodeTtl = 0
            BY <2>1, <2>2, <3>2 DEF Covered
        <3>3. CASE CodeTtl > 0
            <4>1. codeEnd' = now + CodeTtl /\ codeEnd' >= c.created + CodeTtl
                BY <1>1, <2>1, <2>3, <3>1, <3>3
            <4> QED BY <2>2, <3>3, <4>1 DEF Covered
        <3> QED BY <1>1, <3>2, <3>3
    <2> QED BY <1>1, <2>1, <2>3 DEF StandInv
<1>5. ASSUME NEW s \in Sender, IncrHour(s) \/ IncrDay(s) \/ ExpireHour(s) \/ ExpireDay(s)
      PROVE  StandInv'
    <2>1. /\ UNCHANGED <<now, cv, force, stands, hit, code, codeEnd>>
          /\ pc[s] \in PastSet
          /\ \E to \in PastSet : pc' = [pc EXCEPT ![s] = to]
        BY <1>5 DEF IncrHour, IncrDay, ExpireHour, ExpireDay, Command, history, PastSet
    <2>2. \A t \in Sender : pc'[t] \in PastSet => pc[t] \in PastSet
        BY <2>1 DEF PastSet, TypeInv
    <2> QED BY <2>1, <2>2 DEF StandInv, Covered
<1>6. ASSUME NEW s \in Sender, SendReturns(s)
      PROVE  StandInv'
    <2>1. /\ UNCHANGED <<now, cv, hit, code, codeEnd>>
          /\ pc[s] = "return" /\ force' = force \ old[s]
          /\ stands' = (stands \cap force') \cup IF s \in hit THEN {} ELSE {cv[s]}
          /\ \A t \in Sender : pc'[t] = IF t = s THEN "idle" ELSE pc[t]
        BY <1>6 DEF SendReturns, TypeInv, store
    <2>2. \A t \in Sender : pc'[t] \in PastSet => pc[t] \in PastSet
        BY <2>1 DEF PastSet
    <2>3. cv[s] \in force' /\ (s \notin hit => Covered(cv[s]))
        BY <2>1 DEF CodeInv, StandInv, InProgress, PastSet
    <2>4. \A x \in stands' : x \in force' /\ Covered(x)
        BY <2>1, <2>3 DEF StandInv
    <2> QED BY <2>1, <2>2, <2>4 DEF StandInv, Covered
<1>7. ASSUME NEW s \in Sender, Break(s)
      PROVE  StandInv'
    <2>1. /\ UNCHANGED <<now, cv, force, stands, hit, code, codeEnd>>
          /\ \A t \in Sender : t # s => pc'[t] = pc[t]
          /\ pc'[s] \in {"set", "idle"}
        BY <1>7 DEF Break, TypeInv, store
    <2>2. \A t \in Sender : pc'[t] \in PastSet => pc[t] \in PastSet
        BY <2>1 DEF PastSet
    <2> QED BY <2>1, <2>2 DEF StandInv, Covered
<1>8. CASE Delete
    <2>1. /\ UNCHANGED <<now, pc, cv>> /\ force' = Unsettled /\ stands' = {}
          /\ hit' = {s \in Sender : InProgress(s)}
        BY <1>8 DEF Delete, senders
    <2>2. Unsettled \subseteq force
        BY DEF Unsettled, CodeInv
    <2>3. \A t \in Sender : pc[t] \in PastSet => t \in hit'
        BY <2>1 DEF PastSet, InProgress
    <2> QED BY <2>1, <2>2, <2>3 DEF StandInv
<1>9. ASSUME UNCHANGED <<now, pc, cv, force, stands, hit, code, codeEnd>>
      PROVE  StandInv'
    BY <1>9 DEF StandInv, Covered
<1>10. ASSUME NEW v \in Verifier, Verify(v) \/ Get(v) \/ Refuses(v) \/ \E s \in Sender : Accepts(v, s)
      PROVE  StandInv'
    BY <1>9, <1>10 DEF Verify, Get, Refuses, Accepts, Goes, store, senders, history
<1>11. CASE UNCHANGED vars
    BY <1>9, <1>11 DEF vars, store, senders, history
<1> QED BY <1>2, <1>3, <1>4, <1>5, <1>6, <1>7, <1>8, <1>10, <1>11 DEF Next

\* The lifetimes of the counters.  Each SET and each INCR is followed by its
\* EXPIRE, unless the Send gives up.
LEMMA LifeStep ==
    ASSUME TypeInv, StandInv, LifeInv, [Next]_vars
    PROVE  LifeInv'
<1>1. /\ now \in Nat /\ now \in Hour /\ now \in 0..MaxNow
      /\ DayLen \in Nat \ {0} /\ Never \in Nat
    BY TimeFacts, NowIsAnHour, MsgCodeAssumption DEF Hour
<1>2. \A s \in Sender : at[s] \in Hour /\ at[s] \in Nat /\ DayOf(at[s]) \in Day
                        /\ at[s] \in HoursOf(DayOf(at[s]))
    BY NowIsAnHour, TimeFacts DEF HoursOf
<1>3. CASE Tick
    <2>1. /\ now' = now + 1
          /\ \A h \in Hour : /\ hour'[h] = IF hourEnd[h] = now' THEN 0 ELSE hour[h]
                             /\ hourEnd'[h] = IF hourEnd[h] = now' THEN Never ELSE hourEnd[h]
          /\ \A d \in Day : /\ day'[d] = IF dayEnd[d] = now' THEN 0 ELSE day[d]
                            /\ dayEnd'[d] = IF dayEnd[d] = now' THEN Never ELSE dayEnd[d]
          /\ UNCHANGED <<pc, at, gaveUp>>
        BY <1>3 DEF Tick, senders, history
    <2>2. \A s \in Sender : at[s] <= now'
        <3>1. \A s \in Sender : at[s] \in Nat /\ at[s] <= now
            BY <1>2 DEF LifeInv
        <3>2. \A n \in Nat : n <= now => n <= now + 1
            BY <1>1
        <3> QED BY <2>1, <3>1, <3>2
    <2>3. \A h \in Hour : Never >= h + 2
        BY TimeFacts DEF Hour
    <2>4. \A d \in Day : Never \div DayLen >= d + 2
        BY NeverIsFar
    <2>5. /\ \A h \in Hour : hourEnd'[h] >= h + 2
          /\ \A d \in Day : dayEnd'[d] \div DayLen >= d + 2
        BY <2>1, <2>3, <2>4 DEF LifeInv
    <2>6. ~(0 > 0)
        OBVIOUS
    <2>7. \A h \in Hour : hour'[h] > 0 /\ hourEnd'[h] = Never => hour[h] > 0 /\ hourEnd[h] = Never
        BY <2>1, <2>6
    <2>8. \A d \in Day : day'[d] > 0 /\ dayEnd'[d] = Never => day[d] > 0 /\ dayEnd[d] = Never
        BY <2>1, <2>6
    <2> QED BY <2>1, <2>2, <2>5, <2>7, <2>8 DEF LifeInv
<1>4. ASSUME NEW s \in Sender, Send(s) \/ SendValue(s)
      PROVE  LifeInv'
    <2>1. PICK c \in Code : Starts(s, c)
        BY <1>4, SendStarts DEF StandInv
    <2>2. /\ UNCHANGED <<now, hour, hourEnd, day, dayEnd, gaveUp>>
          /\ pc[s] = "idle"
          /\ \A t \in Sender : /\ t # s => pc'[t] = pc[t] /\ at'[t] = at[t]
                               /\ t = s => at'[t] = now
        BY <2>1 DEF Starts, TypeInv, store
    <2>3. \A t \in Sender : at'[t] <= now
        <3>1. now <= now
            BY <1>1
        <3>2. \A t \in Sender : at[t] <= now
            BY DEF LifeInv
        <3> QED BY <2>2, <3>1, <3>2
    <2>4. \A t \in Sender : pc[t] # "idle" => pc'[t] = pc[t] /\ at'[t] = at[t]
        BY <2>2
    <2>5. ASSUME NEW h \in Hour, hour[h] > 0, hourEnd[h] = Never
          PROVE  \/ h \in gaveUp
                 \/ \E t \in Sender : at'[t] = h /\ pc'[t] \in Places \ {"idle", "expire day", "return"}
        <3>1. CASE \E t \in Sender : at[t] = h /\ pc[t] \in Places \ {"idle", "expire day", "return"}
            BY <2>4, <3>1
        <3> QED BY <2>5, <3>1 DEF LifeInv
    <2>6. ASSUME NEW d \in Day, day[d] > 0, dayEnd[d] = Never
          PROVE  \/ \E h \in gaveUp : h \in HoursOf(d)
                 \/ \E t \in Sender : at'[t] \in HoursOf(d) /\ pc'[t] \in Places \ {"idle", "return"}
        <3>1. CASE \E t \in Sender : at[t] \in HoursOf(d) /\ pc[t] \in Places \ {"idle", "return"}
            BY <2>4, <3>1
        <3> QED BY <2>6, <3>1 DEF LifeInv
    <2> QED BY <2>2, <2>3, <2>5, <2>6 DEF LifeInv
<1>5. ASSUME NEW s \in Sender,
             SetCode(s) \/ IncrHour(s) \/ IncrDay(s) \/ ExpireHour(s) \/ ExpireDay(s)
      PROVE  LifeInv'
    <2> DEFINE d0 == DayOf(at[s])
    <2>1. /\ UNCHANGED <<now, at, gaveUp>>
          /\ \/ /\ pc[s] = "set" /\ pc' = [pc EXCEPT ![s] = "incr hour"]
                /\ UNCHANGED <<hour, hourEnd, day, dayEnd>>
             \/ /\ pc[s] = "incr hour" /\ pc' = [pc EXCEPT ![s] = "incr day"]
                /\ \A h \in Hour : h # at[s] => hour'[h] = hour[h]
                /\ UNCHANGED <<hourEnd, day, dayEnd>>
             \/ /\ pc[s] = "incr day" /\ pc' = [pc EXCEPT ![s] = "expire hour"]
                /\ \A d \in Day : d # d0 => day'[d] = day[d]
                /\ UNCHANGED <<hour, hourEnd, dayEnd>>
             \/ /\ pc[s] = "expire hour" /\ pc' = [pc EXCEPT ![s] = "expire day"]
                /\ hourEnd' = IF hour[at[s]] = 0 THEN hourEnd
                              ELSE [hourEnd EXCEPT ![at[s]] = now + 2]
                /\ UNCHANGED <<hour, day, dayEnd>>
             \/ /\ pc[s] = "expire day" /\ pc' = [pc EXCEPT ![s] = "return"]
                /\ dayEnd' = IF day[d0] = 0 THEN dayEnd
                             ELSE [dayEnd EXCEPT ![d0] = now + 2 * DayLen]
                /\ UNCHANGED <<hour, hourEnd, day>>
        BY <1>5 DEF SetCode, IncrHour, IncrDay, ExpireHour, ExpireDay, Command, history, TypeInv
    <2>2. at[s] \in Hour /\ d0 \in Day /\ at[s] <= now
        BY <1>2 DEF LifeInv
    <2>3. \A h \in Hour : hourEnd'[h] >= h + 2
        <3>1. now + 2 >= at[s] + 2
            BY <1>1, <1>2, <2>2
        <3>2. \A h \in Hour : hourEnd'[h] = hourEnd[h] \/ (h = at[s] /\ hourEnd'[h] = now + 2)
            BY <2>1 DEF TypeInv
        <3> QED BY <3>1, <3>2 DEF LifeInv
    <2>4. \A d \in Day : dayEnd'[d] \div DayLen >= d + 2
        <3>1. (now + 2 * DayLen) \div DayLen >= d0 + 2
            <4>1. now + 2 * DayLen \in Nat /\ now + 2 * DayLen >= at[s] + 2 * DayLen
                BY <1>1, <1>2, <2>2
            <4> QED BY <1>1, <1>2, <4>1, TwoDays DEF DayOf
        <3>2. \A d \in Day : dayEnd'[d] = dayEnd[d] \/ (d = d0 /\ dayEnd'[d] = now + 2 * DayLen)
            BY <2>1 DEF TypeInv
        <3> QED BY <3>1, <3>2 DEF LifeInv
    <2>5. now + 2 # Never /\ now + 2 * DayLen # Never
        BY <1>1, TimeFacts
    <2>6. ASSUME NEW h \in Hour, hour'[h] > 0, hourEnd'[h] = Never
          PROVE  \/ h \in gaveUp
                 \/ \E t \in Sender : at[t] = h /\ pc'[t] \in Places \ {"idle", "expire day", "return"}
        <3>1. CASE h = at[s] /\ pc[s] \in {"set", "incr hour", "incr day"}
            <4>1. pc'[s] \in Places \ {"idle", "expire day", "return"}
                BY <2>1, <3>1 DEF Places, TypeInv
            <4> QED BY <3>1, <4>1
        <3>2. CASE h = at[s] /\ pc[s] = "expire hour"
            <4>1. hour' = hour
                BY <2>1, <3>2
            <4>2. hour[h] # 0
                BY <2>6, <4>1
            <4>3. hourEnd'[h] = now + 2
                BY <2>1, <3>2, <4>2 DEF TypeInv
            <4> QED BY <2>5, <2>6, <4>3
        <3>3. CASE h = at[s] /\ pc[s] = "expire day"
            <4>1. hour[h] > 0 /\ hourEnd[h] = Never
                BY <2>1, <2>6, <3>3
            <4>2. \A t \in Sender : pc[t] \in Places \ {"idle", "expire day", "return"} => pc'[t] = pc[t]
                BY <2>1, <3>3 DEF TypeInv
            <4> QED BY <4>1, <4>2 DEF LifeInv
        <3>4. CASE h # at[s]
            <4>1. hour[h] > 0 /\ hourEnd[h] = Never
                BY <2>1, <2>6, <3>4 DEF TypeInv
            <4>2. \A t \in Sender : at[t] = h => pc'[t] = pc[t]
                BY <2>1, <3>4 DEF TypeInv
            <4> QED BY <4>1, <4>2 DEF LifeInv
        <3> QED BY <2>1, <3>1, <3>2, <3>3, <3>4
    <2>7. ASSUME NEW d \in Day, day'[d] > 0, dayEnd'[d] = Never
          PROVE  \/ \E h \in gaveUp : h \in HoursOf(d)
                 \/ \E t \in Sender : at[t] \in HoursOf(d) /\ pc'[t] \in Places \ {"idle", "return"}
        <3>1. CASE d = d0 /\ pc[s] # "expire day"
            <4>1. pc'[s] \in Places \ {"idle", "return"}
                BY <2>1, <3>1 DEF Places, TypeInv
            <4> QED BY <1>2, <3>1, <4>1
        <3>2. CASE d = d0 /\ pc[s] = "expire day"
            <4>1. day' = day
                BY <2>1, <3>2
            <4>2. day[d] # 0
                BY <2>7, <4>1
            <4>3. dayEnd'[d] = now + 2 * DayLen
                BY <2>1, <3>2, <4>2 DEF TypeInv
            <4> QED BY <2>5, <2>7, <4>3
        <3>3. CASE d # d0
            <4>1. day[d] > 0 /\ dayEnd[d] = Never
                BY <2>1, <2>7, <3>3 DEF TypeInv
            <4>2. \A t \in Sender : at[t] \in HoursOf(d) => pc'[t] = pc[t]
                BY <2>1, <3>3 DEF TypeInv, HoursOf
            <4> QED BY <4>1, <4>2 DEF LifeInv
        <3> QED BY <3>1, <3>2, <3>3
    <2>8. \A t \in Sender : at[t] <= now
        BY DEF LifeInv
    <2> QED BY <2>1, <2>3, <2>4, <2>6, <2>7, <2>8 DEF LifeInv
<1>6. ASSUME NEW s \in Sender, SendReturns(s) \/ Break(s)
      PROVE  LifeInv'
    <2>1. /\ UNCHANGED <<now, at, hour, hourEnd, day, dayEnd>>
          /\ \A t \in Sender : t # s => pc'[t] = pc[t]
          /\ \/ pc[s] = "return" /\ gaveUp' = gaveUp
             \/ pc'[s] = "set" /\ gaveUp' = gaveUp
             \/ gaveUp' = gaveUp \cup {at[s]}
        BY <1>6 DEF SendReturns, Break, store, TypeInv
    <2>2. ASSUME NEW h \in Hour, hour[h] > 0, hourEnd[h] = Never
          PROVE  \/ h \in gaveUp'
                 \/ \E t \in Sender : at[t] = h /\ pc'[t] \in Places \ {"idle", "expire day", "return"}
        <3>1. CASE h \in gaveUp
            BY <2>1, <3>1
        <3>2. ASSUME NEW t \in Sender, at[t] = h, pc[t] \in Places \ {"idle", "expire day", "return"}
              PROVE  \/ h \in gaveUp'
                     \/ /\ at[t] = h
                        /\ pc'[t] \in Places \ {"idle", "expire day", "return"}
            BY <2>1, <3>2 DEF Places
        <3> QED BY <2>2, <3>1, <3>2 DEF LifeInv
    <2>3. ASSUME NEW d \in Day, day[d] > 0, dayEnd[d] = Never
          PROVE  \/ \E h \in gaveUp' : h \in HoursOf(d)
                 \/ \E t \in Sender : at[t] \in HoursOf(d) /\ pc'[t] \in Places \ {"idle", "return"}
        <3>1. CASE \E h \in gaveUp : h \in HoursOf(d)
            BY <2>1, <3>1
        <3>2. ASSUME NEW t \in Sender, at[t] \in HoursOf(d), pc[t] \in Places \ {"idle", "return"}
              PROVE  \/ at[t] \in gaveUp' /\ at[t] \in HoursOf(d)
                     \/ /\ at[t] \in HoursOf(d)
                        /\ pc'[t] \in Places \ {"idle", "return"}
            BY <2>1, <3>2 DEF Places
        <3> QED BY <2>3, <3>1, <3>2 DEF LifeInv
    <2> QED BY <2>1, <2>2, <2>3 DEF LifeInv
<1>7. ASSUME UNCHANGED <<now, pc, at, hour, hourEnd, day, dayEnd, gaveUp>>
      PROVE  LifeInv'
    BY <1>7 DEF LifeInv
<1>8. CASE Delete
    BY <1>7, <1>8 DEF Delete, senders
<1>9. ASSUME NEW v \in Verifier, Verify(v) \/ Get(v) \/ Refuses(v) \/ \E s \in Sender : Accepts(v, s)
      PROVE  LifeInv'
    BY <1>7, <1>9 DEF Verify, Get, Refuses, Accepts, Goes, store, senders, history
<1>10. CASE UNCHANGED vars
    BY <1>7, <1>10 DEF vars, store, senders, history
<1> QED BY <1>3, <1>4, <1>5, <1>6, <1>8, <1>9, <1>10 DEF Next

-----------------------------------------------------------------------------
\* Sets of senders, when at most one sender comes or goes.
LEMMA Counting ==
    ASSUME NEW P \in SUBSET Sender, NEW Q \in SUBSET Sender
    PROVE  /\ Cardinality(P) \in Nat
           /\ Q \subseteq P => Cardinality(Q) <= Cardinality(P)
           /\ \A x \in Sender :
                 /\ Q \subseteq P \cup {x} => Cardinality(Q) <= Cardinality(P) + 1
                 /\ x \in P /\ Q \subseteq P \ {x} => Cardinality(Q) + 1 <= Cardinality(P)
<1>1. IsFiniteSet(P) /\ IsFiniteSet(Q)
    BY FS_Subset, MsgCodeAssumption
<1>2. Cardinality(P) \in Nat /\ Cardinality(Q) \in Nat
    BY <1>1, FS_CardinalityType
<1>3. Q \subseteq P => Cardinality(Q) <= Cardinality(P)
    BY <1>1, FS_Subset
<1>4. ASSUME NEW x \in Sender, Q \subseteq P \cup {x}
      PROVE  Cardinality(Q) <= Cardinality(P) + 1
    <2>1. IsFiniteSet(P \cup {x}) /\ Cardinality(P \cup {x}) \in {Cardinality(P), Cardinality(P) + 1}
        BY <1>1, FS_AddElement
    <2>2. Cardinality(Q) <= Cardinality(P \cup {x})
        BY <1>4, <2>1, FS_Subset
    <2> QED BY <1>2, <2>1, <2>2
<1>5. ASSUME NEW x \in Sender, x \in P, Q \subseteq P \ {x}
      PROVE  Cardinality(Q) + 1 <= Cardinality(P)
    <2>1. IsFiniteSet(P \ {x}) /\ Cardinality(P \ {x}) = Cardinality(P) - 1
        BY <1>1, <1>5, FS_RemoveElement
    <2>2. Cardinality(Q) <= Cardinality(P \ {x})
        BY <1>5, <2>1, FS_Subset
    <2> QED BY <1>2, <2>1, <2>2
<1> QED BY <1>2, <1>3, <1>4, <1>5

\* What a step of s does to the count of an hour: nothing, a pipeline more, an
\* INCR, or the answer.
LEMMA HourMoves ==
    ASSUME TypeInv, CountInv, now' = now, NEW h \in Hour, NEW s \in Sender,
           \/ /\ hour'[h] = hour[h] /\ nils'[h] = nils[h] /\ tries'[h] = tries[h]
              /\ HourDone(h)' \subseteq HourDone(h) /\ HourDue(h)' \subseteq HourDue(h)
           \/ /\ hour'[h] = hour[h] /\ nils'[h] = nils[h] /\ tries'[h] = tries[h] + 1
              /\ HourDone(h)' \subseteq HourDone(h) /\ HourDue(h)' \subseteq HourDue(h) \cup {s}
           \/ /\ hour'[h] = hour[h] + 1 /\ nils'[h] = nils[h] /\ tries'[h] = tries[h]
              /\ HourDone(h)' \subseteq HourDone(h) \cup {s}
              /\ s \in HourDue(h) /\ HourDue(h)' \subseteq HourDue(h) \ {s}
           \/ /\ hour'[h] = hour[h] /\ nils'[h] = nils[h] + 1 /\ tries'[h] = tries[h]
              /\ s \in HourDone(h) /\ HourDone(h)' \subseteq HourDone(h) \ {s}
              /\ HourDue(h)' \subseteq HourDue(h)
    PROVE  /\ now' <= h + 1 => nils'[h] + Cardinality(HourDone(h)') <= hour'[h]
           /\ hour'[h] + Cardinality(HourDue(h)') <= tries'[h]
<1> DEFINE done == HourDone(h)
           due == HourDue(h)
<1>1. /\ done \in SUBSET Sender /\ due \in SUBSET Sender
      /\ done' \in SUBSET Sender /\ due' \in SUBSET Sender
    BY DEF HourDone, HourDue
<1>2. /\ hour[h] \in Nat /\ nils[h] \in Nat /\ tries[h] \in Nat
      /\ now <= h + 1 => nils[h] + Cardinality(done) <= hour[h]
      /\ hour[h] + Cardinality(due) <= tries[h]
    BY DEF TypeInv, CountInv
<1> HIDE DEF done, due
<1>3. /\ Cardinality(done) \in Nat /\ Cardinality(done') \in Nat
      /\ done' \subseteq done => Cardinality(done') <= Cardinality(done)
      /\ done' \subseteq done \cup {s} => Cardinality(done') <= Cardinality(done) + 1
      /\ s \in done /\ done' \subseteq done \ {s} => Cardinality(done') + 1 <= Cardinality(done)
    BY <1>1, Counting
<1>4. /\ Cardinality(due) \in Nat /\ Cardinality(due') \in Nat
      /\ due' \subseteq due => Cardinality(due') <= Cardinality(due)
      /\ due' \subseteq due \cup {s} => Cardinality(due') <= Cardinality(due) + 1
      /\ s \in due /\ due' \subseteq due \ {s} => Cardinality(due') + 1 <= Cardinality(due)
    BY <1>1, Counting
<1>5. \/ /\ hour'[h] = hour[h] /\ nils'[h] = nils[h] /\ tries'[h] = tries[h]
         /\ Cardinality(done') <= Cardinality(done) /\ Cardinality(due') <= Cardinality(due)
      \/ /\ hour'[h] = hour[h] /\ nils'[h] = nils[h] /\ tries'[h] = tries[h] + 1
         /\ Cardinality(done') <= Cardinality(done) /\ Cardinality(due') <= Cardinality(due) + 1
      \/ /\ hour'[h] = hour[h] + 1 /\ nils'[h] = nils[h] /\ tries'[h] = tries[h]
         /\ Cardinality(done') <= Cardinality(done) + 1 /\ Cardinality(due') + 1 <= Cardinality(due)
      \/ /\ hour'[h] = hour[h] /\ nils'[h] = nils[h] + 1 /\ tries'[h] = tries[h]
         /\ Cardinality(done') + 1 <= Cardinality(done) /\ Cardinality(due') <= Cardinality(due)
    BY <1>3, <1>4 DEF done, due
<1>6. /\ now' <= h + 1 => nils'[h] + Cardinality(done') <= hour'[h]
      /\ hour'[h] + Cardinality(due') <= tries'[h]
    BY <1>2, <1>3, <1>4, <1>5
<1> QED BY <1>6 DEF done, due

\* The same for the count of a day.
LEMMA DayMoves ==
    ASSUME TypeInv, CountInv, now' = now, NEW d \in Day, NEW s \in Sender,
           \/ /\ day'[d] = day[d] /\ nilsDay'[d] = nilsDay[d] /\ triesDay'[d] = triesDay[d]
              /\ DayDone(d)' \subseteq DayDone(d) /\ DayDue(d)' \subseteq DayDue(d)
           \/ /\ day'[d] = day[d] /\ nilsDay'[d] = nilsDay[d] /\ triesDay'[d] = triesDay[d] + 1
              /\ DayDone(d)' \subseteq DayDone(d) /\ DayDue(d)' \subseteq DayDue(d) \cup {s}
           \/ /\ day'[d] = day[d] + 1 /\ nilsDay'[d] = nilsDay[d] /\ triesDay'[d] = triesDay[d]
              /\ DayDone(d)' \subseteq DayDone(d) \cup {s}
              /\ s \in DayDue(d) /\ DayDue(d)' \subseteq DayDue(d) \ {s}
           \/ /\ day'[d] = day[d] /\ nilsDay'[d] = nilsDay[d] + 1 /\ triesDay'[d] = triesDay[d]
              /\ s \in DayDone(d) /\ DayDone(d)' \subseteq DayDone(d) \ {s}
              /\ DayDue(d)' \subseteq DayDue(d)
    PROVE  /\ DayOf(now') <= d + 1 => nilsDay'[d] + Cardinality(DayDone(d)') <= day'[d]
           /\ day'[d] + Cardinality(DayDue(d)') <= triesDay'[d]
<1> DEFINE done == DayDone(d)
           due == DayDue(d)
<1>1. /\ done \in SUBSET Sender /\ due \in SUBSET Sender
      /\ done' \in SUBSET Sender /\ due' \in SUBSET Sender
    BY DEF DayDone, DayDue
<1>2. /\ day[d] \in Nat /\ nilsDay[d] \in Nat /\ triesDay[d] \in Nat
      /\ DayOf(now) <= d + 1 => nilsDay[d] + Cardinality(done) <= day[d]
      /\ day[d] + Cardinality(due) <= triesDay[d]
    BY DEF TypeInv, CountInv
<1> HIDE DEF done, due
<1>3. /\ Cardinality(done) \in Nat /\ Cardinality(done') \in Nat
      /\ done' \subseteq done => Cardinality(done') <= Cardinality(done)
      /\ done' \subseteq done \cup {s} => Cardinality(done') <= Cardinality(done) + 1
      /\ s \in done /\ done' \subseteq done \ {s} => Cardinality(done') + 1 <= Cardinality(done)
    BY <1>1, Counting
<1>4. /\ Cardinality(due) \in Nat /\ Cardinality(due') \in Nat
      /\ due' \subseteq due => Cardinality(due') <= Cardinality(due)
      /\ due' \subseteq due \cup {s} => Cardinality(due') <= Cardinality(due) + 1
      /\ s \in due /\ due' \subseteq due \ {s} => Cardinality(due') + 1 <= Cardinality(due)
    BY <1>1, Counting
<1>5. \/ /\ day'[d] = day[d] /\ nilsDay'[d] = nilsDay[d] /\ triesDay'[d] = triesDay[d]
         /\ Cardinality(done') <= Cardinality(done) /\ Cardinality(due') <= Cardinality(due)
      \/ /\ day'[d] = day[d] /\ nilsDay'[d] = nilsDay[d] /\ triesDay'[d] = triesDay[d] + 1
         /\ Cardinality(done') <= Cardinality(done) /\ Cardinality(due') <= Cardinality(due) + 1
      \/ /\ day'[d] = day[d] + 1 /\ nilsDay'[d] = nilsDay[d] /\ triesDay'[d] = triesDay[d]
         /\ Cardinality(done') <= Cardinality(done) + 1 /\ Cardinality(due') + 1 <= Cardinality(due)
      \/ /\ day'[d] = day[d] /\ nilsDay'[d] = nilsDay[d] + 1 /\ triesDay'[d] = triesDay[d]
         /\ Cardinality(done') + 1 <= Cardinality(done) /\ Cardinality(due') <= Cardinality(due)
    BY <1>3, <1>4 DEF done, due
<1>6. /\ DayOf(now') <= d + 1 => nilsDay'[d] + Cardinality(done') <= day'[d]
      /\ day'[d] + Cardinality(due') <= triesDay'[d]
    BY <1>2, <1>3, <1>4, <1>5
<1> QED BY <1>6 DEF done, due

\* The counters miss no Send that has come past its INCR, for as long as
\* anybody asks, and have no more than the pipelines sent.
LEMMA CountStep ==
    ASSUME TypeInv, StandInv, LifeInv, CountInv, [Next]_vars
    PROVE  CountInv'
<1>1. /\ now \in Nat /\ now \in Hour /\ DayOf(now) \in Day
      /\ DayLen \in Nat \ {0}
    BY NowIsAnHour, MsgCodeAssumption
<1>2. \A s \in Sender : at[s] \in Hour /\ DayOf(at[s]) \in Day
    BY NowIsAnHour
<1>3. CASE Tick
    <2>1. /\ now' = now + 1
          /\ \A h \in Hour : hour'[h] = IF hourEnd[h] = now' THEN 0 ELSE hour[h]
          /\ \A d \in Day : day'[d] = IF dayEnd[d] = now' THEN 0 ELSE day[d]
          /\ UNCHANGED <<pc, at, nils, tries, nilsDay, triesDay>>
        BY <1>3 DEF Tick, senders, tallies
    <2>2. ASSUME NEW h \in Hour
          PROVE  /\ now' <= h + 1 => nils[h] + Cardinality(HourDone(h)) <= hour'[h]
                 /\ hour'[h] + Cardinality(HourDue(h)) <= tries[h]
        <3>1. /\ hour[h] \in Nat /\ tries[h] \in Nat /\ nils[h] \in Nat /\ h \in Nat
              /\ hourEnd[h] \in Nat /\ hourEnd[h] >= h + 2
            BY TimeFacts DEF TypeInv, LifeInv
        <3>2. Cardinality(HourDue(h)) \in Nat
            BY Counting DEF HourDue
        <3>3. hour[h] + Cardinality(HourDue(h)) <= tries[h]
            BY DEF CountInv
        <3>4. now' <= h + 1 => now <= h + 1 /\ hourEnd[h] # now'
            BY <1>1, <2>1, <3>1
        <3>5. now <= h + 1 => nils[h] + Cardinality(HourDone(h)) <= hour[h]
            BY DEF CountInv
        <3>6. now' <= h + 1 => nils[h] + Cardinality(HourDone(h)) <= hour'[h]
            BY <2>1, <3>4, <3>5
        <3>7. hour'[h] + Cardinality(HourDue(h)) <= tries[h]
            <4>1. hour'[h] = hour[h] \/ hour'[h] = 0
                BY <2>1
            <4> QED BY <3>1, <3>2, <3>3, <4>1
        <3> QED BY <3>6, <3>7
    <2>3. ASSUME NEW d \in Day
          PROVE  /\ DayOf(now') <= d + 1 => nilsDay[d] + Cardinality(DayDone(d)) <= day'[d]
                 /\ day'[d] + Cardinality(DayDue(d)) <= triesDay[d]
        <3>1. /\ day[d] \in Nat /\ triesDay[d] \in Nat /\ nilsDay[d] \in Nat /\ d \in Nat
              /\ dayEnd[d] \in Nat /\ dayEnd[d] \div DayLen >= d + 2
            BY TimeFacts DEF TypeInv, LifeInv
        <3>2. Cardinality(DayDue(d)) \in Nat
            BY Counting DEF DayDue
        <3>3. day[d] + Cardinality(DayDue(d)) <= triesDay[d]
            BY DEF CountInv
        <3>4. DayOf(now') <= d + 1 => DayOf(now) <= d + 1 /\ dayEnd[d] # now'
            <4>1. DayOf(now) <= DayOf(now') /\ DayOf(now) \in Nat /\ DayOf(now') \in Nat
                <5>1. now' \in Nat /\ now <= now'
                    BY <1>1, <2>1
                <5> QED BY <1>1, <5>1, DaysGoOn DEF DayOf
            <4>2. dayEnd[d] = now' => DayOf(now') >= d + 2
                BY <3>1 DEF DayOf
            <4> QED BY <3>1, <4>1, <4>2
        <3>5. DayOf(now) <= d + 1 => nilsDay[d] + Cardinality(DayDone(d)) <= day[d]
            BY DEF CountInv
        <3>6. DayOf(now') <= d + 1 => nilsDay[d] + Cardinality(DayDone(d)) <= day'[d]
            BY <2>1, <3>4, <3>5
        <3>7. day'[d] + Cardinality(DayDue(d)) <= triesDay[d]
            <4>1. day'[d] = day[d] \/ day'[d] = 0
                BY <2>1
            <4> QED BY <3>1, <3>2, <3>3, <4>1
        <3> QED BY <3>6, <3>7
    <2>4. /\ \A h \in Hour : HourDone(h)' = HourDone(h) /\ HourDue(h)' = HourDue(h)
          /\ \A d \in Day : DayDone(d)' = DayDone(d) /\ DayDue(d)' = DayDue(d)
        BY <2>1 DEF HourDone, HourDue, DayDone, DayDue
    <2> QED BY <2>1, <2>2, <2>3, <2>4 DEF CountInv
<1>4. ASSUME NEW s \in Sender, Send(s) \/ SendValue(s)
      PROVE  CountInv'
    <2>1. PICK c \in Code : Starts(s, c)
        BY <1>4, SendStarts DEF StandInv
    <2>2. /\ UNCHANGED <<now, hour, day, nils, nilsDay>>
          /\ pc[s] = "idle" /\ pc'[s] = "set" /\ at'[s] = now
          /\ \A t \in Sender : t # s => pc'[t] = pc[t] /\ at'[t] = at[t]
          /\ \A h \in Hour : tries'[h] = IF h = now THEN tries[h] + 1 ELSE tries[h]
          /\ \A d \in Day : triesDay'[d] = IF d = DayOf(now) THEN triesDay[d] + 1 ELSE triesDay[d]
        BY <2>1 DEF Starts, Tried, TypeInv, store
    <2>3. ASSUME NEW h \in Hour
          PROVE  /\ now' <= h + 1 => nils'[h] + Cardinality(HourDone(h)') <= hour'[h]
                 /\ hour'[h] + Cardinality(HourDue(h)') <= tries'[h]
        <3>1. HourDone(h)' \subseteq HourDone(h)
            BY <2>2 DEF HourDone, PastHour
        <3>2. IF h = now THEN HourDue(h)' \subseteq HourDue(h) \cup {s}
                         ELSE HourDue(h)' \subseteq HourDue(h)
            BY <2>2 DEF HourDue
        <3> QED BY <2>2, <3>1, <3>2, HourMoves
    <2>4. ASSUME NEW d \in Day
          PROVE  /\ DayOf(now') <= d + 1 => nilsDay'[d] + Cardinality(DayDone(d)') <= day'[d]
                 /\ day'[d] + Cardinality(DayDue(d)') <= triesDay'[d]
        <3>1. DayDone(d)' \subseteq DayDone(d)
            BY <2>2 DEF DayDone, PastDay
        <3>2. IF d = DayOf(now) THEN DayDue(d)' \subseteq DayDue(d) \cup {s}
                                ELSE DayDue(d)' \subseteq DayDue(d)
            BY <2>2 DEF DayDue
        <3> QED BY <2>2, <3>1, <3>2, DayMoves
    <2> QED BY <2>3, <2>4 DEF CountInv
\* A step that counts nothing.
<1>5. ASSUME NEW s \in Sender, UNCHANGED <<now, hour, day, nils, nilsDay, tries, triesDay>>,
             \A h \in Hour : HourDone(h)' \subseteq HourDone(h) /\ HourDue(h)' \subseteq HourDue(h),
             \A d \in Day : DayDone(d)' \subseteq DayDone(d) /\ DayDue(d)' \subseteq DayDue(d)
      PROVE  CountInv'
    <2>1. ASSUME NEW h \in Hour
          PROVE  /\ now' <= h + 1 => nils'[h] + Cardinality(HourDone(h)') <= hour'[h]
                 /\ hour'[h] + Cardinality(HourDue(h)') <= tries'[h]
        BY <1>5, HourMoves
    <2>2. ASSUME NEW d \in Day
          PROVE  /\ DayOf(now') <= d + 1 => nilsDay'[d] + Cardinality(DayDone(d)') <= day'[d]
                 /\ day'[d] + Cardinality(DayDue(d)') <= triesDay'[d]
        BY <1>5, DayMoves
    <2> QED BY <2>1, <2>2 DEF CountInv
<1>6. ASSUME NEW s \in Sender, SetCode(s) \/ ExpireHour(s) \/ ExpireDay(s)
      PROVE  CountInv'
    <2>1. /\ UNCHANGED <<now, at, hour, day, nils, nilsDay, tries, triesDay>>
          /\ \A t \in Sender : t # s => pc'[t] = pc[t]
          /\ \/ pc[s] = "set" /\ pc'[s] = "incr hour"
             \/ pc[s] = "expire hour" /\ pc'[s] = "expire day"
             \/ pc[s] = "expire day" /\ pc'[s] = "return"
        BY <1>6 DEF SetCode, ExpireHour, ExpireDay, Command, TypeInv, tallies
    <2>2. \A h \in Hour : HourDone(h)' \subseteq HourDone(h) /\ HourDue(h)' \subseteq HourDue(h)
        BY <2>1 DEF HourDone, HourDue, PastHour
    <2>3. \A d \in Day : DayDone(d)' \subseteq DayDone(d) /\ DayDue(d)' \subseteq DayDue(d)
        BY <2>1 DEF DayDone, DayDue, PastDay
    <2> QED BY <1>5, <2>1, <2>2, <2>3
<1>7. ASSUME NEW s \in Sender, IncrHour(s)
      PROVE  CountInv'
    <2>1. /\ UNCHANGED <<now, at, day, nils, nilsDay, tries, triesDay>>
          /\ pc[s] = "incr hour" /\ pc'[s] = "incr day"
          /\ \A t \in Sender : t # s => pc'[t] = pc[t]
          /\ \A h \in Hour : hour'[h] = IF h = at[s] THEN hour[h] + 1 ELSE hour[h]
        BY <1>7 DEF IncrHour, Command, TypeInv, tallies
    <2>2. ASSUME NEW h \in Hour
          PROVE  /\ now' <= h + 1 => nils'[h] + Cardinality(HourDone(h)') <= hour'[h]
                 /\ hour'[h] + Cardinality(HourDue(h)') <= tries'[h]
        <3>1. CASE h = at[s]
            <4>1. /\ HourDone(h)' \subseteq HourDone(h) \cup {s}
                  /\ s \in HourDue(h) /\ HourDue(h)' \subseteq HourDue(h) \ {s}
                BY <2>1, <3>1 DEF HourDone, HourDue, PastHour
            <4> QED BY <2>1, <3>1, <4>1, HourMoves
        <3>2. CASE h # at[s]
            <4>1. HourDone(h)' \subseteq HourDone(h) /\ HourDue(h)' \subseteq HourDue(h)
                BY <2>1, <3>2 DEF HourDone, HourDue, PastHour
            <4> QED BY <2>1, <3>2, <4>1, HourMoves
        <3> QED BY <3>1, <3>2
    <2>3. ASSUME NEW d \in Day
          PROVE  /\ DayOf(now') <= d + 1 => nilsDay'[d] + Cardinality(DayDone(d)') <= day'[d]
                 /\ day'[d] + Cardinality(DayDue(d)') <= triesDay'[d]
        <3>1. DayDone(d)' \subseteq DayDone(d) /\ DayDue(d)' \subseteq DayDue(d)
            BY <2>1 DEF DayDone, DayDue, PastDay
        <3> QED BY <2>1, <3>1, DayMoves
    <2> QED BY <2>2, <2>3 DEF CountInv
<1>8. ASSUME NEW s \in Sender, IncrDay(s)
      PROVE  CountInv'
    <2>1. /\ UNCHANGED <<now, at, hour, nils, nilsDay, tries, triesDay>>
          /\ pc[s] = "incr day" /\ pc'[s] = "expire hour"
          /\ \A t \in Sender : t # s => pc'[t] = pc[t]
          /\ \A d \in Day : day'[d] = IF d = DayOf(at[s]) THEN day[d] + 1 ELSE day[d]
        BY <1>8 DEF IncrDay, Command, TypeInv, tallies
    <2>2. ASSUME NEW h \in Hour
          PROVE  /\ now' <= h + 1 => nils'[h] + Cardinality(HourDone(h)') <= hour'[h]
                 /\ hour'[h] + Cardinality(HourDue(h)') <= tries'[h]
        <3>1. HourDone(h)' \subseteq HourDone(h) /\ HourDue(h)' \subseteq HourDue(h)
            BY <2>1 DEF HourDone, HourDue, PastHour
        <3> QED BY <2>1, <3>1, HourMoves
    <2>3. ASSUME NEW d \in Day
          PROVE  /\ DayOf(now') <= d + 1 => nilsDay'[d] + Cardinality(DayDone(d)') <= day'[d]
                 /\ day'[d] + Cardinality(DayDue(d)') <= triesDay'[d]
        <3>1. CASE d = DayOf(at[s])
            <4>1. /\ DayDone(d)' \subseteq DayDone(d) \cup {s}
                  /\ s \in DayDue(d) /\ DayDue(d)' \subseteq DayDue(d) \ {s}
                BY <2>1, <3>1 DEF DayDone, DayDue, PastDay
            <4> QED BY <2>1, <3>1, <4>1, DayMoves
        <3>2. CASE d # DayOf(at[s])
            <4>1. DayDone(d)' \subseteq DayDone(d) /\ DayDue(d)' \subseteq DayDue(d)
                BY <2>1, <3>2 DEF DayDone, DayDue, PastDay
            <4> QED BY <2>1, <3>2, <4>1, DayMoves
        <3> QED BY <3>1, <3>2
    <2> QED BY <2>2, <2>3 DEF CountInv
<1>9. ASSUME NEW s \in Sender, SendReturns(s)
      PROVE  CountInv'
    <2>1. /\ UNCHANGED <<now, at, hour, day, tries, triesDay>>
          /\ pc[s] = "return" /\ pc'[s] = "idle"
          /\ \A t \in Sender : t # s => pc'[t] = pc[t]
          /\ \A h \in Hour : nils'[h] = IF h = at[s] THEN nils[h] + 1 ELSE nils[h]
          /\ \A d \in Day : nilsDay'[d] = IF d = DayOf(at[s]) THEN nilsDay[d] + 1 ELSE nilsDay[d]
        BY <1>9 DEF SendReturns, TypeInv, store
    <2>2. ASSUME NEW h \in Hour
          PROVE  /\ now' <= h + 1 => nils'[h] + Cardinality(HourDone(h)') <= hour'[h]
                 /\ hour'[h] + Cardinality(HourDue(h)') <= tries'[h]
        <3>1. HourDue(h)' \subseteq HourDue(h)
            BY <2>1 DEF HourDue
        <3>2. CASE h = at[s]
            <4>1. s \in HourDone(h) /\ HourDone(h)' \subseteq HourDone(h) \ {s}
                BY <2>1, <3>2 DEF HourDone, PastHour
            <4> QED BY <2>1, <3>1, <3>2, <4>1, HourMoves
        <3>3. CASE h # at[s]
            <4>1. HourDone(h)' \subseteq HourDone(h)
                BY <2>1, <3>3 DEF HourDone, PastHour
            <4> QED BY <2>1, <3>1, <3>3, <4>1, HourMoves
        <3> QED BY <3>2, <3>3
    <2>3. ASSUME NEW d \in Day
          PROVE  /\ DayOf(now') <= d + 1 => nilsDay'[d] + Cardinality(DayDone(d)') <= day'[d]
                 /\ day'[d] + Cardinality(DayDue(d)') <= triesDay'[d]
        <3>1. DayDue(d)' \subseteq DayDue(d)
            BY <2>1 DEF DayDue
        <3>2. CASE d = DayOf(at[s])
            <4>1. s \in DayDone(d) /\ DayDone(d)' \subseteq DayDone(d) \ {s}
                BY <2>1, <3>2 DEF DayDone, PastDay
            <4> QED BY <2>1, <3>1, <3>2, <4>1, DayMoves
        <3>3. CASE d # DayOf(at[s])
            <4>1. DayDone(d)' \subseteq DayDone(d)
                BY <2>1, <3>3 DEF DayDone, PastDay
            <4> QED BY <2>1, <3>1, <3>3, <4>1, DayMoves
        <3> QED BY <3>2, <3>3
    <2> QED BY <2>2, <2>3 DEF CountInv
<1>10. ASSUME NEW s \in Sender, Break(s)
      PROVE  CountInv'
    <2>1. /\ UNCHANGED <<now, at, hour, day, nils, nilsDay>>
          /\ \A t \in Sender : t # s => pc'[t] = pc[t]
        BY <1>10 DEF Break, TypeInv, store
    <2>2. CASE pc'[s] = "idle" /\ UNCHANGED <<tries, triesDay>>
        <3>1. \A h \in Hour : HourDone(h)' \subseteq HourDone(h) /\ HourDue(h)' \subseteq HourDue(h)
            BY <2>1, <2>2 DEF HourDone, HourDue, PastHour
        <3>2. \A d \in Day : DayDone(d)' \subseteq DayDone(d) /\ DayDue(d)' \subseteq DayDue(d)
            BY <2>1, <2>2 DEF DayDone, DayDue, PastDay
        <3> QED BY <1>5, <2>1, <2>2, <3>1, <3>2
    <2>3. CASE pc'[s] = "set" /\ Tried(at[s])
        <3>1. /\ \A h \in Hour : tries'[h] = IF h = at[s] THEN tries[h] + 1 ELSE tries[h]
              /\ \A d \in Day : triesDay'[d] = IF d = DayOf(at[s]) THEN triesDay[d] + 1
                                                                  ELSE triesDay[d]
            BY <2>3 DEF Tried, TypeInv
        <3>2. ASSUME NEW h \in Hour
              PROVE  /\ now' <= h + 1 => nils'[h] + Cardinality(HourDone(h)') <= hour'[h]
                     /\ hour'[h] + Cardinality(HourDue(h)') <= tries'[h]
            <4>1. HourDone(h)' \subseteq HourDone(h)
                BY <2>1, <2>3 DEF HourDone, PastHour
            <4>2. IF h = at[s] THEN HourDue(h)' \subseteq HourDue(h) \cup {s}
                               ELSE HourDue(h)' \subseteq HourDue(h)
                BY <2>1, <2>3 DEF HourDue
            <4> QED BY <2>1, <3>1, <4>1, <4>2, HourMoves
        <3>3. ASSUME NEW d \in Day
              PROVE  /\ DayOf(now') <= d + 1 => nilsDay'[d] + Cardinality(DayDone(d)') <= day'[d]
                     /\ day'[d] + Cardinality(DayDue(d)') <= triesDay'[d]
            <4>1. DayDone(d)' \subseteq DayDone(d)
                BY <2>1, <2>3 DEF DayDone, PastDay
            <4>2. IF d = DayOf(at[s]) THEN DayDue(d)' \subseteq DayDue(d) \cup {s}
                                      ELSE DayDue(d)' \subseteq DayDue(d)
                BY <2>1, <2>3 DEF DayDue
            <4> QED BY <2>1, <3>1, <4>1, <4>2, DayMoves
        <3> QED BY <3>2, <3>3 DEF CountInv
    <2> QED BY <1>10, <2>2, <2>3 DEF Break, TypeInv
<1>11. ASSUME UNCHANGED <<now, pc, at, hour, day, tallies>>
      PROVE  CountInv'
    BY <1>11 DEF CountInv, HourDone, HourDue, DayDone, DayDue, tallies
<1>12. CASE Delete
    BY <1>11, <1>12 DEF Delete, senders
<1>13. ASSUME NEW v \in Verifier, Verify(v) \/ Get(v) \/ Refuses(v) \/ \E s \in Sender : Accepts(v, s)
      PROVE  CountInv'
    BY <1>11, <1>13 DEF Verify, Get, Refuses, Accepts, Goes, store, senders
<1>14. CASE UNCHANGED vars
    BY <1>11, <1>14 DEF vars, store, senders
<1> QED BY <1>3, <1>4, <1>6, <1>7, <1>8, <1>9, <1>10, <1>12, <1>13, <1>14 DEF Next
-----------------------------------------------------------------------------
LEMMA NextMCInv == MCInv /\ [Next]_vars => MCInv'
    BY TypeStep, CodeStep, VerifyStep, StandStep, LifeStep, CountStep DEF MCInv

THEOREM MCInvAlways == Spec => []MCInv
    BY InitMCInv, NextMCInv, PTL DEF Spec

\* Verify accepts no code that a Send that returned nil had replaced, or a
\* Delete removed, before the Verify began, however the commands of the
\* pipelines interleave and however often they are sent again.
THEOREM VerifyIsSound == Spec => []VerifySound
<1>1. MCInv => VerifySound
    BY DEF MCInv, VerifyInv, VerifySound
<1> QED BY <1>1, MCInvAlways, PTL

\* The code of the newest Send is there for its whole lifetime.
THEOREM NewestIsThere == Spec => []NewestStands
<1>1. ASSUME MCInv, NEW c \in stands, force = {c}, CodeTtl > 0 => now < c.created + CodeTtl
      PROVE  code = c
    <2>1. Covered(c) /\ code \in force \cup {NoCode} /\ c \in Code
        BY <1>1 DEF MCInv, StandInv, CodeInv, TypeInv
    <2>2. now \in Nat /\ c.created + CodeTtl \in Nat
        BY <1>1, <2>1, NowIsAnHour, MsgCodeAssumption DEF MCInv, Code
    <2>3. code # NoCode
        BY <1>1, <2>1, <2>2 DEF Covered
    <2> QED BY <1>1, <2>1, <2>3
<1>2. MCInv => NewestStands
    BY <1>1 DEF NewestStands
<1> QED BY <1>2, MCInvAlways, PTL

\* Asked for the current hour or day or the one before, the counters have
\* every Send that returned nil, and never more than the pipelines sent.
THEOREM CountsAreRight == Spec => []CountsCover
<1>1. ASSUME MCInv
      PROVE  CountsCover
    <2>1. /\ now \in Nat /\ now \in Hour /\ now - 1 \in Hour
        BY <1>1, MsgCodeAssumption DEF MCInv, TypeInv, Hour
    <2>2. ASSUME NEW h \in Hour
          PROVE  /\ now <= h + 1 => nils[h] <= hour[h]
                 /\ hour[h] <= tries[h]
        <3>1. /\ Cardinality(HourDone(h)) \in Nat /\ Cardinality(HourDue(h)) \in Nat
              /\ nils[h] \in Nat /\ hour[h] \in Nat /\ tries[h] \in Nat
            BY <1>1, Counting DEF HourDone, HourDue, MCInv, TypeInv
        <3>2. /\ now <= h + 1 => nils[h] + Cardinality(HourDone(h)) <= hour[h]
              /\ hour[h] + Cardinality(HourDue(h)) <= tries[h]
            BY <1>1 DEF MCInv, CountInv
        <3> QED BY <3>1, <3>2
    <2>3. ASSUME NEW d \in Day
          PROVE  /\ DayOf(now) <= d + 1 => nilsDay[d] <= day[d]
                 /\ day[d] <= triesDay[d]
        <3>1. /\ Cardinality(DayDone(d)) \in Nat /\ Cardinality(DayDue(d)) \in Nat
              /\ nilsDay[d] \in Nat /\ day[d] \in Nat /\ triesDay[d] \in Nat
            BY <1>1, Counting DEF DayDone, DayDue, MCInv, TypeInv
        <3>2. /\ DayOf(now) <= d + 1 => nilsDay[d] + Cardinality(DayDone(d)) <= day[d]
              /\ day[d] + Cardinality(DayDue(d)) <= triesDay[d]
            BY <1>1 DEF MCInv, CountInv
        <3> QED BY <3>1, <3>2
    <2>4. \A h \in {now - 1, now} : now <= h + 1 /\ h \in Hour
        BY <2>1
    <2>5. \A h \in Hour : DayOf(h) \in Day /\ DayOf(h) \in Nat
        BY TimeFacts
    <2>6. \A d \in Nat : DayOf(now) \in {d, d + 1} => DayOf(now) <= d + 1
        OBVIOUS
    <2> QED BY <2>2, <2>3, <2>4, <2>5, <2>6 DEF CountsCover, CountHour, CountDay
<1> QED BY <1>1, MCInvAlways, PTL

\* Only a Send that gave up leaves a counter behind that Redis never drops.
THEOREM CountersDoGo == Spec => []CountersGo
<1> DEFINE mayLack == gaveUp \cup {at[s] : s \in {t \in Sender : InProgress(t)}}
<1>1. \A s \in Sender : pc[s] # "idle" => at[s] \in mayLack
    BY DEF InProgress
<1>2. ASSUME MCInv, NEW h \in Hour, hour[h] > 0, hourEnd[h] = Never
      PROVE  h \in mayLack
    BY <1>1, <1>2 DEF MCInv, LifeInv
<1>3. ASSUME MCInv, NEW d \in Day, day[d] > 0, dayEnd[d] = Never
      PROVE  HoursOf(d) \cap mayLack # {}
    BY <1>1, <1>3 DEF MCInv, LifeInv
<1>4. MCInv => CountersGo
    BY <1>2, <1>3 DEF CountersGo
<1> QED BY <1>4, MCInvAlways, PTL
=============================================================================
