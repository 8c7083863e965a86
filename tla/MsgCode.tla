------------------------------- MODULE MsgCode ------------------------------
(***************************************************************************)
(* pkg/msgcode: the code for one key and type, with a lifetime, and two    *)
(* counters of the codes sent, of the hour and of the day.  SendValue      *)
(* writes all three with one pipeline, which is not a transaction: the     *)
(* commands of several senders interleave, and when the connection breaks  *)
(* after some of them the client sends all of them again, on a new one, or *)
(* gives up.  Time is counted in hours.                                    *)
(***************************************************************************)
EXTENDS Naturals, FiniteSets

CONSTANTS Sender,   \* and the code that it sends
          Verifier,
          CodeTtl,  \* opt.codeTtl in whole seconds; 0, no lifetime
          CvTtls,   \* what callers of SendValue put in CodeTtl, 0 for nothing
          DayLen,
          NoCode,
          MaxNow, MaxSends, MaxBreaks \* bounds: time, Sends, broken connections

ASSUME MsgCodeAssumption ==
    /\ IsFiniteSet(Sender)
    /\ CodeTtl \in Nat /\ CvTtls \subseteq Nat
    /\ DayLen \in Nat \ {0}
    /\ MaxNow \in Nat \ {0} /\ MaxSends \in Nat /\ MaxBreaks \in Nat
    /\ NoCode \notin [code : Sender, created : Nat, ttl : Nat]

VARIABLES now,
          \* Redis
          code, codeEnd,   \* the code stored, or NoCode, and when it goes
          hour, hourEnd,   \* hour[h]: the counter of an hour, 0 if there is none
          day, dayEnd,
          \* SendValue
          pc,              \* "idle", the next command, or "return"
          cv,              \* the CodeValue, which a caller may send again
          at,              \* its now
          \* Verify
          got, res,        \* what Get has read; "idle", "get", "check" or "ok"
          \* history
          force,           \* the codes that may be in force
          stands,          \* those of them whose Send has returned nil
          hit,             \* the senders whose Send overlaps a Delete
          gaveUp,          \* the hours of Sends that have returned an error
          old,             \* old[s]: those that a Send of s replaces
          cand,            \* cand[v]: those that may have been in force during a Verify
          nils, tries,     \* by hour: the Sends that returned nil; the pipelines sent
          nilsDay, triesDay, \* the same, by day
          sends, breaks    \* counters for the bounds

store == <<code, codeEnd, hour, hourEnd, day, dayEnd>>
tallies == <<nils, tries, nilsDay, triesDay>>
senders == <<pc, cv, at, old, tallies, sends>>
verifiers == <<got, res, cand>>
history == <<force, stands, hit, gaveUp, breaks>>
vars == <<now, store, senders, verifiers, history>>

Never == MaxNow + CodeTtl + 2 * DayLen + 1 \* later than any lifetime ends
Hour == 0..MaxNow
DayOf(h) == h \div DayLen
Day == {DayOf(h) : h \in Hour}
HoursOf(d) == {h \in Hour : DayOf(h) = d}
CodeValue(s, created, ttl) == [code |-> s, created |-> created, ttl |-> ttl]

Init == /\ now = 1
        /\ code = NoCode /\ codeEnd = Never
        /\ hour = [h \in Hour |-> 0] /\ hourEnd = [h \in Hour |-> Never]
        /\ day = [d \in Day |-> 0] /\ dayEnd = [d \in Day |-> Never]
        /\ pc = [s \in Sender |-> "idle"]
        /\ cv = [s \in Sender |-> CodeValue(s, 0, 0)]
        /\ at = [s \in Sender |-> 0]
        /\ got = [v \in Verifier |-> NoCode]
        /\ res = [v \in Verifier |-> "idle"]
        /\ force = {} /\ stands = {} /\ hit = {} /\ gaveUp = {} /\ old = [s \in Sender |-> {}]
        /\ cand = [v \in Verifier |-> {}]
        /\ nils = [h \in Hour |-> 0] /\ tries = [h \in Hour |-> 0]
        /\ nilsDay = [d \in Day |-> 0] /\ triesDay = [d \in Day |-> 0]
        /\ sends = 0 /\ breaks = 0
-----------------------------------------------------------------------------
\* Keys whose lifetime ends go.
Tick ==
    /\ now < MaxNow /\ now' = now + 1
    /\ code' = IF codeEnd = now' THEN NoCode ELSE code
    /\ codeEnd' = IF codeEnd = now' THEN Never ELSE codeEnd
    /\ hour' = [h \in Hour |-> IF hourEnd[h] = now' THEN 0 ELSE hour[h]]
    /\ hourEnd' = [h \in Hour |-> IF hourEnd[h] = now' THEN Never ELSE hourEnd[h]]
    /\ day' = [d \in Day |-> IF dayEnd[d] = now' THEN 0 ELSE day[d]]
    /\ dayEnd' = [d \in Day |-> IF dayEnd[d] = now' THEN Never ELSE dayEnd[d]]
    /\ UNCHANGED <<senders, verifiers, history>>
-----------------------------------------------------------------------------
\* SendValue fills in what the caller has left out.
Filled(c) == CodeValue(c.code, IF c.created = 0 THEN now ELSE c.created,
                       IF c.ttl = 0 THEN CodeTtl ELSE c.ttl)

\* A pipeline is sent, for an hour and its day.
Tried(h) == /\ tries' = [tries EXCEPT ![h] = @ + 1]
            /\ triesDay' = [triesDay EXCEPT ![DayOf(h)] = @ + 1]

InProgress(s) == pc[s] # "idle"
Unsettled == {cv[s] : s \in {t \in Sender : InProgress(t)}}

Starts(s, c) ==
    /\ pc[s] = "idle" /\ sends < MaxSends
    /\ sends' = sends + 1
    /\ cv' = [cv EXCEPT ![s] = Filled(c)]
    /\ at' = [at EXCEPT ![s] = now]
    /\ pc' = [pc EXCEPT ![s] = "set"]
    /\ Tried(now)
    /\ force' = force \cup {Filled(c)} /\ stands' = stands \ {Filled(c)} /\ hit' = hit \ {s}
    /\ old' = [t \in Sender |-> IF t = s THEN force \ (Unsettled \cup {Filled(c)})
                                ELSE old[t] \ {Filled(c)}]
    /\ cand' = [v \in Verifier |-> IF res[v] \in {"get", "check"} THEN cand[v] \cup {Filled(c)}
                                                                ELSE cand[v]]
    /\ UNCHANGED <<now, store, got, res, nils, nilsDay, gaveUp, breaks>>

\* Send; SendValue, with a CodeValue that is new or the one sent before.
Send(s) == Starts(s, CodeValue(s, now, CodeTtl))
SendValue(s) == \/ \E ttl \in CvTtls : Starts(s, CodeValue(s, 0, ttl))
                \/ cv[s].created # 0 /\ Starts(s, cv[s])

\* The pipeline, command by command.
Command(s, from, to) == /\ pc[s] = from
                        /\ pc' = [pc EXCEPT ![s] = to]
                        /\ UNCHANGED <<now, cv, at, old, tallies, sends, verifiers, history>>

\* Mutant of SetCode: SET with NX.
SetCodeNX(s) == /\ Command(s, "set", "incr hour")
                /\ IF code = NoCode THEN code' = cv[s] /\ codeEnd' = now + CodeTtl
                   ELSE UNCHANGED <<code, codeEnd>>
                /\ UNCHANGED <<hour, hourEnd, day, dayEnd>>

SetCode(s) == /\ Command(s, "set", "incr hour")
              /\ code' = cv[s]
              /\ codeEnd' = IF CodeTtl = 0 THEN Never ELSE now + CodeTtl
              /\ UNCHANGED <<hour, hourEnd, day, dayEnd>>

IncrHour(s) == /\ Command(s, "incr hour", "incr day")
               /\ hour' = [hour EXCEPT ![at[s]] = @ + 1]
               /\ UNCHANGED <<code, codeEnd, hourEnd, day, dayEnd>>
IncrDay(s) == /\ Command(s, "incr day", "expire hour")
              /\ day' = [day EXCEPT ![DayOf(at[s])] = @ + 1]
              /\ UNCHANGED <<code, codeEnd, hour, hourEnd, dayEnd>>

\* Mutant of ExpireHour: one hour.
ExpireHourSoon(s) ==
    /\ Command(s, "expire hour", "expire day")
    /\ hourEnd' = IF hour[at[s]] = 0 THEN hourEnd ELSE [hourEnd EXCEPT ![at[s]] = now + 1]
    /\ UNCHANGED <<code, codeEnd, hour, day, dayEnd>>

\* EXPIRE of a key that has gone does nothing.
ExpireHour(s) ==
    /\ Command(s, "expire hour", "expire day")
    /\ hourEnd' = IF hour[at[s]] = 0 THEN hourEnd ELSE [hourEnd EXCEPT ![at[s]] = now + 2]
    /\ UNCHANGED <<code, codeEnd, hour, day, dayEnd>>

\* Mutant of ExpireDay: of the day it is, not that of the counter.
ExpireToday(s) ==
    /\ Command(s, "expire day", "return")
    /\ LET d == DayOf(now)
       IN dayEnd' = IF day[d] = 0 THEN dayEnd ELSE [dayEnd EXCEPT ![d] = now + 2 * DayLen]
    /\ UNCHANGED <<code, codeEnd, hour, hourEnd, day>>

ExpireDay(s) ==
    /\ Command(s, "expire day", "return")
    /\ LET d == DayOf(at[s])
       IN dayEnd' = IF day[d] = 0 THEN dayEnd ELSE [dayEnd EXCEPT ![d] = now + 2 * DayLen]
    /\ UNCHANGED <<code, codeEnd, hour, hourEnd, day>>

\* The answers are there.
SendReturns(s) ==
    /\ pc[s] = "return"
    /\ pc' = [pc EXCEPT ![s] = "idle"]
    /\ nils' = [nils EXCEPT ![at[s]] = @ + 1]
    /\ nilsDay' = [nilsDay EXCEPT ![DayOf(at[s])] = @ + 1]
    /\ force' = force \ old[s]
    /\ stands' = (stands \cap force') \cup IF s \in hit THEN {} ELSE {cv[s]}
    /\ old' = [old EXCEPT ![s] = {}]
    /\ UNCHANGED <<now, store, cv, at, tries, triesDay, sends, verifiers, hit, gaveUp, breaks>>

\* The connection breaks, before any command or behind the last, and the
\* client sends the pipeline again or returns the error.
Break(s) ==
    /\ pc[s] # "idle" /\ breaks < MaxBreaks
    /\ breaks' = breaks + 1
    /\ \/ /\ pc' = [pc EXCEPT ![s] = "set"]
          /\ Tried(at[s])
          /\ UNCHANGED <<old, gaveUp>>
       \/ /\ pc' = [pc EXCEPT ![s] = "idle"]
          /\ old' = [old EXCEPT ![s] = {}]
          /\ gaveUp' = gaveUp \cup {at[s]}
          /\ UNCHANGED <<tries, triesDay>>
    /\ UNCHANGED <<now, store, cv, at, nils, nilsDay, sends, verifiers, force, stands, hit>>
-----------------------------------------------------------------------------
\* readCounter
CountHour(h) == hour[h]
CountDay(h) == day[DayOf(h)]

\* Mutant of Delete: it does nothing.
DeleteNothing == /\ force' = Unsettled /\ stands' = {} /\ hit' = {s \in Sender : InProgress(s)}
                 /\ UNCHANGED <<now, store, senders, verifiers, gaveUp, breaks>>

\* Delete, whose effect is that of one command.
Delete == /\ code' = NoCode /\ codeEnd' = Never
          /\ force' = Unsettled /\ stands' = {} /\ hit' = {s \in Sender : InProgress(s)}
          /\ UNCHANGED <<now, hour, hourEnd, day, dayEnd, senders, verifiers, gaveUp, breaks>>

Goes(v, from, to) == res[v] = from /\ res' = [res EXCEPT ![v] = to]
                     /\ UNCHANGED <<now, store, senders, history>>

Verify(v) == /\ Goes(v, "idle", "get")
             /\ cand' = [cand EXCEPT ![v] = force]
             /\ UNCHANGED got

\* ValidAt.  The type is part of the key, so that it is always the right one.
ValidAt(c, input) == c.code = input /\ (c.ttl > 0 => now <= c.created + c.ttl)

\* Get finds a code.
Get(v) == /\ code # NoCode /\ Goes(v, "get", "check")
          /\ got' = [got EXCEPT ![v] = code]
          /\ UNCHANGED cand
Accepts(v, input) == /\ Goes(v, "check", "ok")
                     /\ ValidAt(got[v], input)
                     /\ UNCHANGED <<got, cand>>

\* ErrCodeNotFound, ErrCodeMismatch or ErrCodeExpired; the caller may try again.
Refuses(v) == /\ \/ code = NoCode /\ Goes(v, "get", "idle")
                 \/ /\ Goes(v, "check", "idle")
                    /\ \E input \in Sender : ~ValidAt(got[v], input)
              /\ got' = [got EXCEPT ![v] = NoCode]
              /\ cand' = [cand EXCEPT ![v] = {}]

Next == \/ Tick
        \/ \E s \in Sender : \/ Send(s) \/ SendValue(s)
                             \/ SetCode(s) \/ IncrHour(s) \/ IncrDay(s)
                             \/ ExpireHour(s) \/ ExpireDay(s)
                             \/ SendReturns(s) \/ Break(s)
        \/ Delete
        \/ \E v \in Verifier : \/ Verify(v) \/ Get(v) \/ Refuses(v)
                               \/ \E s \in Sender : Accepts(v, s)

Spec == Init /\ [][Next]_vars
-----------------------------------------------------------------------------
\* Verify accepts a code only if no Send that returned nil had replaced it and
\* no Delete had removed it before the Verify began; a Send still in progress
\* may put its code in force at any time (msgcode.go:107).
VerifySound == \A v \in Verifier : res[v] = "ok" => got[v] \in cand[v]

\* The code of a Send that returned nil, after which no other Send and no
\* Delete was called, is there until it is as old as codeTtl, also if the
\* pipeline was sent twice, or the CodeValue was (msgcode.go:72).
NewestStands ==
    \A c \in stands : force = {c} /\ (CodeTtl > 0 => now < c.created + CodeTtl) => code = c

\* "返回某个 key + type 在指定时刻所在小时的发送次数" (msgcode.go:142): asked for
\* this hour, this day, or the one before, the counters cover every Send that
\* returned nil, and count none twice unless its pipeline was sent twice.
CountsCover ==
    /\ \A h \in {now - 1, now} : nils[h] <= CountHour(h)
    /\ \A h \in Hour : CountHour(h) <= tries[h]
    /\ \A h \in Hour :
          LET d == DayOf(h)
          IN /\ DayOf(now) \in {d, d + 1} => nilsDay[d] <= CountDay(h)
             /\ CountDay(h) <= triesDay[d]

\* Only a Send that gave up in between can leave a counter without a lifetime,
\* which would stay in Redis for ever (msgcode.go:75).
CountersGo ==
    LET mayLack == gaveUp \cup {at[s] : s \in {t \in Sender : InProgress(t)}}
    IN /\ \A h \in Hour : hour[h] > 0 /\ hourEnd[h] = Never => h \in mayLack
       /\ \A d \in Day : day[d] > 0 /\ dayEnd[d] = Never => HoursOf(d) \cap mayLack # {}
=============================================================================
