---------------------------- MODULE PubSub_proofs ---------------------------
(***************************************************************************)
(* Proofs about PubSub, for any sets of publishers and subscribers, and    *)
(* any numbers of workers and places in a queue.                           *)
(*                                                                         *)
(* A publisher in its loop holds the read lock, so the list stays as it is *)
(* and all before its place have been sent the message (LoopInv); one that *)
(* has not come so far relies on the list to keep whom it found registered *)
(* (ListInv).  Workers run again only through a Start, which no Stop or    *)
(* Close that has waited for them can overlap, if Orderly (StopInv).       *)
(***************************************************************************)
EXTENDS PubSub, SequenceTheorems, TLAPS

Results == {"none", "nil", "closed", "mismatch", "ctx"}

TypeInv ==
    /\ subs \in Seq(Subscriber)
    /\ topic \in BOOLEAN /\ closed \in BOOLEAN
    /\ ppc \in [Publisher -> {"new", "find", "args", "rlock", "send", "done"}]
    /\ at \in [Publisher -> Nat]
    /\ result \in [Publisher -> Results]
    /\ got \in [Subscriber -> SUBSET Publisher]
    /\ through \in [Publisher -> SUBSET Subscriber]
    /\ readers = {p \in Publisher : ppc[p] = "send"}
    /\ upc \in [User -> {"new", "subscribe", "append", "idle", "start", "spawn", "stop", "remove",
                         "cancel", "wait", "stopped", "exit", "snapshot", "next", "closed"}]
    /\ target \in [User -> Subscriber \cup {None}]
    /\ todo \in Seq(Subscriber)
    /\ work \in [Worker -> {"none", "receive", "handle", "done"}]

\* Who is in the list has created the topic, and whoever was registered
\* throughout a call is in the list until the call returns.
ListInv ==
    /\ subs # <<>> => topic
    /\ \A s \in Subscriber : upc[s] # "new" => topic
    /\ \A p \in Publisher : ppc[p] \in {"find", "args", "rlock", "send"} =>
          result[p] = "none" /\ through[p] \subseteq ToSet(subs)
    /\ \A p \in Publisher : ppc[p] = "new" => result[p] = "none"

LoopInv ==
    \A p \in Publisher : ppc[p] = "send" =>
        /\ at[p] \in 1..(Len(subs) + 1)
        /\ p \notin TryPublisher => \A i \in 1..(at[p] - 1) : p \in got[subs[i]]

StopInv ==
    /\ \A u \in User : upc[u] \in {"stop", "remove", "cancel", "wait", "stopped"} =>
          target[u] \in Subscriber /\ (u # Closer => target[u] = u)
    /\ upc[Closer] \in {"new", "exit", "snapshot"} => target[Closer] = None
    /\ upc[Closer] # "new" => closed
    /\ Orderly /\ closed => \A s \in Subscriber : upc[s] \notin {"start", "spawn"}
    /\ Orderly => StoppedForGood

PSInv == TypeInv /\ ListInv /\ LoopInv /\ ReachesAll /\ StopInv
-----------------------------------------------------------------------------
\* A list without its place i keeps what it has elsewhere.
LEMMA WithoutOne ==
    ASSUME NEW S, NEW s \in Seq(S), NEW i \in 1..Len(s)
    PROVE  /\ RemoveAt(s, i) \in Seq(S)
           /\ ToSet(s) \ {s[i]} \subseteq ToSet(RemoveAt(s, i))
<1> DEFINE n == Len(s)
           front == SubSeq(s, 1, i - 1)
           back == SubSeq(s, i + 1, n)
           rest == front \o back
<1>1. n \in Nat /\ i \in 1..n /\ DOMAIN s = 1..n /\ \A j \in 1..n : s[j] \in S
    BY LenProperties, ElementOfSeq
<1>2. /\ front \in Seq(S) /\ Len(front) = i - 1
      /\ \A j \in 1..(i - 1) : front[j] = s[j]
    <2>1. 1 \in Int /\ i - 1 \in Int /\ \A j \in 1..(i - 1) : s[j] \in S
        BY <1>1
    <2>2. /\ front \in Seq(S) /\ Len(front) = IF 1 <= i - 1 THEN i - 1 - 1 + 1 ELSE 0
          /\ \A j \in 1..(i - 1 - 1 + 1) : front[j] = s[1 + j - 1]
        BY <2>1, SubSeqProperties
    <2> QED BY <1>1, <2>2
<1>3. /\ back \in Seq(S) /\ Len(back) = n - i
      /\ \A j \in 1..(n - i) : back[j] = s[i + j]
    <2>1. i + 1 \in Int /\ n \in Int /\ \A j \in (i + 1)..n : s[j] \in S
        BY <1>1
    <2>2. /\ back \in Seq(S) /\ Len(back) = IF i + 1 <= n THEN n - (i + 1) + 1 ELSE 0
          /\ \A j \in 1..(n - (i + 1) + 1) : back[j] = s[(i + 1) + j - 1]
        BY <2>1, SubSeqProperties
    <2>3. n - (i + 1) + 1 = n - i
        BY <1>1
    <2>4. Len(back) = n - i
        <3>1. \A a \in Nat : \A b \in 1..a : ~(b + 1 <= a) => a - b = 0
            OBVIOUS
        <3>2. ~(i + 1 <= n) => n - i = 0
            BY <1>1, <3>1
        <3> QED BY <2>2, <2>3, <3>2
    <2>5. \A j \in 1..(n - i) : j \in Int /\ (i + 1) + j - 1 = i + j
        BY <1>1
    <2>6. \A j \in 1..(n - i) : back[j] = s[(i + 1) + j - 1]
        BY <2>2, <2>3
    <2>7. \A j \in 1..(n - i) : back[j] = s[i + j]
        BY <2>5, <2>6
    <2> QED BY <2>2, <2>4, <2>7
<1> HIDE DEF front, back
<1>4. /\ rest \in Seq(S) /\ Len(rest) = (i - 1) + (n - i)
      /\ \A j \in 1..((i - 1) + (n - i)) :
            rest[j] = IF j <= i - 1 THEN front[j] ELSE back[j - (i - 1)]
    <2>1. /\ rest \in Seq(S) /\ Len(rest) = Len(front) + Len(back)
          /\ \A j \in 1..(Len(front) + Len(back)) :
                rest[j] = IF j <= Len(front) THEN front[j] ELSE back[j - Len(front)]
        BY <1>2, <1>3, ConcatProperties
    <2> QED BY <1>2, <1>3, <2>1
<1> HIDE DEF rest
<1>5. DOMAIN rest = 1..(n - 1)
    BY <1>1, <1>4, LenProperties
<1>6. ASSUME NEW j \in 1..n, j # i
      PROVE  \E k \in 1..(n - 1) : rest[k] = s[j]
    <2>1. CASE j < i
        <3>1. j \in 1..(n - 1) /\ j \in 1..(i - 1) /\ j <= i - 1 /\ j \in 1..((i - 1) + (n - i))
            BY <1>1, <2>1
        <3> QED BY <1>2, <1>4, <3>1
    <2>2. CASE j > i
        <3> DEFINE k == j - 1
        <3>1. /\ k \in 1..(n - 1) /\ k \in 1..((i - 1) + (n - i)) /\ ~(k <= i - 1)
              /\ k - (i - 1) \in 1..(n - i) /\ k - (i - 1) = j - i /\ i + (j - i) = j
            BY <1>1, <2>2
        <3>2. rest[k] = back[k - (i - 1)]
            BY <1>4, <3>1
        <3>3. back[k - (i - 1)] = s[j]
            BY <1>3, <3>1
        <3> QED BY <3>1, <3>2, <3>3
    <2> QED BY <1>1, <1>6, <2>1, <2>2
<1>7. ToSet(s) \ {s[i]} \subseteq ToSet(rest)
    BY <1>1, <1>5, <1>6 DEF ToSet
<1> QED BY <1>4, <1>7 DEF RemoveAt, rest, front, back

LEMMA InitPSInv == Init => PSInv
<1> SUFFICES ASSUME Init PROVE PSInv
    OBVIOUS
<1>1. TypeInv
    <2>1. subs \in Seq(Subscriber) /\ todo \in Seq(Subscriber)
        BY EmptySeq DEF Init
    <2>2. /\ topic \in BOOLEAN /\ closed \in BOOLEAN
          /\ ppc \in [Publisher -> {"new", "find", "args", "rlock", "send", "done"}]
          /\ at \in [Publisher -> Nat]
          /\ result \in [Publisher -> Results]
        BY DEF Init, Results
    <2>3. /\ got \in [Subscriber -> SUBSET Publisher]
          /\ through \in [Publisher -> SUBSET Subscriber]
        BY DEF Init
    <2>4. readers = {p \in Publisher : ppc[p] = "send"}
        BY DEF Init
    <2>5. target \in [User -> Subscriber \cup {None}]
        BY DEF Init, User
    <2>6. upc \in [User -> {"new", "subscribe", "append", "idle", "start", "spawn", "stop",
              "remove", "cancel", "wait", "stopped", "exit", "snapshot", "next", "closed"}]
        BY DEF Init, User
    <2>7. work \in [Worker -> {"none", "receive", "handle", "done"}]
        BY DEF Init
    <2> QED BY <2>1, <2>2, <2>3, <2>4, <2>5, <2>6, <2>7 DEF TypeInv
<1>2. ListInv /\ LoopInv /\ ReachesAll
    BY DEF Init, ListInv, LoopInv, ReachesAll, User
<1>3. StopInv
    BY NamesAssumption DEF Init, StopInv, StoppedForGood, User
<1> QED BY <1>1, <1>2, <1>3 DEF PSInv

-----------------------------------------------------------------------------
\* What publishers and lists are to each other.
ReachInv == ListInv /\ LoopInv /\ ReachesAll

\* Nothing of it is touched by who only moves a user that has subscribed.
LEMMA ReachFrame ==
    ASSUME PSInv, UNCHANGED <<topic, subs, readers, ppc, at, result, got, through>>,
           \A s \in Subscriber : upc'[s] # "new" => upc[s] # "new"
    PROVE  ReachInv'
<1>1. ListInv'
    BY DEF PSInv, TypeInv, ListInv
<1>2. LoopInv'
    BY DEF PSInv, LoopInv
<1>3. ReachesAll'
    BY DEF PSInv, ReachesAll
<1> QED BY <1>1, <1>2, <1>3 DEF ReachInv

\* The workers run where they ran: nothing to say of Stop.
LEMMA StopFrame ==
    ASSUME PSInv, UNCHANGED <<upc, target, closed>>,
           \A s \in Subscriber : (Running(s))' \subseteq Running(s)
    PROVE  StopInv'
<1>1. Orderly => StoppedForGood'
    BY DEF PSInv, StopInv, StoppedForGood
<1> QED BY <1>1 DEF PSInv, StopInv

\* A publisher before or after its loop.
LEMMA CallStep ==
    ASSUME PSInv, NEW p \in Publisher, Call(p) PROVE PSInv'
<1>1. /\ UNCHANGED <<topic, subs, readers, closed, at, got, upc, target, todo, work>>
      /\ through' = [through EXCEPT ![p] = ToSet(subs)]
      /\ ppc[p] = "new"
      /\ \/ ppc' = [ppc EXCEPT ![p] = "done"] /\ result' = [result EXCEPT ![p] = "closed"]
         \/ ppc' = [ppc EXCEPT ![p] = "find"] /\ result' = result
    BY DEF Call, Return, Go, topicVars, subVars, userVars
<1>2. ToSet(subs) \subseteq Subscriber
    BY LenProperties, ElementOfSeq DEF PSInv, TypeInv, ToSet
<1>3. TypeInv'
    <2>1. through' \in [Publisher -> SUBSET Subscriber]
        BY <1>1, <1>2 DEF PSInv, TypeInv
    <2>2. ppc' \in [Publisher -> {"new", "find", "args", "rlock", "send", "done"}]
        BY <1>1 DEF PSInv, TypeInv
    <2>3. result' \in [Publisher -> Results]
        BY <1>1 DEF PSInv, TypeInv, Results
    <2>4. readers' = {q \in Publisher : ppc'[q] = "send"}
        BY <1>1 DEF PSInv, TypeInv
    <2> QED BY <1>1, <2>1, <2>2, <2>3, <2>4 DEF PSInv, TypeInv
<1>4. ListInv'
    <2>1. /\ subs' # <<>> => topic'
          /\ \A s \in Subscriber : upc'[s] # "new" => topic'
        BY <1>1 DEF PSInv, ListInv
    <2>2. ASSUME NEW q \in Publisher
          PROVE  /\ ppc'[q] \in {"find", "args", "rlock", "send"} =>
                       result'[q] = "none" /\ through'[q] \subseteq ToSet(subs)
                 /\ ppc'[q] = "new" => result'[q] = "none"
        BY <1>1 DEF PSInv, TypeInv, ListInv
    <2> QED BY <1>1, <2>1, <2>2 DEF ListInv
<1>5. LoopInv'
    BY <1>1 DEF PSInv, TypeInv, LoopInv
<1>6. ReachesAll'
    BY <1>1 DEF PSInv, TypeInv, ListInv, ReachesAll
<1>7. StopInv'
    BY <1>1, StopFrame DEF Running
<1> QED BY <1>3, <1>4, <1>5, <1>6, <1>7 DEF PSInv

LEMMA FindStep ==
    ASSUME PSInv, NEW p \in Publisher, Find(p) \/ BuildArgs(p) PROVE PSInv'
<1>1. /\ UNCHANGED <<topic, subs, readers, closed, at, got, through, upc, target, todo, work>>
      /\ ppc[p] \in {"find", "args"}
      /\ \/ /\ \E place \in {"args", "rlock"} : ppc' = [ppc EXCEPT ![p] = place]
            /\ result' = result
         \/ /\ ppc' = [ppc EXCEPT ![p] = "done"]
            /\ \/ result' = [result EXCEPT ![p] = "mismatch"]
               \/ result' = [result EXCEPT ![p] = "nil"] /\ ~topic
    BY DEF Find, BuildArgs, Return, Go, topicVars, subVars, userVars, history
<1>2. TypeInv'
    <2>1. ppc' \in [Publisher -> {"new", "find", "args", "rlock", "send", "done"}]
        BY <1>1 DEF PSInv, TypeInv
    <2>2. result' \in [Publisher -> Results]
        BY <1>1 DEF PSInv, TypeInv, Results
    <2>3. readers' = {q \in Publisher : ppc'[q] = "send"}
        BY <1>1 DEF PSInv, TypeInv
    <2> QED BY <1>1, <2>1, <2>2, <2>3 DEF PSInv, TypeInv
<1>3. ListInv'
    BY <1>1 DEF PSInv, TypeInv, ListInv
<1>4. LoopInv'
    BY <1>1 DEF PSInv, TypeInv, LoopInv
<1>5. ReachesAll'
    <2>1. ~topic => through[p] = {}
        <3>1. ~topic => subs = <<>>
            BY DEF PSInv, ListInv
        <3>2. ToSet(<<>>) = {}
            BY EmptySeq, LenProperties DEF ToSet
        <3>3. through[p] \subseteq ToSet(subs)
            BY <1>1 DEF PSInv, ListInv
        <3> QED BY <3>1, <3>2, <3>3
    <2>2. ASSUME NEW q \in Publisher \ TryPublisher, result'[q] = "nil"
          PROVE  \A s \in through[q] : q \in got[s]
        <3>1. CASE result[q] = "nil"
            BY <3>1 DEF PSInv, ReachesAll
        <3>2. CASE result[q] # "nil"
            <4>1. q = p /\ ~topic
                BY <1>1, <2>2, <3>2 DEF PSInv, TypeInv
            <4> QED BY <2>1, <4>1
        <3> QED BY <3>1, <3>2
    <2> QED BY <1>1, <2>2 DEF ReachesAll
<1>6. StopInv'
    BY <1>1, StopFrame DEF Running
<1> QED BY <1>2, <1>3, <1>4, <1>5, <1>6 DEF PSInv

\* A publisher in its loop: the list does not change.
LEMMA RLockStep ==
    ASSUME PSInv, NEW p \in Publisher, RLock(p) PROVE PSInv'
<1>1. /\ UNCHANGED <<topic, subs, closed, result, got, through, upc, target, todo, work>>
      /\ ppc[p] = "rlock" /\ ppc' = [ppc EXCEPT ![p] = "send"]
      /\ at' = [at EXCEPT ![p] = 1]
      /\ readers' = readers \cup {p}
    BY DEF RLock, Go, topicVars, subVars, userVars, history
<1>2. TypeInv'
    <2>1. ppc' \in [Publisher -> {"new", "find", "args", "rlock", "send", "done"}]
        BY <1>1 DEF PSInv, TypeInv
    <2>2. at' \in [Publisher -> Nat]
        BY <1>1 DEF PSInv, TypeInv
    <2>3. readers' = {q \in Publisher : ppc'[q] = "send"}
        BY <1>1 DEF PSInv, TypeInv
    <2> QED BY <1>1, <2>1, <2>2, <2>3 DEF PSInv, TypeInv
<1>3. ListInv'
    BY <1>1 DEF PSInv, TypeInv, ListInv
<1>4. LoopInv'
    <2> SUFFICES ASSUME NEW q \in Publisher, ppc'[q] = "send"
                 PROVE  /\ at'[q] \in 1..(Len(subs) + 1)
                        /\ q \notin TryPublisher => \A i \in 1..(at'[q] - 1) : q \in got[subs[i]]
        BY <1>1 DEF LoopInv
    <2>1. Len(subs) \in Nat
        BY LenProperties DEF PSInv, TypeInv
    <2>2. CASE q = p
        BY <1>1, <2>1, <2>2 DEF PSInv, TypeInv
    <2>3. CASE q # p
        BY <1>1, <2>3 DEF PSInv, TypeInv, LoopInv
    <2> QED BY <2>2, <2>3
<1>5. ReachesAll'
    BY <1>1 DEF PSInv, ReachesAll
<1>6. StopInv'
    BY <1>1, StopFrame DEF Running
<1> QED BY <1>2, <1>3, <1>4, <1>5, <1>6 DEF PSInv

LEMMA SendStep ==
    ASSUME PSInv, NEW p \in Publisher, Send(p) \/ Skip(p) PROVE PSInv'
<1> DEFINE s == subs[at[p]]
<1>1. /\ UNCHANGED <<topic, subs, readers, closed, ppc, result, through, upc, target, todo, work>>
      /\ ppc[p] = "send" /\ at[p] <= Len(subs)
      /\ at' = [at EXCEPT ![p] = @ + 1]
      /\ \/ got' = [got EXCEPT ![s] = @ \cup {p}]
         \/ got' = got /\ p \in TryPublisher
    BY DEF Send, Skip, topicVars, subVars, userVars, history
<1>2. at[p] \in 1..Len(subs) /\ Len(subs) \in Nat /\ at[p] \in Nat
    BY <1>1, LenProperties DEF PSInv, TypeInv, LoopInv
<1>3. s \in Subscriber /\ \A i \in 1..Len(subs) : subs[i] \in Subscriber
    BY <1>2, ElementOfSeq DEF PSInv, TypeInv
<1>4. got' \in [Subscriber -> SUBSET Publisher]
    <2>1. got \in [Subscriber -> SUBSET Publisher]
        BY DEF PSInv, TypeInv
    <2>2. got[s] \cup {p} \in SUBSET Publisher
        BY <1>3, <2>1
    <2> HIDE DEF s
    <2> QED BY <1>1, <1>3, <2>1, <2>2
<1>5. \A x \in Subscriber : got[x] \subseteq got'[x]
    BY <1>1, <1>3 DEF PSInv, TypeInv
<1>6. p \notin TryPublisher => p \in got'[s]
    BY <1>1, <1>3 DEF PSInv, TypeInv
<1>7. TypeInv'
    <2>1. at' \in [Publisher -> Nat]
        BY <1>1 DEF PSInv, TypeInv
    <2> QED BY <1>1, <1>4, <2>1 DEF PSInv, TypeInv
<1>8. ListInv'
    BY <1>1 DEF PSInv, ListInv
<1>9. LoopInv'
    <2> SUFFICES ASSUME NEW q \in Publisher, ppc[q] = "send"
                 PROVE  /\ at'[q] \in 1..(Len(subs) + 1)
                        /\ q \notin TryPublisher => \A i \in 1..(at'[q] - 1) : q \in got'[subs[i]]
        BY <1>1 DEF LoopInv
    <2>1. /\ at[q] \in 1..(Len(subs) + 1)
          /\ q \notin TryPublisher => \A i \in 1..(at[q] - 1) : q \in got[subs[i]]
        BY DEF PSInv, LoopInv
    <2>2. CASE q = p
        <3>1. at'[q] = at[p] + 1 /\ at'[q] - 1 = at[p]
            BY <1>1, <1>2, <2>2 DEF PSInv, TypeInv
        <3>2. ASSUME q \notin TryPublisher, NEW i \in 1..at[p]
              PROVE  q \in got'[subs[i]]
            <4>1. CASE i = at[p]
                BY <1>6, <2>2, <3>2, <4>1
            <4>2. CASE i # at[p]
                <5>1. i \in 1..(at[p] - 1) /\ i \in 1..Len(subs)
                    BY <1>2, <4>2
                <5> QED BY <1>3, <1>5, <2>1, <2>2, <3>2, <5>1
            <4> QED BY <4>1, <4>2
        <3>3. at'[q] \in 1..(Len(subs) + 1)
            BY <1>2, <3>1
        <3> QED BY <3>1, <3>2, <3>3
    <2>3. CASE q # p
        <3>1. at'[q] = at[q]
            BY <1>1, <2>3 DEF PSInv, TypeInv
        <3>2. \A i \in 1..(at[q] - 1) : i \in 1..Len(subs)
            BY <1>2, <2>1
        <3> QED BY <1>3, <1>5, <2>1, <3>1, <3>2
    <2> QED BY <2>2, <2>3
<1>10. ReachesAll'
    BY <1>1, <1>5 DEF PSInv, TypeInv, ReachesAll
<1>11. StopInv'
    BY <1>1, StopFrame DEF Running
<1> QED BY <1>7, <1>8, <1>9, <1>10, <1>11 DEF PSInv

LEMMA LeaveStep ==
    ASSUME PSInv, NEW p \in Publisher, Leave(p) PROVE PSInv'
<1>1. /\ UNCHANGED <<topic, subs, closed, at, got, through, upc, target, todo, work>>
      /\ ppc[p] = "send" /\ ppc' = [ppc EXCEPT ![p] = "done"]
      /\ readers' = readers \ {p}
      /\ \/ result' = [result EXCEPT ![p] = "nil"] /\ at[p] > Len(subs)
         \/ result' = [result EXCEPT ![p] = "closed"]
         \/ result' = [result EXCEPT ![p] = "ctx"]
    BY DEF Leave, Return, Go, topicVars, subVars, userVars, history
<1>2. TypeInv'
    <2>1. ppc' \in [Publisher -> {"new", "find", "args", "rlock", "send", "done"}]
        BY <1>1 DEF PSInv, TypeInv
    <2>2. result' \in [Publisher -> Results]
        BY <1>1 DEF PSInv, TypeInv, Results
    <2>3. readers' = {q \in Publisher : ppc'[q] = "send"}
        BY <1>1 DEF PSInv, TypeInv
    <2> QED BY <1>1, <2>1, <2>2, <2>3 DEF PSInv, TypeInv
<1>3. ListInv'
    BY <1>1 DEF PSInv, TypeInv, ListInv
<1>4. LoopInv'
    BY <1>1 DEF PSInv, TypeInv, LoopInv
<1>5. ReachesAll'
    <2>1. ASSUME at[p] > Len(subs), p \notin TryPublisher, NEW s \in through[p]
          PROVE  p \in got[s]
        <3>1. Len(subs) \in Nat /\ DOMAIN subs = 1..Len(subs)
            BY LenProperties DEF PSInv, TypeInv
        <3>2. at[p] - 1 = Len(subs)
            BY <1>1, <2>1, <3>1 DEF PSInv, TypeInv, LoopInv
        <3>3. s \in ToSet(subs)
            BY <1>1 DEF PSInv, ListInv
        <3>4. PICK i \in 1..Len(subs) : subs[i] = s
            BY <3>1, <3>3 DEF ToSet
        <3> QED BY <1>1, <2>1, <3>2, <3>4 DEF PSInv, LoopInv
    <2>2. ASSUME NEW q \in Publisher \ TryPublisher, result'[q] = "nil", NEW s \in through[q]
          PROVE  q \in got[s]
        <3>1. CASE result[q] = "nil"
            BY <3>1 DEF PSInv, ReachesAll
        <3>2. CASE result[q] # "nil"
            <4>1. q = p /\ at[p] > Len(subs)
                BY <1>1, <2>2, <3>2 DEF PSInv, TypeInv
            <4> QED BY <2>1, <4>1
        <3> QED BY <3>1, <3>2
    <2> QED BY <1>1, <2>2 DEF ReachesAll
<1>6. StopInv'
    BY <1>1, StopFrame DEF Running
<1> QED BY <1>2, <1>3, <1>4, <1>5, <1>6 DEF PSInv

\* Workers, contexts, and a step of nobody.
LEMMA WorkStep ==
    ASSUME PSInv, UNCHANGED <<topic, subs, readers, closed, ppc, at, result, got, through,
                              upc, target, todo>>,
           \/ work' = work
           \/ \E w \in Worker :
                 /\ work[w] \in {"receive", "handle"}
                 /\ \E place \in {"receive", "handle", "done"} :
                       work' = [work EXCEPT ![w] = place]
    PROVE  PSInv'
<1>1. TypeInv'
    BY DEF PSInv, TypeInv
<1>2. \A s \in Subscriber : (Running(s))' \subseteq Running(s)
    BY DEF PSInv, TypeInv, Running
<1>3. StopInv'
    BY <1>2, StopFrame
<1>4. ReachInv'
    BY ReachFrame
<1> QED BY <1>1, <1>3, <1>4 DEF PSInv, ReachInv
-----------------------------------------------------------------------------
\* A user's step: its place changes and, for most, nothing that publishers and
\* lists know of.
Places == {"new", "subscribe", "append", "idle", "start", "spawn", "stop", "remove",
           "cancel", "wait", "stopped", "exit", "snapshot", "next", "closed"}

LEMMA UserFrame ==
    ASSUME PSInv, UNCHANGED <<topic, subs, readers, ppc, at, result, got, through>>,
           NEW u \in User, NEW from \in Places \ {"new"}, NEW to \in Places, Step(u, from, to),
           target' \in [User -> Subscriber \cup {None}], todo' \in Seq(Subscriber),
           work' \in [Worker -> {"none", "receive", "handle", "done"}], closed' \in BOOLEAN,
           StopInv'
    PROVE  PSInv'
<1>1. upc' \in [User -> Places]
    BY DEF PSInv, TypeInv, Step, Places
<1>2. TypeInv'
    BY <1>1 DEF PSInv, TypeInv, Places
<1>3. \A s \in Subscriber : upc'[s] # "new" => upc[s] # "new"
    BY DEF PSInv, TypeInv, Step, User
<1>4. ReachInv'
    BY <1>3, ReachFrame
<1> QED BY <1>2, <1>4 DEF PSInv, ReachInv

\* A subscriber's user that neither begins to stop it nor has stopped it.
LEMMA StopKeeps ==
    ASSUME PSInv, NEW s \in Subscriber, NEW from \in Places, NEW to \in Places, Step(s, from, to),
           to \in {"subscribe", "append", "idle", "start", "spawn"},
           UNCHANGED <<target, closed>>,
           to \in {"start", "spawn"} /\ Orderly => ~closed,
           \A x \in Subscriber : (Running(x))' \subseteq Running(x)
    PROVE  StopInv'
<1>1. /\ \A u \in User : upc'[u] = IF u = s THEN to ELSE upc[u]
      /\ upc'[Closer] = upc[Closer]
    BY NamesAssumption DEF PSInv, TypeInv, Step, User
<1>2. Orderly => StoppedForGood'
    <2> SUFFICES ASSUME Orderly, NEW u \in User, NEW x \in Subscriber,
                        \/ u = x /\ upc'[u] = "stopped"
                        \/ u = Closer /\ upc'[u] \in {"next", "closed"} /\ target[u] = x
                 PROVE  (Running(x))' = {}
        BY DEF StoppedForGood
    <2>1. u # s
        BY <1>1, NamesAssumption
    <2>2. Running(x) = {}
        BY <1>1, <2>1 DEF PSInv, StopInv, StoppedForGood
    <2> QED BY <2>2
<1>3. \A u \in User : upc'[u] \in {"stop", "remove", "cancel", "wait", "stopped"} =>
          target[u] \in Subscriber /\ (u # Closer => target[u] = u)
    BY <1>1 DEF PSInv, StopInv
<1>4. Orderly /\ closed => \A x \in Subscriber : upc'[x] \notin {"start", "spawn"}
    BY <1>1 DEF PSInv, StopInv, User
<1> QED BY <1>1, <1>2, <1>3, <1>4 DEF PSInv, StopInv

LEMMA SubscribeStep ==
    ASSUME PSInv, NEW s \in Subscriber, CallSubscribe(s) PROVE PSInv'
<1>1. /\ UNCHANGED <<subs, readers, closed, ppc, at, result, got, through, target, todo, work>>
      /\ topic' = TRUE /\ Step(s, "new", "subscribe")
    BY DEF CallSubscribe, topicVars, subVars, pubVars, history
<1>2. StopInv'
    BY <1>1, StopKeeps DEF Places, Running
<1>3. upc' \in [User -> Places]
    BY <1>1 DEF PSInv, TypeInv, Step, Places
<1>4. TypeInv'
    BY <1>1, <1>3 DEF PSInv, TypeInv, Places
<1>5. ListInv' /\ LoopInv' /\ ReachesAll'
    <2>1. ListInv'
        BY <1>1 DEF PSInv, ListInv
    <2>2. LoopInv'
        BY <1>1 DEF PSInv, LoopInv
    <2>3. ReachesAll'
        BY <1>1 DEF PSInv, ReachesAll
    <2> QED BY <2>1, <2>2, <2>3
<1> QED BY <1>2, <1>4, <1>5 DEF PSInv

\* No publisher is in its loop while the list is written.
LEMMA NobodyInside ==
    ASSUME PSInv, readers = {}
    PROVE  \A p \in Publisher : ppc[p] # "send"
    BY DEF PSInv, TypeInv

LEMMA AppendStep ==
    ASSUME PSInv, NEW s \in Subscriber, AppendSub(s) PROVE PSInv'
<1>1. /\ UNCHANGED <<topic, readers, closed, ppc, at, result, got, through, target, todo, work>>
      /\ Step(s, "append", "idle") /\ readers = {}
      /\ subs' = Append(subs, s)
    BY DEF AppendSub, topicVars, subVars, pubVars, history
<1>2. StopInv'
    BY <1>1, StopKeeps DEF Places, Running
<1>3. upc' \in [User -> Places]
    BY <1>1 DEF PSInv, TypeInv, Step, Places
<1>4. /\ subs' \in Seq(Subscriber) /\ subs \in Seq(Subscriber)
      /\ Len(subs') = Len(subs) + 1 /\ \A i \in 1..Len(subs) : subs'[i] = subs[i]
    BY <1>1, AppendProperties DEF PSInv, TypeInv
<1>5. ToSet(subs) \subseteq ToSet(subs')
    <2>1. DOMAIN subs = 1..Len(subs) /\ DOMAIN subs' = 1..Len(subs') /\ Len(subs) \in Nat
        BY <1>4, LenProperties
    <2>2. \A i \in 1..Len(subs) : i \in 1..Len(subs')
        BY <1>4, <2>1
    <2> QED BY <1>4, <2>1, <2>2 DEF ToSet
<1>6. TypeInv'
    BY <1>1, <1>3, <1>4 DEF PSInv, TypeInv, Places
<1>7. topic
    BY <1>1 DEF PSInv, ListInv, Step
<1>8. ListInv'
    BY <1>1, <1>5, <1>7 DEF PSInv, ListInv
<1>9. LoopInv'
    BY <1>1, NobodyInside DEF LoopInv
<1>10. ReachesAll'
    BY <1>1 DEF PSInv, ReachesAll
<1> QED BY <1>2, <1>6, <1>8, <1>9, <1>10 DEF PSInv

LEMMA StartStep ==
    ASSUME PSInv, NEW s \in Subscriber, CallStart(s) \/ SetCancel(s) \/ Spawn(s) PROVE PSInv'
<1>1. /\ UNCHANGED <<topic, subs, readers, closed, ppc, at, result, got, through, target, todo>>
      /\ s \in User
    BY DEF CallStart, SetCancel, Spawn, topicVars, pubVars, history, User
<1>2. CASE CallStart(s)
    <2>1. /\ work' = work
          /\ Step(s, "idle", "idle") \/ Step(s, "idle", "start")
          /\ Orderly => ~closed
        BY <1>2 DEF CallStart, Quiet
    <2>2. StopInv'
        BY <1>1, <2>1, StopKeeps DEF Places, Running
    <2> QED BY <1>1, <2>1, <2>2, UserFrame DEF PSInv, TypeInv, Places
<1>3. CASE SetCancel(s)
    <2>1. work' = work /\ Step(s, "start", "spawn")
        BY <1>3 DEF SetCancel
    <2>2. Orderly => ~closed
        BY <2>1 DEF PSInv, StopInv, Step
    <2>3. StopInv'
        BY <1>1, <2>1, <2>2, StopKeeps DEF Places, Running
    <2> QED BY <1>1, <2>1, <2>3, UserFrame DEF PSInv, TypeInv, Places
<1>4. CASE Spawn(s)
    <2>1. /\ Step(s, "spawn", "idle")
          /\ work' = [w \in Worker |-> IF w[1] = s THEN "receive" ELSE work[w]]
        BY <1>4 DEF Spawn
    <2>2. work' \in [Worker -> {"none", "receive", "handle", "done"}]
        BY <2>1 DEF PSInv, TypeInv
    <2>3. /\ \A u \in User : upc'[u] = IF u = s THEN "idle" ELSE upc[u]
          /\ upc'[Closer] = upc[Closer]
        BY <2>1, NamesAssumption DEF PSInv, TypeInv, Step, User
    <2>4. Orderly => target[Closer] = None
        BY <2>1 DEF PSInv, StopInv, Step
    <2>5. Orderly => StoppedForGood'
        <3> SUFFICES ASSUME Orderly, NEW u \in User, NEW x \in Subscriber,
                            \/ u = x /\ upc'[u] = "stopped"
                            \/ u = Closer /\ upc'[u] \in {"next", "closed"} /\ target[u] = x
                     PROVE  (Running(x))' = {}
            BY <1>1 DEF StoppedForGood
        <3>1. u = x /\ x # s /\ upc[u] = "stopped"
            BY <2>3, <2>4, NamesAssumption
        <3>2. Running(x) = {}
            BY <3>1 DEF PSInv, StopInv, StoppedForGood
        <3>3. (Running(x))' = Running(x)
            BY <2>1, <3>1 DEF Running
        <3> QED BY <3>2, <3>3
    <2>6. \A u \in User : upc'[u] \in {"stop", "remove", "cancel", "wait", "stopped"} =>
              target[u] \in Subscriber /\ (u # Closer => target[u] = u)
        BY <2>3 DEF PSInv, StopInv
    <2>7. Orderly /\ closed => \A x \in Subscriber : upc'[x] \notin {"start", "spawn"}
        BY <2>3 DEF PSInv, StopInv, User
    <2>8. StopInv'
        BY <1>1, <2>3, <2>5, <2>6, <2>7 DEF PSInv, StopInv
    <2> QED BY <1>1, <2>1, <2>2, <2>8, UserFrame DEF PSInv, TypeInv, Places
<1> QED BY <1>2, <1>3, <1>4

\* A user on its way through Stop: it has not returned yet.
LEMMA StopGoes ==
    ASSUME PSInv, NEW u \in User, NEW from \in Places, Step(u, from, "stop")
                  \/ Step(u, from, "remove") \/ Step(u, from, "cancel") \/ Step(u, from, "wait")
                  \/ Step(u, from, "append"),
           from # "new",
           \A v \in User : v # u => target'[v] = target[v],
           upc'[u] # "append" => target'[u] \in Subscriber /\ (u # Closer => target'[u] = u),
           UNCHANGED <<closed, work>>
    PROVE  StopInv'
<1>1. /\ \A v \in User : v # u => upc'[v] = upc[v]
      /\ upc'[u] \in {"stop", "remove", "cancel", "wait", "append"} /\ upc[u] = from
    BY DEF PSInv, TypeInv, Step
<1>2. Closer \in User /\ Subscriber \subseteq User
    BY DEF User
<1>3. Orderly => StoppedForGood'
    <2> SUFFICES ASSUME Orderly, NEW v \in User, NEW x \in Subscriber,
                        \/ v = x /\ upc'[v] = "stopped"
                        \/ v = Closer /\ upc'[v] \in {"next", "closed"} /\ target'[v] = x
                 PROVE  (Running(x))' = {}
        BY DEF StoppedForGood
    <2>1. v # u
        BY <1>1
    <2>2. Running(x) = {}
        BY <1>1, <2>1 DEF PSInv, StopInv, StoppedForGood
    <2> QED BY <2>2 DEF Running
<1>4. \A v \in User : upc'[v] \in {"stop", "remove", "cancel", "wait", "stopped"} =>
          target'[v] \in Subscriber /\ (v # Closer => target'[v] = v)
    BY <1>1 DEF PSInv, StopInv
<1>5. /\ upc'[Closer] \in {"new", "exit", "snapshot"} => target'[Closer] = None
      /\ upc'[Closer] # "new" => closed
    BY <1>1, <1>2 DEF PSInv, StopInv
<1>6. Orderly /\ closed => \A x \in Subscriber : upc'[x] \notin {"start", "spawn"}
    BY <1>1, <1>2 DEF PSInv, StopInv
<1> QED BY <1>3, <1>4, <1>5, <1>6 DEF StopInv

LEMMA StopStep ==
    ASSUME PSInv, NEW u \in User, (u \in Subscriber /\ CallStop(u)) \/ Announce(u) \/ Cancel(u)
    PROVE  PSInv'
<1>1. /\ UNCHANGED <<topic, subs, readers, closed, ppc, at, result, got, through, todo, work>>
      /\ \/ u \in Subscriber /\ Step(u, "idle", "stop") /\ target' = [target EXCEPT ![u] = u]
         \/ Step(u, "subscribe", "append") /\ target' = target
         \/ Step(u, "stop", "remove") /\ target' = target
         \/ Step(u, "cancel", "wait") /\ target' = target
    BY DEF CallStop, Announce, Cancel, topicVars, subVars, pubVars, history
<1>2. target' \in [User -> Subscriber \cup {None}]
    BY <1>1 DEF PSInv, TypeInv
<1>3. \A v \in User : v # u => target'[v] = target[v]
    BY <1>1 DEF PSInv, TypeInv
<1>4. upc'[u] # "append" => target'[u] \in Subscriber /\ (u # Closer => target'[u] = u)
    BY <1>1, NamesAssumption DEF PSInv, TypeInv, StopInv, Step
<1>5. StopInv'
    BY <1>1, <1>3, <1>4, StopGoes DEF Places
<1> QED BY <1>1, <1>2, <1>5, UserFrame DEF PSInv, TypeInv, Places

LEMMA RemoveStep ==
    ASSUME PSInv, NEW u \in User, RemoveSub(u) PROVE PSInv'
<1> DEFINE s == target[u]
<1>1. /\ UNCHANGED <<topic, readers, closed, ppc, at, result, got, target, todo, work>>
      /\ Step(u, "remove", "cancel") /\ readers = {}
      /\ RemoveSubscriber(s)
      /\ through' = [p \in Publisher |-> through[p] \ {s}]
    BY DEF RemoveSub, topicVars, subVars, pubVars
<1>2. s \in Subscriber /\ (u # Closer => s = u)
    BY <1>1 DEF PSInv, StopInv, Step
<1>3. StopInv'
    BY <1>1, <1>2, StopGoes DEF Places
<1>4. subs' \in Seq(Subscriber) /\ ToSet(subs) \ {s} \subseteq ToSet(subs')
    <2>1. CASE UNCHANGED subs
        BY <2>1 DEF PSInv, TypeInv
    <2>2. ASSUME NEW i \in 1..Len(subs), subs[i] = s, subs' = RemoveAt(subs, i)
          PROVE  subs' \in Seq(Subscriber) /\ ToSet(subs) \ {s} \subseteq ToSet(subs')
        BY <2>2, WithoutOne DEF PSInv, TypeInv
    <2> QED BY <1>1, <2>1, <2>2 DEF RemoveSubscriber
<1>5. upc' \in [User -> Places]
    BY <1>1 DEF PSInv, TypeInv, Step, Places
<1>6. through' \in [Publisher -> SUBSET Subscriber]
    BY <1>1 DEF PSInv, TypeInv
<1>7. TypeInv'
    BY <1>1, <1>4, <1>5, <1>6 DEF PSInv, TypeInv, Places
<1>8. ListInv'
    <2>1. subs' # <<>> => topic
        <3>1. subs = <<>> => subs' = <<>>
            BY <1>1, EmptySeq DEF RemoveSubscriber
        <3> QED BY <3>1 DEF PSInv, ListInv
    <2>2. \A x \in Subscriber : upc'[x] # "new" => topic
        BY <1>1 DEF PSInv, TypeInv, ListInv, Step, User
    <2>3. \A p \in Publisher : ppc[p] \in {"find", "args", "rlock", "send"} =>
              result[p] = "none" /\ through'[p] \subseteq ToSet(subs')
        BY <1>1, <1>4 DEF PSInv, ListInv
    <2> QED BY <1>1, <2>1, <2>2, <2>3 DEF PSInv, ListInv
<1>9. LoopInv'
    BY <1>1, NobodyInside DEF LoopInv
<1>10. ReachesAll'
    BY <1>1 DEF PSInv, ReachesAll
<1> QED BY <1>3, <1>7, <1>8, <1>9, <1>10 DEF PSInv

LEMMA WaitedStep ==
    ASSUME PSInv, NEW u \in User, Waited(u) PROVE PSInv'
<1>1. /\ UNCHANGED <<topic, subs, readers, closed, ppc, at, result, got, through,
                     target, todo, work>>
      /\ Step(u, "wait", IF u = Closer THEN "next" ELSE "stopped")
      /\ Running(target[u]) = {}
    BY DEF Waited, topicVars, subVars, pubVars, history
<1>2. /\ \A v \in User : v # u => upc'[v] = upc[v]
      /\ upc'[u] = IF u = Closer THEN "next" ELSE "stopped"
      /\ upc[u] = "wait"
    BY <1>1 DEF PSInv, TypeInv, Step
<1>3. target[u] \in Subscriber /\ (u # Closer => target[u] = u)
    BY <1>2 DEF PSInv, StopInv
<1>4. Closer \in User /\ Subscriber \subseteq User
    BY DEF User
<1>5. Orderly => StoppedForGood'
    <2> SUFFICES ASSUME Orderly, NEW v \in User, NEW x \in Subscriber,
                        \/ v = x /\ upc'[v] = "stopped"
                        \/ v = Closer /\ upc'[v] \in {"next", "closed"} /\ target[v] = x
                 PROVE  (Running(x))' = {}
        BY <1>1 DEF StoppedForGood
    <2>1. CASE v = u
        <3>1. target[u] = x
            BY <1>2, <1>3, <2>1
        <3> QED BY <1>1, <3>1 DEF Running
    <2>2. CASE v # u
        <3>1. Running(x) = {}
            BY <1>2, <2>2 DEF PSInv, StopInv, StoppedForGood
        <3> QED BY <1>1, <3>1 DEF Running
    <2> QED BY <2>1, <2>2
<1>6. StopInv'
    <2>1. \A v \in User : upc'[v] \in {"stop", "remove", "cancel", "wait", "stopped"} =>
              target[v] \in Subscriber /\ (v # Closer => target[v] = v)
        BY <1>2, <1>3 DEF PSInv, StopInv
    <2>2. /\ upc'[Closer] \in {"new", "exit", "snapshot"} => target[Closer] = None
          /\ upc'[Closer] # "new" => closed
        BY <1>2, <1>4 DEF PSInv, StopInv
    <2>3. Orderly /\ closed => \A x \in Subscriber : upc'[x] \notin {"start", "spawn"}
        BY <1>2, <1>4 DEF PSInv, StopInv
    <2> QED BY <1>1, <1>5, <2>1, <2>2, <2>3 DEF StopInv
<1> QED BY <1>1, <1>6, UserFrame DEF PSInv, TypeInv, Places

\* Close before it stops anybody, and after.
LEMMA CloseGoes ==
    ASSUME PSInv, NEW from \in Places, NEW to \in Places, Step(Closer, from, to),
           UNCHANGED <<target, work>>, closed' \in BOOLEAN, closed',
           to \in {"exit", "snapshot"} => from \in {"new", "exit"},
           to = "next" => from = "snapshot",
           to = "closed" => from \in {"snapshot", "next"},
           to \in {"exit", "snapshot", "next", "closed"},
           Orderly => \A s \in Subscriber : upc[s] \notin {"start", "spawn"}
    PROVE  StopInv'
<1>1. /\ \A v \in User : v # Closer => upc'[v] = upc[v]
      /\ upc'[Closer] = to /\ upc[Closer] = from
      /\ Closer \in User /\ Subscriber \subseteq User
      /\ \A s \in Subscriber : upc'[s] = upc[s]
    BY NamesAssumption DEF PSInv, TypeInv, Step, User
<1>2. Orderly => StoppedForGood'
    <2> SUFFICES ASSUME Orderly, NEW v \in User, NEW x \in Subscriber,
                        \/ v = x /\ upc'[v] = "stopped"
                        \/ v = Closer /\ upc'[v] \in {"next", "closed"} /\ target[v] = x
                 PROVE  (Running(x))' = {}
        BY DEF StoppedForGood
    <2>1. \/ v = x /\ upc[v] = "stopped"
          \/ v = Closer /\ upc[v] \in {"next", "closed"} /\ target[v] = x
        BY <1>1, NamesAssumption DEF PSInv, StopInv
    <2>2. Running(x) = {}
        BY <2>1 DEF PSInv, StopInv, StoppedForGood
    <2> QED BY <2>2 DEF Running
<1>3. \A v \in User : upc'[v] \in {"stop", "remove", "cancel", "wait", "stopped"} =>
          target[v] \in Subscriber /\ (v # Closer => target[v] = v)
    BY <1>1 DEF PSInv, StopInv
<1>4. upc'[Closer] \in {"new", "exit", "snapshot"} => target[Closer] = None
    BY <1>1 DEF PSInv, StopInv
<1> QED BY <1>1, <1>2, <1>3, <1>4 DEF StopInv

LEMMA CallCloseStep == PSInv /\ CallClose => PSInv'
<1> SUFFICES ASSUME PSInv, CallClose PROVE PSInv'
    OBVIOUS
<1>1. /\ UNCHANGED <<topic, subs, readers, ppc, at, result, got, through, target, todo, work>>
      /\ Step(Closer, "new", "exit") /\ closed' = TRUE
      /\ Orderly => \A s \in Subscriber : upc[s] \notin {"start", "spawn"}
    BY DEF CallClose, topicVars, subVars, pubVars, history
<1>2. StopInv'
    BY <1>1, CloseGoes DEF Places
<1>3. upc' \in [User -> Places]
    BY <1>1 DEF PSInv, TypeInv, Step, Places
<1>4. TypeInv'
    BY <1>1, <1>3 DEF PSInv, TypeInv, Places
<1>5. \A s \in Subscriber : upc'[s] # "new" => upc[s] # "new"
    BY <1>1, NamesAssumption DEF PSInv, TypeInv, Step, User
<1>6. ReachInv'
    BY <1>1, <1>5, ReachFrame
<1> QED BY <1>2, <1>4, <1>6 DEF PSInv, ReachInv

LEMMA CloserStep == PSInv /\ (CloseExit \/ NoTopic \/ Snapshot \/ CloseNext) => PSInv'
<1> SUFFICES ASSUME PSInv, CloseExit \/ NoTopic \/ Snapshot \/ CloseNext PROVE PSInv'
    OBVIOUS
<1>1. /\ UNCHANGED <<topic, subs, readers, closed, ppc, at, result, got, through, work>>
      /\ \/ Step(Closer, "exit", "snapshot") /\ UNCHANGED <<target, todo>>
         \/ Step(Closer, "snapshot", "closed") /\ UNCHANGED <<target, todo>>
         \/ Step(Closer, "snapshot", "next") /\ target' = target /\ todo' = subs
         \/ Step(Closer, "next", "closed") /\ UNCHANGED <<target, todo>>
         \/ /\ Step(Closer, "next", "stop") /\ todo # <<>>
            /\ target' = [target EXCEPT ![Closer] = Head(todo)] /\ todo' = Tail(todo)
    BY DEF CloseExit, NoTopic, Snapshot, CloseNext, topicVars, subVars, pubVars, history
<1>2. Closer \in User
    BY DEF User
<1>3. closed /\ (Orderly => \A s \in Subscriber : upc[s] \notin {"start", "spawn"})
    BY <1>1 DEF PSInv, StopInv, Step
<1>4. CASE todo # <<>> /\ Step(Closer, "next", "stop")
           /\ target' = [target EXCEPT ![Closer] = Head(todo)] /\ todo' = Tail(todo)
    <2>1. Head(todo) \in Subscriber /\ todo' \in Seq(Subscriber)
        BY <1>4, HeadTailProperties DEF PSInv, TypeInv
    <2>2. /\ target' \in [User -> Subscriber \cup {None}]
          /\ \A v \in User : v # Closer => target'[v] = target[v]
          /\ target'[Closer] \in Subscriber
        BY <1>2, <1>4, <2>1 DEF PSInv, TypeInv
    <2>3. StopInv'
        BY <1>1, <1>2, <1>4, <2>2, StopGoes DEF Places
    <2> QED BY <1>1, <1>2, <1>4, <2>1, <2>2, <2>3, UserFrame DEF PSInv, TypeInv, Places
<1>5. CASE target' = target /\ todo' \in {todo, subs}
           /\ \/ Step(Closer, "exit", "snapshot") \/ Step(Closer, "snapshot", "closed")
              \/ Step(Closer, "snapshot", "next") \/ Step(Closer, "next", "closed")
    <2>1. StopInv'
        BY <1>1, <1>3, <1>5, CloseGoes DEF Places
    <2>2. todo' \in Seq(Subscriber)
        BY <1>5 DEF PSInv, TypeInv
    <2> QED BY <1>1, <1>2, <1>5, <2>1, <2>2, UserFrame DEF PSInv, TypeInv, Places
<1> QED BY <1>1, <1>4, <1>5
-----------------------------------------------------------------------------
LEMMA NextPSInv == PSInv /\ [Next]_vars => PSInv'
<1> SUFFICES ASSUME PSInv, [Next]_vars PROVE PSInv'
    OBVIOUS
<1>1. ASSUME NEW p \in Publisher, Call(p) \/ Publishing(p) PROVE PSInv'
    BY <1>1, CallStep, FindStep, RLockStep, SendStep, LeaveStep DEF Publishing
<1>2. ASSUME NEW p \in Publisher, Expire(p) PROVE PSInv'
    BY <1>2, WorkStep DEF Expire, topicVars, subVars, userVars, history
<1>3. ASSUME NEW s \in Subscriber, CallSubscribe(s) \/ CallStart(s) PROVE PSInv'
    BY <1>3, SubscribeStep, StartStep
<1>4. ASSUME NEW s \in Subscriber, CallStop(s) PROVE PSInv'
    BY <1>4, StopStep DEF User
<1>5. ASSUME NEW s \in Subscriber, ParentDone(s) PROVE PSInv'
    BY <1>5, WorkStep DEF ParentDone, topicVars, pubVars, userVars, history
<1>6. ASSUME NEW u \in User, Proceed(u) PROVE PSInv'
    <2>1. CASE u # Closer /\ (AppendSub(u) \/ SetCancel(u) \/ Spawn(u))
        BY <2>1, AppendStep, StartStep DEF User
    <2>2. CASE Announce(u) \/ Cancel(u)
        BY <2>2, StopStep
    <2>3. CASE RemoveSub(u) \/ Waited(u)
        BY <2>3, RemoveStep, WaitedStep
    <2>4. CASE CloseExit \/ NoTopic \/ Snapshot \/ CloseNext
        BY <2>4, CloserStep
    <2> QED BY <1>6, <2>1, <2>2, <2>3, <2>4 DEF Proceed
<1>7. ASSUME NEW w \in Worker, Working(w) PROVE PSInv'
    <2>1. /\ UNCHANGED <<topic, subs, readers, closed, ppc, at, result, got, through,
                         upc, target, todo>>
          /\ work[w] \in {"receive", "handle"}
          /\ \E place \in {"receive", "handle", "done"} : work' = [work EXCEPT ![w] = place]
        BY <1>7 DEF Working, Receive, Handled, Exit, topicVars, pubVars, userVars, history
    <2> QED BY <2>1, WorkStep
<1>8. CASE UNCHANGED vars
    BY <1>8, WorkStep DEF vars, topicVars, subVars, pubVars, userVars, history
<1> QED BY <1>1, <1>2, <1>3, <1>4, <1>5, <1>6, <1>7, <1>8, CallCloseStep DEF Next, Calls

THEOREM PSInvAlways == Spec => []PSInv
    BY InitPSInv, NextPSInv, PTL DEF Spec

\* A Publish that returned nil has sent its message to every subscriber that
\* was registered throughout the call, whatever was started, stopped and
\* closed meanwhile, Orderly or not.
THEOREM NilReachesAll == Spec => []ReachesAll
<1>1. PSInv => ReachesAll
    BY DEF PSInv
<1> QED BY <1>1, PSInvAlways, PTL

\* After a Stop, or the part of Close that stops it, no worker of a subscriber
\* receives or handles, provided that no Start overlaps them or comes later.
THEOREM StoppedIsFinal ==
    ASSUME Orderly
    PROVE  Spec => []StoppedForGood
<1>1. PSInv => StoppedForGood
    BY DEF PSInv, StopInv
<1> QED BY <1>1, PSInvAlways, PTL
=============================================================================
