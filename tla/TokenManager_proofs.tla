------------------------- MODULE TokenManager_proofs ------------------------
(***************************************************************************)
(* Proofs about TokenManager, for any number of calls, users, identifiers, *)
(* options and retries.  What makes the properties inductive is how a call *)
(* under way fits what Redis holds by the time its script runs: the pair   *)
(* it is about to write is nobody else's (NewAlone), the session a Create  *)
(* is about to write is known to no other call (CreateAlone), and a token  *)
(* that a call has returned is never written again (Settled, below).       *)
(***************************************************************************)
EXTENDS TokenManager, TLAPS

Pending(c) == op[c].pc = "script" /\ op[c].kind \in {"create", "refresh"}

\* A refresh token and its session expire together.
SameLife == \A g \in Id : refresh[g] # None =>
                refresh[g].exp = session[refresh[g].sid].exp

\* Whatever is stored, returned or about to be written has been generated.
AllUsed ==
    /\ known \subseteq used
    /\ \A s \in Id : session[s] # None => s \in used /\ session[s].pair \in used
    /\ \A g \in Id : access[g] # None => access[g].sid \in used
    /\ \A c \in Client : op[c].pc \in {"load", "script"} => op[c].sid \in used
    /\ \A c \in Client : Pending(c) => op[c].new \in used

\* Which kinds of call are where, and with what.
CallShape == \A c \in Client :
    /\ op[c].pc \in {"lookup", "load"} => op[c].kind \in {"verify", "refresh", "revoke"}
    /\ op[c].pc = "script" => op[c].kind \in {"create", "refresh", "revoke"}
                              /\ op[c].user \in User
    /\ op[c].kind \in {"verify", "refresh", "revoke"} => op[c].arg \in known
    /\ op[c].kind = "revoke" => op[c].new = None
    /\ op[c].kind = "create" => op[c].new = op[c].sid

\* The pair a Create or Refresh is about to write: nobody has been given it,
\* no other call writes it, and only the session of the call can name it.
NewAlone == \A c \in Client : Pending(c) =>
    /\ op[c].new \notin known
    /\ \A d \in Client : Pending(d) /\ op[d].new = op[c].new => d = c
    /\ \A s \in Id : session[s] # None /\ session[s].pair = op[c].new => s = op[c].sid

\* The session a Create is about to write, perhaps again: no other call has
\* it, and what leads to it is the pair of that Create.
CreateAlone == \A c \in Client : op[c].pc = "script" /\ op[c].kind = "create" =>
    /\ \A d \in Client : op[d].pc \in {"load", "script"} /\ op[d].sid = op[c].sid => d = c
    /\ \A g \in Id : access[g] # None /\ access[g].sid = op[c].sid => g = op[c].sid
    /\ session[op[c].sid] # None => session[op[c].sid].pair = op[c].sid

\* Refresh has the user of the session it read.
UserFits == \A c \in Client :
    op[c].pc = "script" /\ op[c].kind = "refresh" /\ session[op[c].sid] # None
        => session[op[c].sid].user = op[c].user

\* Revoke has the session of its token, as long as the token has one.
SidStays == \A c \in Client :
    op[c].kind = "revoke" /\ op[c].pc \in {"load", "script"} /\ access[op[c].arg] # None
        => access[op[c].arg].sid = op[c].sid

\* A Verify that would succeed now was given a valid token.
VerifyFits == \A c \in Client : op[c].kind = "verify" =>
    /\ op[c].pc = "lookup" /\ Valid(op[c].arg) => op[c].was
    /\ op[c].pc = "load" /\ Unchanged(op[c].sid, op[c].arg) => op[c].was

\* A token that was exchanged is the token of no session.
RotatedDead == \A r \in rotated :
    r[1] \in known /\ \A s \in Id : session[s] # None => session[s].pair # r[1]

RedisInv == UniqueKeyExact /\ IndexExact /\ SameLife

CallInv == /\ AllUsed /\ CallShape /\ NewAlone /\ CreateAlone
           /\ UserFits /\ SidStays /\ VerifyFits /\ VerifySound

IInv == TypeOK /\ RedisInv /\ CallInv /\ RevokeKills /\ RotatedDead /\ RefreshOnce

\* What a script of c may do: sessions and indexes stay or go, but for the
\* session and the pair of its own Create or Refresh.
Effect(c) ==
    /\ \A s \in Id : \/ session'[s] \in {session[s], None}
                     \/ /\ Pending(c) /\ s = op[c].sid
                        /\ session'[s] = [user |-> op[c].user, pair |-> op[c].new,
                                          exp |-> now + RTtl]
                        /\ op[c].kind = "refresh" => Unchanged(s, op[c].arg)
    /\ \A g \in Id : \/ access'[g] \in {access[g], None}
                     \/ /\ Pending(c) /\ g = op[c].new
                        /\ access'[g] = [sid |-> op[c].sid, exp |-> now + ATtl]

\* What a step does to the call of c when its script ran or was lost: the call
\* keeps its values, and ends if its pair is returned.
ScriptEnds(c) ==
    /\ op' \in [Client -> Call]
    /\ \A d \in Client : d # c => op'[d] = op[d]
    /\ op'[c].pc \in {"idle", "script"}
    /\ \A x \in {"kind", "arg", "sid", "user", "new"} : op'[c][x] = op[c][x]
    /\ known' = known \/ (known' = known \cup {op[c].new} /\ Pending(c)
                          /\ op'[c].pc = "idle")
    /\ UNCHANGED <<opt, now, used>>

\* A token that was returned is written by no step.
Settled == \A g \in known : /\ access'[g] \in {access[g], None}
                            /\ \A s \in Id : Unchanged(s, g)' => Unchanged(s, g)
-----------------------------------------------------------------------------
\* Nothing is stored and nobody calls at first.
LEMMA InitIInv == Init => IInv
<1> SUFFICES ASSUME Init PROVE IInv
    OBVIOUS
<1>1. TypeOK
    BY DEF Init, TypeOK, Idle, Call
<1>2. RedisInv
    BY DEF Init, RedisInv, UniqueKeyExact, IndexExact, SameLife
<1>3. CallInv
    BY DEF Init, Idle, Pending, CallInv, AllUsed, CallShape, NewAlone, CreateAlone,
           UserFits, SidStays, VerifyFits, VerifySound
<1>4. RevokeKills /\ RotatedDead /\ RefreshOnce
    BY DEF Init, Idle, RevokeKills, RotatedDead, RefreshOnce
<1> QED BY <1>1, <1>2, <1>3, <1>4 DEF IInv

\* The times of what is written.
LEMMA Times == ASSUME TypeOK
               PROVE  now + RTtl \in Nat /\ now + ATtl \in Nat /\ now + 1 \in Nat
<1>1. opt \in [unique : BOOLEAN, accessTtl : Nat \ {0}, refreshTtl : Nat \ {0}] /\ now \in Nat
    BY OptionAssumption DEF TypeOK
<1> QED BY <1>1 DEF RTtl, ATtl

\* None is not a value of a key.
LEMMA NotNone == /\ None \notin IndexKey /\ None \notin SessionHash
                 /\ None \notin Id /\ None \notin User
BY NoneAssumption DEF IndexKey, SessionHash

\* The values at hand when a script runs.
LEMMA ScriptValues ==
    ASSUME TypeOK, AllUsed, CallShape, NEW c \in Client, op[c].pc = "script"
    PROVE  /\ op[c].sid \in Id /\ op[c].user \in User
           /\ op[c].kind \in {"create", "refresh", "revoke"}
           /\ Pending(c) => op[c].new \in Id /\ op[c].new # None
           /\ op[c].kind # "create" => op[c].arg \in Id
BY NotNone DEF TypeOK, AllUsed, CallShape, Pending

\* Put writes keys of the right type.
LEMMA PutType ==
    ASSUME TypeOK, NEW u \in User, NEW s \in Id, NEW g \in Id, NEW gone, NEW pairs,
           Put(u, s, g, gone, pairs)
    PROVE  /\ session' \in [Id -> SessionHash \cup {None}]
           /\ access' \in [Id -> IndexKey \cup {None}]
           /\ refresh' \in [Id -> IndexKey \cup {None}]
           /\ unique' \in [User -> IndexKey \cup {None}]
<1> DEFINE hash == [user |-> u, pair |-> g, exp |-> now + RTtl]
           short == [sid |-> s, exp |-> now + ATtl]
           long == [sid |-> s, exp |-> now + RTtl]
<1>1. hash \in SessionHash /\ short \in IndexKey /\ long \in IndexKey
    BY Times DEF SessionHash, IndexKey
<1> HIDE DEF hash, short, long
<1>2. /\ session' = Write(session, gone, s, hash)
      /\ access' = Write(access, pairs, g, short)
      /\ refresh' = Write(refresh, pairs, g, long)
      /\ unique' \in {[unique EXCEPT ![u] = long], unique}
    BY DEF Put, hash, short, long
<1>3. session' \in [Id -> SessionHash \cup {None}]
    BY <1>1, <1>2 DEF TypeOK, Write
<1>4. access' \in [Id -> IndexKey \cup {None}]
    BY <1>1, <1>2 DEF TypeOK, Write
<1>5. refresh' \in [Id -> IndexKey \cup {None}]
    BY <1>1, <1>2 DEF TypeOK, Write
<1>6. unique' \in [User -> IndexKey \cup {None}]
    BY <1>1, <1>2 DEF TypeOK
<1> QED BY <1>3, <1>4, <1>5, <1>6

\* So does every script.
LEMMA ExecuteType ==
    ASSUME TypeOK, AllUsed, CallShape, NEW c \in Client, Execute(c)
    PROVE  /\ session' \in [Id -> SessionHash \cup {None}]
           /\ access' \in [Id -> IndexKey \cup {None}]
           /\ refresh' \in [Id -> IndexKey \cup {None}]
           /\ unique' \in [User -> IndexKey \cup {None}]
<1> DEFINE u == op[c].user
           s == op[c].sid
           g == op[c].arg
           new == op[c].new
<1>0. op[c].pc = "script"
    BY DEF Execute
<1>1. CASE op[c].kind = "create" /\ CreateScript(u, s)
    BY <1>0, <1>1, ScriptValues, PutType DEF CreateScript
<1>2. CASE op[c].kind = "refresh" /\ Unchanged(s, g) /\ Put(u, s, new, {}, {g})
    <2>1. u \in User /\ s \in Id /\ new \in Id
        BY <1>0, <1>2, ScriptValues DEF Pending
    <2> QED BY <1>2, <2>1, PutType
<1>3. CASE UNCHANGED redis
    BY <1>3 DEF TypeOK, redis
<1>4. CASE op[c].kind = "revoke" /\ RevokeScript(u, s, g)
    BY <1>0, <1>4, ScriptValues DEF RevokeScript, redis, TypeOK
<1> QED BY <1>1, <1>2, <1>3, <1>4 DEF Execute, RefreshScript

\* What Put leaves of the keys, key by key.
LEMMA PutKeys ==
    ASSUME TypeOK, NEW u \in User, NEW s \in Id, NEW g \in Id, NEW gone, NEW pairs,
           Put(u, s, g, gone, pairs)
    PROVE  /\ \A t \in Id : session'[t] =
                  IF t = s THEN [user |-> u, pair |-> g, exp |-> now + RTtl]
                  ELSE IF t \in gone THEN None ELSE session[t]
           /\ \A h \in Id : access'[h] =
                  IF h = g THEN [sid |-> s, exp |-> now + ATtl]
                  ELSE IF h \in pairs THEN None ELSE access[h]
           /\ \A h \in Id : refresh'[h] =
                  IF h = g THEN [sid |-> s, exp |-> now + RTtl]
                  ELSE IF h \in pairs THEN None ELSE refresh[h]
           /\ \A v \in User : unique'[v] =
                  IF Unique /\ v = u THEN [sid |-> s, exp |-> now + RTtl] ELSE unique[v]
BY DEF Put, Write, TypeOK

\* So all but the session and the pair it writes stay or go.
LEMMA PutEffect ==
    ASSUME TypeOK, NEW u \in User, NEW s \in Id, NEW g \in Id, NEW gone, NEW pairs,
           Put(u, s, g, gone, pairs)
    PROVE  /\ \A t \in Id : t # s => session'[t] \in {session[t], None}
           /\ session'[s] = [user |-> u, pair |-> g, exp |-> now + RTtl]
           /\ \A h \in Id : h # g => access'[h] \in {access[h], None}
           /\ access'[g] = [sid |-> s, exp |-> now + ATtl]
<1>1. /\ \A t \in Id : t # s => session'[t] \in {session[t], None}
      /\ session'[s] = [user |-> u, pair |-> g, exp |-> now + RTtl]
    BY DEF Put, Write, TypeOK
<1>2. /\ \A h \in Id : h # g => access'[h] \in {access[h], None}
      /\ access'[g] = [sid |-> s, exp |-> now + ATtl]
    BY DEF Put, Write, TypeOK
<1> QED BY <1>1, <1>2

\* A script does what Effect says.
LEMMA ExecuteEffect ==
    ASSUME TypeOK, AllUsed, CallShape, NEW c \in Client, Execute(c)
    PROVE  Effect(c)
<1> DEFINE u == op[c].user
           s == op[c].sid
           g == op[c].arg
           new == op[c].new
<1>0. op[c].pc = "script" /\ s \in Id /\ u \in User
    BY ScriptValues DEF Execute
<1>1. CASE op[c].kind = "create" /\ CreateScript(u, s)
    <2>1. Pending(c) /\ new = s
        BY <1>0, <1>1 DEF Pending, CallShape
    <2>2. PICK gone, pairs : Put(u, s, s, gone, pairs)
        BY <1>1 DEF CreateScript
    <2>3. /\ \A t \in Id : t # s => session'[t] \in {session[t], None}
          /\ session'[s] = [user |-> u, pair |-> s, exp |-> now + RTtl]
          /\ \A h \in Id : h # s => access'[h] \in {access[h], None}
          /\ access'[s] = [sid |-> s, exp |-> now + ATtl]
        BY <1>0, <2>2, PutEffect
    <2> QED BY <2>1, <2>3, <1>1 DEF Effect
<1>2. CASE op[c].kind = "refresh" /\ Unchanged(s, g) /\ Put(u, s, new, {}, {g})
    <2>1. Pending(c) /\ new \in Id
        BY <1>0, <1>2, ScriptValues DEF Pending
    <2>2. /\ \A t \in Id : t # s => session'[t] \in {session[t], None}
          /\ session'[s] = [user |-> u, pair |-> new, exp |-> now + RTtl]
          /\ \A h \in Id : h # new => access'[h] \in {access[h], None}
          /\ access'[new] = [sid |-> s, exp |-> now + ATtl]
        BY <1>0, <1>2, <2>1, PutEffect
    <2> QED BY <2>1, <2>2, <1>2 DEF Effect
<1>3. CASE UNCHANGED redis
    BY <1>3 DEF Effect, redis
<1>4. CASE op[c].kind = "revoke" /\ RevokeScript(u, s, g)
    BY <1>0, <1>4 DEF RevokeScript, redis, TypeOK, Effect
<1> QED BY <1>1, <1>2, <1>3, <1>4 DEF Execute, RefreshScript

\* At most one session has a pair: the one its refresh token leads to.
LEMMA OnePair ==
    ASSUME IndexExact, NEW s \in Id, NEW t \in Id, session[s] # None, session[t] # None,
           session[s].pair = session[t].pair
    PROVE  s = t
BY DEF IndexExact

\* Create replaces the session of the unique key and everything that led to it.
LEMMA CreateRedis ==
    ASSUME TypeOK, RedisInv, CallInv, NEW c \in Client, op[c].pc = "script",
           op[c].kind = "create", CreateScript(op[c].user, op[c].sid), opt' = opt
    PROVE  RedisInv'
<1> DEFINE u == op[c].user
           s == op[c].sid
           old == {o \in Id : Unique /\ unique[u] # None /\ unique[u].sid = o /\ o # s}
           oldPairs == {session[o].pair : o \in {x \in old : session[x] # None}}
           hash == [user |-> u, pair |-> s, exp |-> now + RTtl]
           short == [sid |-> s, exp |-> now + ATtl]
           long == [sid |-> s, exp |-> now + RTtl]
<1>1. s \in Id /\ u \in User /\ Pending(c) /\ op[c].new = s
    BY ScriptValues DEF CallInv, Pending, CallShape
<1>2. /\ \A t \in Id : session'[t] =
             IF t = s THEN hash ELSE IF t \in old THEN None ELSE session[t]
      /\ \A h \in Id : access'[h] =
             IF h = s THEN short ELSE IF h \in oldPairs THEN None ELSE access[h]
      /\ \A h \in Id : refresh'[h] =
             IF h = s THEN long ELSE IF h \in oldPairs THEN None ELSE refresh[h]
      /\ \A v \in User : unique'[v] = IF Unique /\ v = u THEN long ELSE unique[v]
    <2>1. Put(u, s, s, old, oldPairs)
        BY DEF CreateScript
    <2> HIDE DEF old, oldPairs
    <2> QED BY <1>1, <2>1, PutKeys
<1>3. /\ hash # None /\ hash.user = u /\ hash.pair = s /\ hash.exp = now + RTtl
      /\ short # None /\ short.sid = s
      /\ long # None /\ long.sid = s /\ long.exp = now + RTtl
    BY <1>1, Times, NotNone DEF SessionHash, IndexKey
<1> HIDE DEF hash, short, long
\* Another session with the pair of this call, or a session of its own with
\* another pair, there is not.
<1>4. /\ \A t \in Id : session[t] # None /\ session[t].pair = s => t = s
      /\ session[s] # None => session[s].pair = s
      /\ \A h \in Id : access[h] # None /\ access[h].sid = s => h = s
    BY <1>1 DEF CallInv, NewAlone, CreateAlone
<1>5. UniqueKeyExact'
    <2> SUFFICES ASSUME Unique, NEW t \in Id, session'[t] # None
                 PROVE  /\ unique'[session'[t].user] # None
                        /\ unique'[session'[t].user].sid = t
                        /\ unique'[session'[t].user].exp = session'[t].exp
        BY DEF UniqueKeyExact, Unique
    <2>1. CASE t = s
        BY <1>1, <1>2, <1>3, <2>1
    <2>2. CASE t # s
        <3>1. session'[t] = session[t] /\ session[t] # None /\ t \notin old
            BY <1>2, <2>2
        <3>2. session[t].user \in User
            BY <3>1 DEF TypeOK, SessionHash
        <3>3. session[t].user # u
            BY <2>2, <3>1 DEF RedisInv, UniqueKeyExact
        <3> QED BY <1>2, <3>1, <3>2, <3>3 DEF RedisInv, UniqueKeyExact
    <2> QED BY <2>1, <2>2
<1>6. \A t \in Id : session'[t] # None /\ t # s =>
          /\ session'[t] = session[t] /\ session[t].pair \in Id /\ session[t].pair # s
          /\ session[t].pair \notin oldPairs
    BY <1>2, <1>4, OnePair DEF RedisInv, TypeOK, SessionHash
<1>7. \A h \in Id : refresh'[h] # None /\ h # s =>
          /\ refresh'[h] = refresh[h] /\ refresh[h].sid \in Id /\ refresh[h].sid # s
          /\ session'[refresh[h].sid] = session[refresh[h].sid]
    <2> SUFFICES ASSUME NEW h \in Id, refresh'[h] # None, h # s
                 PROVE  /\ refresh'[h] = refresh[h] /\ refresh[h].sid \in Id
                        /\ refresh[h].sid # s
                        /\ session'[refresh[h].sid] = session[refresh[h].sid]
        OBVIOUS
    <2>1. refresh'[h] = refresh[h] /\ refresh[h] # None /\ h \notin oldPairs
        BY <1>2
    <2>2. refresh[h].sid \in Id /\ session[refresh[h].sid] # None
          /\ session[refresh[h].sid].pair = h
        BY <2>1 DEF RedisInv, IndexExact, TypeOK, IndexKey
    <2> QED BY <1>2, <1>4, <2>1, <2>2
<1>8. IndexExact'
    <2>1. \A h \in Id : refresh'[h] # None =>
              session'[refresh'[h].sid] # None /\ session'[refresh'[h].sid].pair = h
        BY <1>1, <1>2, <1>3, <1>7 DEF RedisInv, IndexExact
    <2>2. \A t \in Id : session'[t] # None =>
              refresh'[session'[t].pair] # None /\ refresh'[session'[t].pair].sid = t
        BY <1>1, <1>2, <1>3, <1>6 DEF RedisInv, IndexExact
    <2>3. \A h \in Id : access'[h] # None /\ session'[access'[h].sid] # None =>
              session'[access'[h].sid].pair = h
        <3> SUFFICES ASSUME NEW h \in Id, access'[h] # None, session'[access'[h].sid] # None
                     PROVE  session'[access'[h].sid].pair = h
            OBVIOUS
        <3>1. CASE h = s
            BY <1>1, <1>2, <1>3, <3>1
        <3>2. CASE h # s
            <4>1. access'[h] = access[h] /\ access[h] # None
                BY <1>2, <3>2
            <4>2. access[h].sid \in Id /\ access[h].sid # s
                BY <1>4, <3>2, <4>1 DEF TypeOK, IndexKey
            <4> QED BY <1>2, <4>1, <4>2 DEF RedisInv, IndexExact
        <3> QED BY <3>1, <3>2
    <2> QED BY <2>1, <2>2, <2>3 DEF IndexExact
<1>9. SameLife'
    BY <1>1, <1>2, <1>3, <1>7 DEF RedisInv, SameLife
<1> QED BY <1>5, <1>8, <1>9 DEF RedisInv

\* Refresh replaces the pair of its session; the session keeps its user.
LEMMA RefreshRedis ==
    ASSUME TypeOK, RedisInv, CallInv, NEW c \in Client, op[c].pc = "script",
           op[c].kind = "refresh", opt' = opt,
           RefreshScript(op[c].user, op[c].sid, op[c].arg, op[c].new)
    PROVE  RedisInv'
<1> DEFINE u == op[c].user
           s == op[c].sid
           g == op[c].arg
           new == op[c].new
           hash == [user |-> u, pair |-> new, exp |-> now + RTtl]
           short == [sid |-> s, exp |-> now + ATtl]
           long == [sid |-> s, exp |-> now + RTtl]
<1>1. s \in Id /\ u \in User /\ Pending(c) /\ new \in Id /\ g \in Id
    BY ScriptValues DEF CallInv, Pending
<1>2. CASE ~Unchanged(s, g)
    <2>1. UNCHANGED redis
        BY <1>2 DEF RefreshScript
    <2> QED BY <2>1 DEF redis, RedisInv, UniqueKeyExact, IndexExact, SameLife, Unique
<1>3. CASE Unchanged(s, g)
    <2>1. /\ \A t \in Id : session'[t] = IF t = s THEN hash ELSE session[t]
          /\ \A h \in Id : access'[h] =
                 IF h = new THEN short ELSE IF h = g THEN None ELSE access[h]
          /\ \A h \in Id : refresh'[h] =
                 IF h = new THEN long ELSE IF h = g THEN None ELSE refresh[h]
          /\ \A v \in User : unique'[v] = IF Unique /\ v = u THEN long ELSE unique[v]
        <3>1. Put(u, s, new, {}, {g})
            BY <1>3 DEF RefreshScript
        <3> QED BY <1>1, <3>1, PutKeys
    <2>2. /\ hash # None /\ hash.user = u /\ hash.pair = new /\ hash.exp = now + RTtl
          /\ short # None /\ short.sid = s
          /\ long # None /\ long.sid = s /\ long.exp = now + RTtl
        BY <1>1, Times, NotNone DEF SessionHash, IndexKey
    <2> HIDE DEF hash, short, long
    <2>3. session[s] # None /\ session[s].pair = g /\ session[s].user = u
        BY <1>1, <1>3 DEF Unchanged, CallInv, UserFits
    <2>4. \A t \in Id : session[t] # None /\ t # s =>
              session[t].pair \in Id /\ session[t].pair # g /\ session[t].pair # new
        BY <1>1, <2>3, OnePair DEF CallInv, NewAlone, RedisInv, TypeOK, SessionHash
    <2>5. UniqueKeyExact'
        <3> SUFFICES ASSUME Unique, NEW t \in Id, session'[t] # None
                     PROVE  /\ unique'[session'[t].user] # None
                            /\ unique'[session'[t].user].sid = t
                            /\ unique'[session'[t].user].exp = session'[t].exp
            BY DEF UniqueKeyExact, Unique
        <3>1. CASE t = s
            BY <1>1, <2>1, <2>2, <3>1
        <3>2. CASE t # s
            <4>1. session'[t] = session[t] /\ session[t] # None
                BY <2>1, <3>2
            <4>2. session[t].user \in User
                BY <4>1 DEF TypeOK, SessionHash
            <4>3. session[t].user # u
                BY <1>1, <2>3, <3>2, <4>1 DEF RedisInv, UniqueKeyExact
            <4> QED BY <2>1, <4>1, <4>2, <4>3 DEF RedisInv, UniqueKeyExact
        <3> QED BY <3>1, <3>2
    <2>6. \A h \in Id : refresh'[h] # None /\ h # new =>
              /\ refresh'[h] = refresh[h] /\ refresh[h].sid \in Id /\ refresh[h].sid # s
              /\ session'[refresh[h].sid] = session[refresh[h].sid]
        <3> SUFFICES ASSUME NEW h \in Id, refresh'[h] # None, h # new
                     PROVE  /\ refresh'[h] = refresh[h] /\ refresh[h].sid \in Id
                            /\ refresh[h].sid # s
                            /\ session'[refresh[h].sid] = session[refresh[h].sid]
            OBVIOUS
        <3>1. refresh'[h] = refresh[h] /\ refresh[h] # None /\ h # g
            BY <2>1
        <3>2. refresh[h].sid \in Id /\ session[refresh[h].sid].pair = h
            BY <3>1 DEF RedisInv, IndexExact, TypeOK, IndexKey
        <3> QED BY <2>1, <2>3, <3>1, <3>2
    <2>7. \A h \in Id : refresh'[h] # None =>
              session'[refresh'[h].sid] # None /\ session'[refresh'[h].sid].pair = h
        BY <1>1, <2>1, <2>2, <2>6 DEF RedisInv, IndexExact
    <2>8. \A t \in Id : session'[t] # None =>
              refresh'[session'[t].pair] # None /\ refresh'[session'[t].pair].sid = t
        BY <1>1, <2>1, <2>2, <2>4 DEF RedisInv, IndexExact
    <2>9. \A h \in Id : access'[h] # None /\ session'[access'[h].sid] # None =>
              session'[access'[h].sid].pair = h
        <3> SUFFICES ASSUME NEW h \in Id, access'[h] # None, session'[access'[h].sid] # None
                     PROVE  session'[access'[h].sid].pair = h
            OBVIOUS
        <3>1. CASE h = new
            BY <1>1, <2>1, <2>2, <3>1
        <3>2. CASE h # new
            <4>1. access'[h] = access[h] /\ access[h] # None /\ h # g
                BY <2>1, <3>2
            <4>2. access[h].sid \in Id /\ access[h].sid # s
                BY <2>3, <4>1 DEF TypeOK, IndexKey, RedisInv, IndexExact
            <4> QED BY <2>1, <4>1, <4>2 DEF RedisInv, IndexExact
        <3> QED BY <3>1, <3>2
    <2>10. IndexExact'
        BY <2>7, <2>8, <2>9 DEF IndexExact
    <2>11. SameLife'
        BY <1>1, <2>1, <2>2, <2>6 DEF RedisInv, SameLife
    <2> QED BY <2>5, <2>10, <2>11 DEF RedisInv
<1> QED BY <1>2, <1>3

\* Revoke removes a session with its pair, and its unique key.
LEMMA RevokeRedis ==
    ASSUME TypeOK, RedisInv, CallInv, NEW c \in Client, op[c].pc = "script",
           op[c].kind = "revoke", opt' = opt,
           RevokeScript(op[c].user, op[c].sid, op[c].arg)
    PROVE  RedisInv'
<1> DEFINE u == op[c].user
           s == op[c].sid
           g == op[c].arg
<1>1. s \in Id /\ u \in User /\ g \in Id
    BY ScriptValues DEF CallInv
<1>2. CASE ~Unchanged(s, g)
    <2>1. UNCHANGED redis
        BY <1>2 DEF RevokeScript
    <2> QED BY <2>1 DEF redis, RedisInv, UniqueKeyExact, IndexExact, SameLife, Unique
<1>3. CASE Unchanged(s, g)
    <2>1. /\ \A t \in Id : session'[t] = IF t = s THEN None ELSE session[t]
          /\ \A h \in Id : access'[h] = IF h = g THEN None ELSE access[h]
          /\ \A h \in Id : refresh'[h] = IF h = g THEN None ELSE refresh[h]
          /\ \A v \in User : unique'[v] =
                 IF v = u /\ Unique /\ unique[u] # None /\ unique[u].sid = s
                 THEN None ELSE unique[v]
        BY <1>3 DEF RevokeScript, TypeOK
    <2>2. session[s] # None /\ session[s].pair = g
        BY <1>3 DEF Unchanged
    <2>3. \A t \in Id : session[t] # None /\ t # s =>
              session[t].pair \in Id /\ session[t].pair # g /\ session[t].user \in User
        BY <1>1, <2>2, OnePair DEF RedisInv, TypeOK, SessionHash
    <2>4. \A h \in Id : refresh[h] # None /\ h # g => refresh[h].sid \in Id /\ refresh[h].sid # s
        BY <2>2 DEF RedisInv, IndexExact, TypeOK, IndexKey
    <2>5. \A h \in Id : access[h] # None /\ h # g => access[h].sid \in Id /\ access[h].sid # s
        BY <2>2 DEF RedisInv, IndexExact, TypeOK, IndexKey
    <2>6. UniqueKeyExact'
        BY <2>1, <2>3 DEF RedisInv, UniqueKeyExact, Unique
    <2>7. IndexExact'
        BY <2>1, <2>3, <2>4, <2>5 DEF RedisInv, IndexExact
    <2>8. SameLife'
        BY <2>1, <2>4 DEF RedisInv, SameLife
    <2> QED BY <2>6, <2>7, <2>8 DEF RedisInv
<1> QED BY <1>2, <1>3

\* Every script keeps the keys consistent.
LEMMA ExecuteRedis ==
    ASSUME TypeOK, RedisInv, CallInv, NEW c \in Client, Execute(c), opt' = opt
    PROVE  RedisInv'
BY CreateRedis, RefreshRedis, RevokeRedis DEF Execute

\* So does their expiry: what leads to each other expires together.
LEMMA TickRedis ==
    ASSUME TypeOK, RedisInv, Tick
    PROVE  /\ session' \in [Id -> SessionHash \cup {None}]
           /\ access' \in [Id -> IndexKey \cup {None}]
           /\ refresh' \in [Id -> IndexKey \cup {None}]
           /\ unique' \in [User -> IndexKey \cup {None}]
           /\ \A s \in Id : session'[s] \in {session[s], None}
           /\ \A g \in Id : access'[g] \in {access[g], None}
           /\ RedisInv'
<1>1. /\ session' \in [Id -> SessionHash \cup {None}]
      /\ access' \in [Id -> IndexKey \cup {None}]
      /\ refresh' \in [Id -> IndexKey \cup {None}]
      /\ unique' \in [User -> IndexKey \cup {None}]
    BY DEF Tick, Alive, TypeOK
<1>2. /\ \A s \in Id : session'[s] =
             IF session[s] # None /\ session[s].exp <= now + 1 THEN None ELSE session[s]
      /\ \A g \in Id : access'[g] \in {access[g], None}
      /\ \A g \in Id : refresh'[g] =
             IF refresh[g] # None /\ refresh[g].exp <= now + 1 THEN None ELSE refresh[g]
      /\ \A u \in User : unique'[u] =
             IF unique[u] # None /\ unique[u].exp <= now + 1 THEN None ELSE unique[u]
    BY DEF Tick, Alive, TypeOK
<1>3. \A s \in Id : session[s] # None => session[s].user \in User /\ session[s].pair \in Id
    BY DEF TypeOK, SessionHash
<1>4. \A g \in Id : /\ refresh[g] # None => refresh[g].sid \in Id
                    /\ access[g] # None => access[g].sid \in Id
    BY DEF TypeOK, IndexKey
<1>5. UniqueKeyExact'
    BY <1>2, <1>3 DEF RedisInv, UniqueKeyExact, Unique, Tick
<1>6. IndexExact'
    BY <1>2, <1>3, <1>4 DEF RedisInv, IndexExact, SameLife
<1>7. SameLife'
    BY <1>2, <1>3, <1>4 DEF RedisInv, SameLife, IndexExact
<1> QED BY <1>1, <1>2, <1>5, <1>6, <1>7 DEF RedisInv
-----------------------------------------------------------------------------
\* No script writes a token that was returned, for its own pair is new.
LEMMA EffectSettled ==
    ASSUME TypeOK, CallInv, NEW c \in Client, Effect(c)
    PROVE  Settled
<1> SUFFICES ASSUME NEW g \in known
             PROVE  /\ access'[g] \in {access[g], None}
                    /\ \A s \in Id : Unchanged(s, g)' => Unchanged(s, g)
    BY DEF Settled
<1>1. g \in Id
    BY DEF TypeOK
<1>2. ~(Pending(c) /\ op[c].new = g)
    BY DEF CallInv, NewAlone
<1>3. access'[g] \in {access[g], None}
    BY <1>1, <1>2 DEF Effect
<1>4. ASSUME NEW s \in Id, Unchanged(s, g)'
      PROVE  Unchanged(s, g)
    BY <1>2, <1>4 DEF Effect, Unchanged
<1> QED BY <1>3, <1>4

\* What was not valid does not become valid.
LEMMA SettledValid ==
    ASSUME TypeOK, TypeOK', Settled, NEW g \in known, Valid(g)'
    PROVE  Valid(g) /\ access'[g] = access[g]
<1>1. g \in Id /\ access'[g] # None /\ access'[g] = access[g]
    BY DEF Valid, Settled, TypeOK
<1>2. access[g].sid \in Id
    BY <1>1 DEF TypeOK, IndexKey
<1> QED BY <1>1, <1>2 DEF Valid, Settled, Unchanged

\* A script that ran or was lost keeps the calls consistent with the keys.
LEMMA ScriptCallInv ==
    ASSUME TypeOK, TypeOK', CallInv, NEW c \in Client, op[c].pc = "script",
           Effect(c), ScriptEnds(c)
    PROVE  CallInv'
<1> DEFINE s == op[c].sid
           new == op[c].new
<1>1. /\ op[c].kind \in {"create", "refresh", "revoke"} /\ s \in Id
      /\ Pending(c) => new \in Id /\ new # None
    BY ScriptValues DEF CallInv
<1>2. /\ op'[c].pc \in {"idle", "script"} /\ op'[c].kind = op[c].kind
      /\ op'[c].arg = op[c].arg /\ op'[c].sid = s /\ op'[c].user = op[c].user
      /\ op'[c].new = new
      /\ \A d \in Client : d # c => op'[d] = op[d]
    BY DEF ScriptEnds
<1>3. \A d \in Client : Pending(d)' => Pending(d)
    BY <1>2 DEF Pending
<1>4. /\ used' = used /\ known \subseteq known'
      /\ known' \subseteq known \cup {new} /\ (known' # known => Pending(c) /\ ~Pending(c)')
    BY DEF ScriptEnds, Pending
<1>5. Settled
    BY EffectSettled
<1>6. AllUsed'
    <2>1. \A t \in Id : session'[t] # None => t \in used /\ session'[t].pair \in used
        BY <1>1 DEF Effect, CallInv, AllUsed
    <2>2. \A g \in Id : access'[g] # None => access'[g].sid \in used
        BY <1>1 DEF Effect, CallInv, AllUsed
    <2>3. \A d \in Client : op'[d].pc \in {"load", "script"} => op'[d].sid \in used
        BY <1>2 DEF CallInv, AllUsed
    <2>4. \A d \in Client : Pending(d)' => op'[d].new \in used
        BY <1>2, <1>3 DEF CallInv, AllUsed
    <2> QED BY <1>4, <2>1, <2>2, <2>3, <2>4 DEF CallInv, AllUsed
<1>7. CallShape'
    BY <1>2, <1>4 DEF CallInv, CallShape
<1>8. NewAlone'
    <2> SUFFICES ASSUME NEW b \in Client, Pending(b)'
                 PROVE  /\ op'[b].new \notin known'
                        /\ \A d \in Client : Pending(d)' /\ op'[d].new = op'[b].new => d = b
                        /\ \A t \in Id : session'[t] # None /\ session'[t].pair = op'[b].new
                                             => t = op'[b].sid
        BY DEF NewAlone
    <2>1. Pending(b) /\ op'[b].new = op[b].new /\ op'[b].sid = op[b].sid
        BY <1>2, <1>3
    <2>2. op'[b].new \notin known'
        BY <1>4, <2>1 DEF CallInv, NewAlone
    <2>3. \A d \in Client : Pending(d)' /\ op'[d].new = op'[b].new => d = b
        BY <1>2, <1>3, <2>1 DEF CallInv, NewAlone
    <2>4. ASSUME NEW t \in Id, session'[t] # None, session'[t].pair = op'[b].new
          PROVE  t = op'[b].sid
        <3>1. CASE session'[t] = session[t]
            BY <2>1, <2>4, <3>1 DEF CallInv, NewAlone
        <3>2. CASE Pending(c) /\ t = s /\ session'[t].pair = new
            BY <2>1, <2>4, <3>2 DEF CallInv, NewAlone
        <3> QED BY <2>4, <3>1, <3>2 DEF Effect
    <2> QED BY <2>2, <2>3, <2>4
<1>9. CreateAlone'
    <2> SUFFICES ASSUME NEW b \in Client, op'[b].pc = "script", op'[b].kind = "create"
                 PROVE  /\ \A d \in Client : op'[d].pc \in {"load", "script"}
                               /\ op'[d].sid = op'[b].sid => d = b
                        /\ \A g \in Id : access'[g] # None /\ access'[g].sid = op'[b].sid
                               => g = op'[b].sid
                        /\ session'[op'[b].sid] # None =>
                               session'[op'[b].sid].pair = op'[b].sid
        BY DEF CreateAlone
    <2>1. op[b].pc = "script" /\ op[b].kind = "create" /\ op'[b].sid = op[b].sid
          /\ op[b].new = op[b].sid /\ op[b].sid \in Id
        BY <1>2, ScriptValues DEF CallInv, CallShape
    <2>2. \A d \in Client : op'[d].pc \in {"load", "script"} /\ op'[d].sid = op'[b].sid => d = b
        BY <1>2, <2>1 DEF CallInv, CreateAlone
    <2>3. ASSUME NEW g \in Id, access'[g] # None, access'[g].sid = op[b].sid
          PROVE  g = op[b].sid
        <3>1. CASE access'[g] = access[g]
            BY <2>1, <2>3, <3>1 DEF CallInv, CreateAlone
        <3>2. CASE Pending(c) /\ g = new /\ access'[g].sid = s
            BY <2>1, <2>3, <3>2 DEF CallInv, CreateAlone
        <3> QED BY <2>3, <3>1, <3>2 DEF Effect
    <2>4. ASSUME session'[op[b].sid] # None
          PROVE  session'[op[b].sid].pair = op[b].sid
        <3>1. CASE session'[op[b].sid] = session[op[b].sid]
            BY <2>1, <2>4, <3>1 DEF CallInv, CreateAlone
        <3>2. CASE op[b].sid = s /\ session'[s].pair = new
            BY <2>1, <3>2 DEF CallInv, CreateAlone
        <3> QED BY <2>1, <2>4, <3>1, <3>2 DEF Effect
    <2> QED BY <2>1, <2>2, <2>3, <2>4
<1>10. UserFits'
    <2> SUFFICES ASSUME NEW b \in Client, op'[b].pc = "script", op'[b].kind = "refresh",
                        session'[op'[b].sid] # None
                 PROVE  session'[op'[b].sid].user = op'[b].user
        BY DEF UserFits
    <2>1. op[b].pc = "script" /\ op[b].kind = "refresh" /\ op'[b].sid = op[b].sid
          /\ op'[b].user = op[b].user /\ op[b].sid \in Id
        BY <1>2, ScriptValues DEF CallInv
    <2>2. CASE session'[op[b].sid] = session[op[b].sid]
        BY <2>1, <2>2 DEF CallInv, UserFits
    <2>3. CASE /\ Pending(c) /\ op[b].sid = s /\ session'[s].user = op[c].user
               /\ op[c].kind = "refresh" => Unchanged(s, op[c].arg)
        <3>1. CASE op[c].kind = "create"
            BY <2>1, <2>3, <3>1 DEF CallInv, CreateAlone, Pending
        <3>2. CASE op[c].kind = "refresh"
            BY <2>1, <2>3, <3>2 DEF CallInv, UserFits, Unchanged
        <3> QED BY <2>3, <3>1, <3>2 DEF Pending
    <2> QED BY <2>1, <2>2, <2>3 DEF Effect
<1>11. SidStays'
    <2> SUFFICES ASSUME NEW b \in Client, op'[b].kind = "revoke",
                        op'[b].pc \in {"load", "script"}, access'[op'[b].arg] # None
                 PROVE  access'[op'[b].arg].sid = op'[b].sid
        BY DEF SidStays
    <2>1. op[b].kind = "revoke" /\ op[b].pc \in {"load", "script"}
          /\ op'[b].arg = op[b].arg /\ op'[b].sid = op[b].sid
        BY <1>2
    <2>2. op[b].arg \in known
        BY <2>1 DEF CallInv, CallShape
    <2> QED BY <1>5, <2>1, <2>2 DEF Settled, CallInv, SidStays
<1>12. VerifyFits'
    <2> SUFFICES ASSUME NEW b \in Client, (op[b].kind = "verify")'
                 PROVE  /\ (op[b].pc = "lookup" /\ Valid(op[b].arg) => op[b].was)'
                        /\ (op[b].pc = "load" /\ Unchanged(op[b].sid, op[b].arg) => op[b].was)'
        BY DEF VerifyFits
    <2>1. b # c /\ op'[b] = op[b]
        BY <1>1, <1>2
    <2>2. op[b].arg \in known
        BY <2>1 DEF CallInv, CallShape
    <2>3. (op[b].pc = "lookup" /\ Valid(op[b].arg))' => Valid(op[b].arg)
        <3>1. ASSUME Valid(op[b].arg)' PROVE Valid(op[b].arg)
            <4> DEFINE g == op[b].arg
            <4>1. g \in known /\ op'[b].arg = g
                BY <2>1, <2>2
            <4>2. access'[g] # None /\ session'[access'[g].sid] # None
                  /\ session'[access'[g].sid].pair = g
                BY <3>1, <4>1 DEF Valid
            <4> QED BY <1>5, <4>1, <4>2 DEF Settled, Valid, Unchanged, TypeOK, IndexKey
        <3> QED BY <3>1
    <2>4. (op[b].pc = "load" /\ Unchanged(op[b].sid, op[b].arg))' =>
              Unchanged(op[b].sid, op[b].arg)
        <3>1. op'[b].pc = "load" => op[b].sid \in Id
            BY <2>1 DEF CallInv, AllUsed, TypeOK
        <3> QED BY <1>5, <2>1, <2>2, <3>1 DEF Settled, Unchanged
    <2> QED BY <2>1, <2>3, <2>4 DEF CallInv, VerifyFits
<1>13. VerifySound'
    BY <1>1, <1>2 DEF CallInv, VerifySound
<1> QED BY <1>6, <1>7, <1>8, <1>9, <1>10, <1>11, <1>12, <1>13 DEF CallInv
-----------------------------------------------------------------------------
\* A call that ends keeps its values.
LEMMA FinishCall ==
    ASSUME TypeOK, NEW c \in Client, NEW res \in {"none", "ok", "missing", "error"},
           Finish(c, res)
    PROVE  /\ op' \in [Client -> Call]
           /\ \A d \in Client : d # c => op'[d] = op[d]
           /\ op'[c].pc = "idle" /\ op'[c].res = res
           /\ \A x \in {"kind", "arg", "sid", "user", "new", "was"} : op'[c][x] = op[c][x]
<1>1. op[c] \in Call
    BY DEF TypeOK
<1>2. op'[c] = [op[c] EXCEPT !.pc = "idle", !.res = res]
      /\ \A d \in Client : d # c => op'[d] = op[d]
    BY DEF Finish, TypeOK
<1>3. op' \in [Client -> Call]
    BY <1>1 DEF Finish, TypeOK, Call
<1> QED BY <1>1, <1>2, <1>3 DEF Call

\* A step that writes no returned token keeps what Revoke achieved.
LEMMA SettledRevoke ==
    ASSUME TypeOK, TypeOK', CallInv, RevokeKills, Settled, NEW d \in Client,
           op'[d].kind = op[d].kind, op'[d].arg = op[d].arg, op'[d].res = op[d].res
    PROVE  (op[d].kind = "revoke" /\ op[d].res \in {"ok", "missing"} => ~Valid(op[d].arg))'
<1> SUFFICES ASSUME (op[d].kind = "revoke" /\ op[d].res \in {"ok", "missing"})',
                    Valid(op[d].arg)'
             PROVE  FALSE
    OBVIOUS
<1> DEFINE g == op[d].arg
<1>1. g \in known /\ g \in Id /\ op'[d].arg = g /\ ~Valid(g)
    BY DEF CallInv, CallShape, RevokeKills, TypeOK
<1>2. access'[g] # None /\ session'[access'[g].sid] # None
      /\ session'[access'[g].sid].pair = g
    BY <1>1 DEF Valid
<1> QED BY <1>1, <1>2 DEF Settled, Valid, Unchanged, TypeOK, IndexKey

\* And it keeps what Refresh exchanged.
LEMMA SettledRotated ==
    ASSUME TypeOK, RotatedDead, RefreshOnce, Settled, rotated' = rotated, known \subseteq known'
    PROVE  RotatedDead' /\ RefreshOnce'
<1>1. RefreshOnce'
    BY DEF RefreshOnce
<1>2. ASSUME NEW r \in rotated, NEW s \in Id, session'[s] # None
      PROVE  session'[s].pair # r[1]
    BY <1>2 DEF RotatedDead, Settled, Unchanged
<1> QED BY <1>1, <1>2 DEF RotatedDead

\* A step that leaves the keys alone is no concern of theirs.
LEMMA QuietKeys ==
    ASSUME RedisInv, UNCHANGED <<opt, redis>>
    PROVE  RedisInv' /\ Settled
BY DEF redis, RedisInv, UniqueKeyExact, IndexExact, SameLife, Unique, Settled, Unchanged

\* Create begins with an identifier nobody has.
LEMMA CallCreateIInv ==
    ASSUME IInv, NEW c \in Client, NEW u \in User, CallCreate(c, u)
    PROVE  IInv' /\ Settled
<1>1. PICK s \in Id \ used :
          /\ op' = [op EXCEPT ![c] = [Idle EXCEPT !.kind = "create", !.pc = "script",
                        !.sid = s, !.user = u, !.new = s, !.tries = Retries]]
          /\ used' = used \cup {s}
    BY DEF CallCreate
<1>2. /\ op[c].pc = "idle" /\ session' = session /\ access' = access
      /\ UNCHANGED <<opt, now, redis, known, rotated>>
    BY DEF CallCreate, redis
<1>3. /\ op'[c].kind = "create" /\ op'[c].pc = "script" /\ op'[c].sid = s
      /\ op'[c].user = u /\ op'[c].new = s /\ op'[c].res = "none"
      /\ \A d \in Client : d # c => op'[d] = op[d]
    BY <1>1 DEF IInv, TypeOK, Idle
<1>4. TypeOK'
    <2>1. [Idle EXCEPT !.kind = "create", !.pc = "script", !.sid = s, !.user = u,
                       !.new = s, !.tries = Retries] \in Call
        BY OptionAssumption DEF Idle, Call
    <2>2. op' \in [Client -> Call]
        BY <1>1, <2>1 DEF IInv, TypeOK
    <2> QED BY <1>1, <1>2, <2>2 DEF IInv, TypeOK, redis
<1>5. RedisInv' /\ Settled
    BY <1>2, QuietKeys DEF IInv
<1>6. \A d \in Client : Pending(d)' => d = c \/ Pending(d)
    BY <1>3 DEF Pending
<1>7. AllUsed'
    BY <1>1, <1>2, <1>3, <1>6 DEF IInv, CallInv, AllUsed, Pending
<1>8. CallShape'
    BY <1>2, <1>3 DEF IInv, CallInv, CallShape
<1>9. NewAlone'
    BY <1>1, <1>2, <1>3 DEF IInv, CallInv, AllUsed, NewAlone, Pending
<1>10. CreateAlone'
    BY <1>1, <1>2, <1>3 DEF IInv, CallInv, AllUsed, CreateAlone
<1>11. UserFits' /\ SidStays' /\ VerifySound'
    BY <1>2, <1>3 DEF IInv, CallInv, UserFits, SidStays, VerifySound
<1>12. VerifyFits'
    BY <1>2, <1>3 DEF IInv, CallInv, VerifyFits, Valid, Unchanged
<1>13. RevokeKills'
    BY <1>2, <1>3 DEF IInv, RevokeKills, Valid
<1>14. RotatedDead' /\ RefreshOnce'
    BY <1>2, <1>5, SettledRotated DEF IInv
<1> QED BY <1>4, <1>5, <1>7, <1>8, <1>9, <1>10, <1>11, <1>12, <1>13, <1>14
        DEF IInv, CallInv

\* Verify, Refresh and Revoke begin with a token that was returned.
LEMMA CallTokenIInv ==
    ASSUME IInv, NEW c \in Client, NEW kind \in {"verify", "refresh", "revoke"}, NEW g \in Id,
           CallToken(c, kind, g)
    PROVE  IInv' /\ Settled
<1>1. /\ op[c].pc = "idle" /\ g \in known /\ session' = session /\ access' = access
      /\ UNCHANGED <<opt, now, redis, used, known, rotated>>
    BY DEF CallToken, redis
<1>2. op' = [op EXCEPT ![c] = [Idle EXCEPT !.kind = kind, !.pc = "lookup",
                    !.arg = g, !.tries = Retries, !.was = Valid(g)]]
    BY DEF CallToken
<1>3. /\ op'[c].kind = kind /\ op'[c].pc = "lookup" /\ op'[c].arg = g
      /\ op'[c].was = Valid(g) /\ op'[c].res = "none" /\ op'[c].new = None
      /\ \A d \in Client : d # c => op'[d] = op[d]
    BY <1>2 DEF IInv, TypeOK, Idle
<1>4. TypeOK'
    <2>1. Valid(g) \in BOOLEAN
        BY DEF Valid
    <2>2. [Idle EXCEPT !.kind = kind, !.pc = "lookup", !.arg = g, !.tries = Retries,
                       !.was = Valid(g)] \in Call
        BY <2>1, OptionAssumption DEF Idle, Call
    <2>3. op' \in [Client -> Call]
        BY <1>2, <2>2 DEF IInv, TypeOK
    <2> QED BY <1>1, <2>3 DEF IInv, TypeOK, redis
<1>5. RedisInv' /\ Settled
    BY <1>1, QuietKeys DEF IInv
<1>6. \A d \in Client : Pending(d)' => d # c /\ Pending(d)
    BY <1>3 DEF Pending
<1>7. AllUsed'
    BY <1>1, <1>3, <1>6 DEF IInv, CallInv, AllUsed
<1>8. CallShape'
    BY <1>1, <1>3 DEF IInv, CallInv, CallShape
<1>9. NewAlone'
    BY <1>1, <1>3, <1>6 DEF IInv, CallInv, NewAlone
<1>10. CreateAlone'
    BY <1>1, <1>3 DEF IInv, CallInv, CreateAlone
<1>11. UserFits' /\ SidStays' /\ VerifySound'
    BY <1>1, <1>3 DEF IInv, CallInv, UserFits, SidStays, VerifySound
<1>12. VerifyFits'
    BY <1>1, <1>3 DEF IInv, CallInv, VerifyFits, Valid, Unchanged
<1>13. RevokeKills'
    BY <1>1, <1>3 DEF IInv, RevokeKills, Valid
<1>14. RotatedDead' /\ RefreshOnce'
    BY <1>1, <1>5, SettledRotated DEF IInv
<1> QED BY <1>4, <1>5, <1>7, <1>8, <1>9, <1>10, <1>11, <1>12, <1>13, <1>14
        DEF IInv, CallInv

\* A call may end, with a result that is true.
LEMMA FinishIInv ==
    ASSUME IInv, NEW c \in Client, NEW res \in {"ok", "missing", "error"}, Finish(c, res),
           op[c].kind = "verify" /\ res = "ok" => op[c].was,
           op[c].kind = "revoke" /\ res \in {"ok", "missing"} => ~Valid(op[c].arg),
           UNCHANGED <<opt, now, redis, used, known, rotated>>
    PROVE  IInv' /\ Settled
<1>1. session' = session /\ access' = access
    BY DEF redis
<1>2. /\ op' \in [Client -> Call]
      /\ \A d \in Client : d # c => op'[d] = op[d]
      /\ op'[c].pc = "idle" /\ op'[c].res = res /\ op'[c].kind = op[c].kind
      /\ op'[c].arg = op[c].arg /\ op'[c].new = op[c].new /\ op'[c].sid = op[c].sid
      /\ op'[c].was = op[c].was
    BY FinishCall DEF IInv
<1>3. TypeOK'
    BY <1>2 DEF IInv, TypeOK, redis
<1>4. RedisInv' /\ Settled
    BY QuietKeys DEF IInv
<1>5. \A d \in Client : Pending(d)' => d # c /\ Pending(d)
    BY <1>2 DEF Pending
<1>6. AllUsed' /\ CallShape'
    BY <1>1, <1>2, <1>5 DEF IInv, CallInv, AllUsed, CallShape
<1>7. NewAlone'
    BY <1>1, <1>2, <1>5 DEF IInv, CallInv, NewAlone
<1>8. CreateAlone'
    BY <1>1, <1>2 DEF IInv, CallInv, CreateAlone
<1>9. UserFits' /\ SidStays'
    BY <1>1, <1>2 DEF IInv, CallInv, UserFits, SidStays
<1>10. VerifyFits' /\ VerifySound'
    BY <1>1, <1>2 DEF IInv, CallInv, VerifyFits, VerifySound, Valid, Unchanged
<1>11. RevokeKills'
    BY <1>1, <1>2 DEF IInv, RevokeKills, Valid
<1>12. RotatedDead' /\ RefreshOnce'
    BY <1>4, SettledRotated DEF IInv
<1> QED BY <1>3, <1>4, <1>6, <1>7, <1>8, <1>9, <1>10, <1>11, <1>12 DEF IInv, CallInv

\* Lookup finds the session of its token, never one that is being created.
LEMMA LookupIInv ==
    ASSUME IInv, NEW c \in Client, Lookup(c)
    PROVE  IInv' /\ Settled
<1> DEFINE g == op[c].arg
           index == IF op[c].kind = "refresh" THEN refresh[g] ELSE access[g]
<1>1. /\ op[c].pc = "lookup" /\ session' = session /\ access' = access
      /\ UNCHANGED <<opt, now, redis, used, known, rotated>>
    BY DEF Lookup, redis
<1>2. g \in known /\ g \in Id /\ op[c].kind \in {"verify", "refresh", "revoke"}
    BY <1>1 DEF IInv, CallInv, CallShape, TypeOK
<1>3. CASE index = None /\ Finish(c, "missing")
    BY <1>1, <1>3, FinishIInv DEF Valid
<1>4. CASE index # None /\ op' = [op EXCEPT ![c].pc = "load", ![c].sid = index.sid]
    <2>1. index \in IndexKey /\ index.sid \in Id
        BY <1>2, <1>4 DEF IInv, TypeOK, IndexKey
    <2>2. index.sid \in used
        BY <1>2, <1>4 DEF IInv, RedisInv, IndexExact, CallInv, AllUsed, TypeOK, IndexKey
    <2> HIDE DEF index
    <2>3. \A d \in Client : d # c => op'[d] = op[d]
        BY <1>4 DEF IInv, TypeOK
    <2>4. /\ op'[c].pc = "load" /\ op'[c].sid = index.sid /\ op'[c].kind = op[c].kind
          /\ op'[c].arg = g /\ op'[c].res = op[c].res /\ op'[c].was = op[c].was
          /\ op'[c].new = op[c].new
        <3>1. op'[c] = [op[c] EXCEPT !.pc = "load", !.sid = index.sid]
            BY <1>4 DEF IInv, TypeOK
        <3> QED BY <3>1 DEF IInv, TypeOK, Call
    <2>5. TypeOK'
        <3>1. op[c] \in Call /\ op \in [Client -> Call]
            BY DEF IInv, TypeOK
        <3>2. [op[c] EXCEPT !.pc = "load", !.sid = index.sid] \in Call
            BY <2>1, <3>1 DEF Call
        <3>3. op' = [op EXCEPT ![c] = [op[c] EXCEPT !.pc = "load", !.sid = index.sid]]
            BY <1>4, <3>1
        <3>4. op' \in [Client -> Call]
            BY <3>1, <3>2, <3>3
        <3> QED BY <1>1, <3>4 DEF IInv, TypeOK, redis
    <2>6. RedisInv' /\ Settled
        BY <1>1, QuietKeys DEF IInv
    <2>7. \A d \in Client : Pending(d)' => d # c /\ Pending(d)
        BY <2>3, <2>4 DEF Pending
    <2>8. AllUsed' /\ CallShape'
        BY <1>1, <1>2, <2>2, <2>3, <2>4, <2>7 DEF IInv, CallInv, AllUsed, CallShape
    <2>9. NewAlone'
        BY <1>1, <2>3, <2>7 DEF IInv, CallInv, NewAlone
    <2>10. CreateAlone'
        <3>1. ASSUME NEW b \in Client, op[b].pc = "script", op[b].kind = "create",
                     index.sid = op[b].sid
              PROVE  FALSE
            <4>1. op[b].sid \in Id /\ op[b].new = op[b].sid /\ op[b].sid \notin known
                BY <3>1, ScriptValues DEF IInv, CallInv, CallShape, NewAlone, Pending
            <4>2. CASE op[c].kind = "refresh"
                BY <1>2, <1>4, <3>1, <4>1, <4>2
                   DEF index, IInv, CallInv, CreateAlone, RedisInv, IndexExact
            <4>3. CASE op[c].kind # "refresh"
                BY <1>2, <1>4, <3>1, <4>1, <4>3 DEF index, IInv, CallInv, CreateAlone
            <4> QED BY <4>2, <4>3
        <3> QED BY <1>1, <2>3, <2>4, <3>1 DEF IInv, CallInv, CreateAlone
    <2>11. UserFits'
        BY <1>1, <2>3, <2>4 DEF IInv, CallInv, UserFits
    <2>12. SidStays'
        BY <1>1, <2>3, <2>4 DEF index, IInv, CallInv, SidStays
    <2>13. VerifyFits'
        <3>1. op[c].kind = "verify" /\ Unchanged(index.sid, g) => op[c].was
            BY <1>1, <1>2, <1>4 DEF index, IInv, CallInv, VerifyFits, Unchanged, Valid
        <3> QED BY <1>1, <2>3, <2>4, <3>1 DEF IInv, CallInv, VerifyFits, Valid, Unchanged
    <2>14. VerifySound'
        BY <2>3, <2>4 DEF IInv, CallInv, VerifySound
    <2>15. RevokeKills'
        BY <1>1, <2>3, <2>4 DEF IInv, RevokeKills, Valid
    <2>16. RotatedDead' /\ RefreshOnce'
        BY <1>1, <2>6, SettledRotated DEF IInv
    <2> QED BY <2>5, <2>6, <2>8, <2>9, <2>10, <2>11, <2>12, <2>13, <2>14, <2>15, <2>16
            DEF IInv, CallInv
<1> QED BY <1>3, <1>4 DEF Lookup

\* Load compares the pair of the session: a Verify ends here, a Refresh draws
\* its new pair.
LEMMA LoadIInv ==
    ASSUME IInv, NEW c \in Client, Load(c)
    PROVE  IInv' /\ Settled
<1> DEFINE s == op[c].sid
           g == op[c].arg
<1>1. /\ op[c].pc = "load" /\ session' = session /\ access' = access
      /\ UNCHANGED <<opt, now, redis, known, rotated>>
    BY DEF Load, redis
<1>2. /\ s \in Id /\ g \in known /\ g \in Id
      /\ op[c].kind \in {"verify", "refresh", "revoke"}
    BY <1>1 DEF IInv, CallInv, AllUsed, CallShape, TypeOK
<1>3. CASE ~Unchanged(s, g) /\ Finish(c, "missing") /\ UNCHANGED used
    <2>1. op[c].kind = "revoke" => ~Valid(g)
        BY <1>1, <1>3 DEF IInv, CallInv, SidStays, Valid, Unchanged
    <2> QED BY <1>1, <1>3, <2>1, FinishIInv
<1>4. CASE Unchanged(s, g) /\ op[c].kind = "verify" /\ Finish(c, "ok") /\ UNCHANGED used
    <2>1. op[c].was
        BY <1>1, <1>4 DEF IInv, CallInv, VerifyFits
    <2> QED BY <1>1, <1>4, <2>1, FinishIInv
<1>5. ASSUME Unchanged(s, g), NEW new \in Id \cup {None},
             \/ op' = [op EXCEPT ![c].pc = "script", ![c].user = session[s].user, ![c].new = new]
             \/ new = op[c].new
                /\ op' = [op EXCEPT ![c].pc = "script", ![c].user = session[s].user],
             \/ op[c].kind = "revoke" /\ new = None /\ UNCHANGED used
             \/ op[c].kind = "refresh" /\ new \in Id \ used /\ used' = used \cup {new}
      PROVE  IInv' /\ Settled
    <2>1. session[s] # None /\ session[s].user \in User
        BY <1>2, <1>5 DEF Unchanged, IInv, TypeOK, SessionHash
    <2>2. \A d \in Client : d # c => op'[d] = op[d]
        BY <1>5 DEF IInv, TypeOK
    <2>3. /\ op'[c].pc = "script" /\ op'[c].sid = s /\ op'[c].kind = op[c].kind
          /\ op'[c].arg = g /\ op'[c].res = op[c].res /\ op'[c].was = op[c].was
          /\ op'[c].user = session[s].user /\ op'[c].new = new
        <3>1. \/ op'[c] = [op[c] EXCEPT !.pc = "script", !.user = session[s].user, !.new = new]
              \/ new = op[c].new
                 /\ op'[c] = [op[c] EXCEPT !.pc = "script", !.user = session[s].user]
            BY <1>5 DEF IInv, TypeOK
        <3> QED BY <3>1 DEF IInv, TypeOK, Call
    <2>4. used \subseteq used' /\ used' \subseteq Id
        BY <1>5 DEF IInv, TypeOK
    <2>5. TypeOK'
        <3>1. op' \in [Client -> Call]
            BY <1>5, <2>1 DEF IInv, TypeOK, Call
        <3> QED BY <1>1, <2>4, <3>1 DEF IInv, TypeOK, redis
    <2>6. RedisInv' /\ Settled
        BY <1>1, QuietKeys DEF IInv
    <2>7. \A d \in Client : Pending(d)' =>
              \/ d # c /\ Pending(d)
              \/ d = c /\ op[c].kind = "refresh" /\ new \in Id \ used /\ new \in used'
        BY <1>5, <2>2, <2>3 DEF Pending
    <2>8. AllUsed'
        BY <1>1, <2>2, <2>3, <2>4, <2>7 DEF IInv, CallInv, AllUsed
    <2>9. CallShape'
        BY <1>1, <1>2, <1>5, <2>1, <2>2, <2>3 DEF IInv, CallInv, CallShape
    <2>10. NewAlone'
        BY <1>1, <2>2, <2>3, <2>7 DEF IInv, CallInv, AllUsed, NewAlone
    <2>11. CreateAlone'
        BY <1>1, <1>2, <2>2, <2>3 DEF IInv, CallInv, CreateAlone
    <2>12. UserFits'
        BY <1>1, <2>2, <2>3 DEF IInv, CallInv, UserFits
    <2>13. SidStays'
        BY <1>1, <2>2, <2>3 DEF IInv, CallInv, SidStays
    <2>14. VerifyFits' /\ VerifySound'
        BY <1>1, <1>5, <2>2, <2>3
           DEF IInv, CallInv, VerifyFits, VerifySound, Valid, Unchanged
    <2>15. RevokeKills'
        BY <1>1, <2>2, <2>3 DEF IInv, RevokeKills, Valid
    <2>16. RotatedDead' /\ RefreshOnce'
        BY <1>1, <2>6, SettledRotated DEF IInv
    <2> QED BY <2>5, <2>6, <2>8, <2>9, <2>10, <2>11, <2>12, <2>13, <2>14, <2>15, <2>16
            DEF IInv, CallInv
<1>6. CASE Unchanged(s, g) /\ op[c].kind = "revoke" /\ UNCHANGED used
           /\ op' = [op EXCEPT ![c].pc = "script", ![c].user = session[s].user]
    <2>1. op[c].new = None
        BY <1>6 DEF IInv, CallInv, CallShape
    <2> QED BY <1>5, <1>6, <2>1
<1>7. CASE /\ Unchanged(s, g) /\ op[c].kind = "refresh"
           /\ \E new \in Id \ used :
                  /\ op' = [op EXCEPT ![c].pc = "script", ![c].user = session[s].user,
                                      ![c].new = new]
                  /\ used' = used \cup {new}
    BY <1>5, <1>7
<1> QED BY <1>3, <1>4, <1>6, <1>7 DEF Load

\* A script that runs keeps all but what its result says.
LEMMA ScriptIInv ==
    ASSUME IInv, NEW c \in Client, Execute(c), ScriptEnds(c), rotated' \subseteq Id \X Id
    PROVE  TypeOK' /\ RedisInv' /\ CallInv' /\ Settled
<1>1. op[c].pc = "script"
    BY DEF Execute
<1>2. Effect(c)
    BY ExecuteEffect DEF IInv, CallInv
<1>3. TypeOK'
    <2>1. known' \subseteq Id
        BY <1>1, ScriptValues DEF ScriptEnds, IInv, CallInv, TypeOK
    <2>2. /\ opt' \in Options /\ now' \in Nat /\ used' \subseteq Id
          /\ op' \in [Client -> Call]
        BY DEF ScriptEnds, IInv, TypeOK
    <2> QED BY <2>1, <2>2, ExecuteType DEF IInv, CallInv, TypeOK
<1>4. RedisInv'
    BY ExecuteRedis DEF ScriptEnds, IInv
<1>5. CallInv' /\ Settled
    BY <1>1, <1>2, <1>3, ScriptCallInv, EffectSettled DEF IInv
<1> QED BY <1>3, <1>4, <1>5

\* The reply of a Refresh that succeeds: its old pair is the pair of no session.
LEMMA RefreshedDead ==
    ASSUME IInv, NEW c \in Client, Execute(c), op[c].kind = "refresh",
           Unchanged(op[c].sid, op[c].arg), NEW s \in Id, session'[s] # None
    PROVE  session'[s].pair # op[c].arg
<1> DEFINE u == op[c].user
           own == op[c].sid
           g == op[c].arg
           new == op[c].new
<1>1. own \in Id /\ u \in User /\ new \in Id /\ new \notin known /\ g \in known
    BY ScriptValues DEF Execute, IInv, CallInv, CallShape, NewAlone, Pending
<1>2. TypeOK /\ Put(u, own, new, {}, {g})
    BY DEF Execute, IInv, RefreshScript
<1> HIDE DEF u, own, new, g
<1>3. /\ \A t \in Id : t # own => session'[t] \in {session[t], None}
      /\ session'[own] = [user |-> u, pair |-> new, exp |-> now + RTtl]
    BY <1>1, <1>2, PutEffect
<1> USE DEF u, own, new, g
<1>4. CASE s = own
    BY <1>1, <1>3, <1>4
<1>5. CASE s # own
    BY <1>1, <1>3, <1>5, OnePair DEF Unchanged, IInv, RedisInv
<1> QED BY <1>4, <1>5

\* The reply to a script arrives.
LEMMA ReplyIInv ==
    ASSUME IInv, NEW c \in Client, Reply(c)
    PROVE  IInv' /\ Settled
<1> DEFINE g == op[c].arg
           ok == op[c].kind = "create" \/ Unchanged(op[c].sid, g)
           res == IF ok THEN "ok" ELSE "missing"
<1>1. /\ Execute(c) /\ Finish(c, res) /\ op[c].pc = "script"
      /\ known' = IF ok /\ op[c].new # None THEN known \cup {op[c].new} ELSE known
      /\ rotated' = IF ok /\ op[c].kind = "refresh"
                    THEN rotated \cup {<<g, op[c].new>>} ELSE rotated
      /\ UNCHANGED <<opt, now, used>>
    BY DEF Reply, Execute
<1>2. /\ op[c].kind \in {"create", "refresh", "revoke"}
      /\ op[c].sid \in Id /\ op[c].user \in User
      /\ op[c].kind = "revoke" => op[c].new = None
      /\ op[c].kind \in {"refresh", "revoke"} => g \in known /\ g \in Id
      /\ Pending(c) => op[c].new \in Id
    BY <1>1, ScriptValues DEF IInv, CallInv, CallShape, TypeOK
<1> HIDE DEF ok
<1>3. /\ op' \in [Client -> Call]
      /\ \A d \in Client : d # c => op'[d] = op[d]
      /\ op'[c].pc = "idle" /\ op'[c].res = res
      /\ \A x \in {"kind", "arg", "sid", "user", "new", "was"} : op'[c][x] = op[c][x]
    <2>1. res \in {"none", "ok", "missing", "error"}
        OBVIOUS
    <2> QED BY <1>1, <2>1, FinishCall DEF IInv
<1>4. ScriptEnds(c)
    <2>1. known' = known \/ (known' = known \cup {op[c].new} /\ Pending(c))
        BY <1>1, <1>2 DEF Pending
    <2> QED BY <1>1, <1>3, <2>1 DEF ScriptEnds
<1>5. rotated' \subseteq Id \X Id
    BY <1>1, <1>2 DEF IInv, TypeOK, Pending
<1>6. TypeOK' /\ RedisInv' /\ CallInv' /\ Settled
    BY <1>1, <1>4, <1>5, ScriptIInv
<1>7. RevokeKills'
    <2> SUFFICES ASSUME NEW d \in Client, (op[d].kind = "revoke" /\ op[d].res \in {"ok", "missing"})'
                 PROVE  ~Valid(op[d].arg)'
        BY DEF RevokeKills
    <2>1. CASE d # c
        BY <1>3, <1>6, <2>1, SettledRevoke DEF IInv
    <2>2. CASE d = c /\ ok
        <3>1. op[c].kind = "revoke" /\ Unchanged(op[c].sid, g)
            BY <1>3, <2>2 DEF ok
        <3>2. access'[g] = None
            BY <1>1, <1>2, <3>1 DEF Execute, RevokeScript, IInv, TypeOK
        <3> QED BY <1>3, <2>2, <3>2 DEF Valid
    <2>3. CASE d = c /\ ~ok
        <3>1. op[c].kind = "revoke" /\ ~Unchanged(op[c].sid, g)
            BY <1>3, <2>3 DEF ok
        <3>2. ~Valid(g)
            BY <1>1, <3>1 DEF IInv, CallInv, SidStays, Valid, Unchanged
        <3>3. op'[c].arg = g /\ g \in known
            BY <1>2, <1>3, <3>1
        <3>4. ~(access'[g] # None /\ session'[access'[g].sid] # None
                /\ session'[access'[g].sid].pair = g)
            BY <1>6, <3>2, <3>3 DEF IInv, Settled, Valid, Unchanged, TypeOK, IndexKey
        <3> QED BY <2>3, <3>3, <3>4 DEF Valid
    <2> QED BY <2>1, <2>2, <2>3
<1>8. CASE rotated' = rotated
    <2>1. RotatedDead' /\ RefreshOnce'
        BY <1>4, <1>6, <1>8, SettledRotated DEF IInv, ScriptEnds
    <2> QED BY <1>6, <1>7, <2>1 DEF IInv
<1>9. CASE ok /\ op[c].kind = "refresh" /\ rotated' = rotated \cup {<<g, op[c].new>>}
    <2>1. Unchanged(op[c].sid, g) /\ g \in known /\ known \subseteq known'
        BY <1>1, <1>2, <1>9 DEF ok
    <2>2. \A r \in rotated : r[1] # g
        BY <1>2, <2>1 DEF IInv, RotatedDead, Unchanged
    <2>3. RefreshOnce'
        BY <1>9, <2>2 DEF IInv, RefreshOnce
    <2>4. ASSUME NEW r \in rotated, NEW s \in Id, session'[s] # None
          PROVE  session'[s].pair # r[1]
        BY <1>6, <2>4 DEF IInv, RotatedDead, Settled, Unchanged
    <2>5. \A s \in Id : session'[s] # None => session'[s].pair # g
        BY <1>1, <1>9, <2>1, RefreshedDead
    <2>6. RotatedDead'
        BY <1>9, <2>1, <2>4, <2>5 DEF IInv, RotatedDead
    <2> QED BY <1>6, <1>7, <2>3, <2>6 DEF IInv
<1> QED BY <1>1, <1>8, <1>9

\* The reply is lost, and the script is sent again or the call fails.
LEMMA ReplyLostIInv ==
    ASSUME IInv, NEW c \in Client, ReplyLost(c)
    PROVE  IInv' /\ Settled
<1>1. /\ Execute(c) /\ op[c].pc = "script"
      /\ UNCHANGED <<opt, now, used, known, rotated>>
    BY DEF ReplyLost, Execute
<1>2. /\ op' \in [Client -> Call]
      /\ \A d \in Client : d # c => op'[d] = op[d]
      /\ op'[c].pc \in {"idle", "script"}
      /\ op'[c].res \in {op[c].res, "error"}
      /\ \A x \in {"kind", "arg", "sid", "user", "new"} : op'[c][x] = op[c][x]
    <2>1. CASE op[c].tries > 0 /\ op' = [op EXCEPT ![c].tries = @ - 1]
        <3>1. op[c] \in Call /\ op[c].tries - 1 \in Nat
            BY <2>1 DEF IInv, TypeOK, Call
        <3>2. op' = [op EXCEPT ![c] = [op[c] EXCEPT !.tries = op[c].tries - 1]]
            BY <2>1 DEF IInv, TypeOK
        <3>3. op'[c] = [op[c] EXCEPT !.tries = op[c].tries - 1]
              /\ \A d \in Client : d # c => op'[d] = op[d]
            BY <3>2 DEF IInv, TypeOK
        <3>4. op'[c] \in Call
            BY <3>1, <3>3 DEF Call
        <3>5. op' \in [Client -> Call]
            BY <3>2, <3>3, <3>4 DEF IInv, TypeOK
        <3>6. op'[c].pc = op[c].pc /\ op'[c].res = op[c].res
              /\ \A x \in {"kind", "arg", "sid", "user", "new"} : op'[c][x] = op[c][x]
            BY <3>1, <3>3 DEF Call
        <3> QED BY <1>1, <3>3, <3>5, <3>6
    <2>2. CASE Finish(c, "error")
        BY <2>2, FinishCall DEF IInv
    <2> QED BY <2>1, <2>2 DEF ReplyLost
<1>3. ScriptEnds(c)
    BY <1>1, <1>2 DEF ScriptEnds
<1>4. TypeOK' /\ RedisInv' /\ CallInv' /\ Settled
    BY <1>1, <1>3, ScriptIInv DEF IInv, TypeOK
<1>5. RevokeKills'
    <2>1. \A d \in Client : (op[d].kind = "revoke" /\ op[d].res \in {"ok", "missing"})'
              => op'[d].kind = op[d].kind /\ op'[d].arg = op[d].arg /\ op'[d].res = op[d].res
        BY <1>2
    <2> QED BY <1>4, <2>1, SettledRevoke DEF IInv, RevokeKills
<1>6. RotatedDead' /\ RefreshOnce'
    BY <1>1, <1>4, SettledRotated DEF IInv
<1> QED BY <1>4, <1>5, <1>6 DEF IInv

\* A script that never reaches Redis ends its call.
LEMMA RequestLostIInv ==
    ASSUME IInv, NEW c \in Client, RequestLost(c)
    PROVE  IInv' /\ Settled
<1>1. op[c].pc = "script" /\ op[c].kind # "verify"
    BY DEF RequestLost, IInv, CallInv, CallShape
<1> QED BY <1>1, FinishIInv DEF RequestLost

\* Time passes.
LEMMA TickIInv ==
    ASSUME IInv, Tick
    PROVE  IInv' /\ Settled
<1>1. /\ UNCHANGED <<opt, used, op, known, rotated>>
      /\ \A s \in Id : session'[s] \in {session[s], None}
      /\ \A g \in Id : access'[g] \in {access[g], None}
      /\ RedisInv'
    BY TickRedis DEF IInv, Tick
<1>2. TypeOK'
    BY <1>1, TickRedis, Times DEF IInv, Tick, TypeOK
<1>3. Settled
    BY <1>1 DEF Settled, Unchanged, IInv, TypeOK
<1>4. AllUsed' /\ CallShape'
    BY <1>1 DEF IInv, CallInv, AllUsed, CallShape, Pending
<1>5. NewAlone' /\ CreateAlone'
    <2>1. \A c \in Client : op[c].pc = "script" => op[c].sid \in Id
        BY ScriptValues DEF IInv, CallInv
    <2> QED BY <1>1, <2>1 DEF IInv, CallInv, NewAlone, CreateAlone, Pending
<1>6. UserFits' /\ SidStays' /\ VerifySound'
    <2>1. \A c \in Client : /\ op[c].pc = "script" => op[c].sid \in Id
                            /\ op[c].kind = "revoke" => op[c].arg \in Id
        BY ScriptValues DEF IInv, CallInv, CallShape, TypeOK
    <2> QED BY <1>1, <2>1 DEF IInv, CallInv, UserFits, SidStays, VerifySound
<1>7. VerifyFits'
    <2> SUFFICES ASSUME NEW c \in Client, op[c].kind = "verify"
                 PROVE  /\ (op[c].pc = "lookup" /\ Valid(op[c].arg) => op[c].was)'
                        /\ (op[c].pc = "load" /\ Unchanged(op[c].sid, op[c].arg) => op[c].was)'
        BY <1>1 DEF VerifyFits
    <2>1. op'[c] = op[c] /\ op[c].arg \in known
        BY <1>1 DEF IInv, CallInv, CallShape
    <2>2. Valid(op[c].arg)' => Valid(op[c].arg)
        <3>1. op[c].arg \in Id /\ access[op[c].arg] # None => access[op[c].arg].sid \in Id
            BY DEF IInv, TypeOK, IndexKey
        <3> QED BY <1>1, <2>1, <3>1 DEF Valid, IInv, TypeOK
    <2>3. op[c].pc = "load" => op[c].sid \in Id
        BY DEF IInv, CallInv, AllUsed, TypeOK
    <2> QED BY <1>1, <2>1, <2>2, <2>3 DEF IInv, CallInv, VerifyFits, Unchanged
<1>8. RevokeKills'
    BY <1>1, <1>2, <1>3, SettledRevoke DEF IInv, RevokeKills
<1>9. RotatedDead' /\ RefreshOnce'
    BY <1>1, <1>3, SettledRotated DEF IInv
<1> QED BY <1>1, <1>2, <1>4, <1>5, <1>6, <1>7, <1>8, <1>9, <1>3 DEF IInv, CallInv

\* Every step keeps the invariant and writes no token that was returned.
LEMMA NextIInv ==
    ASSUME IInv, [Next]_vars
    PROVE  IInv' /\ Settled
<1>1. CASE UNCHANGED vars
    <2>1. session' = session /\ access' = access
        BY <1>1 DEF vars, redis
    <2>2. Settled
        BY <2>1 DEF Settled, Unchanged
    <2>3. TypeOK' /\ RedisInv'
        BY <1>1 DEF vars, redis, IInv, TypeOK, RedisInv, UniqueKeyExact, IndexExact, SameLife,
                    Unique
    <2>4. AllUsed' /\ CallShape' /\ NewAlone' /\ CreateAlone'
        BY <1>1, <2>1 DEF vars, IInv, CallInv, AllUsed, CallShape, NewAlone, CreateAlone, Pending
    <2>5. UserFits' /\ SidStays' /\ VerifyFits' /\ VerifySound'
        BY <1>1, <2>1 DEF vars, IInv, CallInv, UserFits, SidStays, VerifyFits, VerifySound,
                          Valid, Unchanged
    <2>6. RevokeKills' /\ RotatedDead' /\ RefreshOnce'
        BY <1>1, <2>1 DEF vars, IInv, RevokeKills, RotatedDead, RefreshOnce, Valid
    <2> QED BY <2>2, <2>3, <2>4, <2>5, <2>6 DEF IInv, CallInv
<1>2. CASE Tick
    BY <1>2, TickIInv
<1>3. ASSUME NEW c \in Client, NEW u \in User, CallCreate(c, u)
      PROVE  IInv' /\ Settled
    BY <1>3, CallCreateIInv
<1>4. ASSUME NEW c \in Client, NEW kind \in {"verify", "refresh", "revoke"}, NEW g \in Id,
             CallToken(c, kind, g)
      PROVE  IInv' /\ Settled
    BY <1>4, CallTokenIInv
<1>5. ASSUME NEW c \in Client, Lookup(c) \/ Load(c) \/ Reply(c) \/ ReplyLost(c) \/ RequestLost(c)
      PROVE  IInv' /\ Settled
    BY <1>5, LookupIInv, LoadIInv, ReplyIInv, ReplyLostIInv, RequestLostIInv
<1> QED BY <1>1, <1>2, <1>3, <1>4, <1>5 DEF Next

\* The invariant holds in every state.
THEOREM Inductive == Spec => []IInv
<1>1. Init => IInv
    BY InitIInv
<1>2. IInv /\ [Next]_vars => IInv'
    BY NextIInv
<1> QED BY <1>1, <1>2, PTL DEF Spec

\* Session, index keys and unique key always name each other, and a user has
\* one session on a platform, whatever calls overlap and scripts are repeated.
THEOREM SessionsAreExact == Spec => []SessionsExact
<1>1. IInv => SessionsExact
    BY DEF IInv, RedisInv, SessionsExact, OneSessionPerUser, UniqueKeyExact
<1> QED BY <1>1, Inductive, PTL

\* No refresh token is exchanged twice.
THEOREM RefreshIsOnce == Spec => []RefreshOnce
<1>1. IInv => RefreshOnce
    BY DEF IInv
<1> QED BY <1>1, Inductive, PTL

\* Verify, which reads the index and the session at different times, never
\* accepts a token that was invalid when it was called.
THEOREM VerifyIsSound == Spec => []VerifySound
<1>1. IInv => VerifySound
    BY DEF IInv, CallInv
<1> QED BY <1>1, Inductive, PTL

\* A token that was returned and is invalid stays invalid.
THEOREM TheDeadStayDead == Spec => DeadStaysDead
<1>1. IInv /\ IInv' /\ Settled => \A g \in known : ~Valid(g) => ~Valid(g)'
    BY SettledValid DEF IInv
<1>2. IInv /\ IInv' /\ [Next]_vars => [\A g \in known : ~Valid(g) => ~Valid(g)']_vars
    BY <1>1, NextIInv
<1> QED BY <1>2, Inductive, PTL DEF DeadStaysDead, Spec

\* A Revoke whose token was replaced before its script ran does nothing.
LEMMA StaleRevoke ==
    ASSUME IInv, [Next]_vars, NEW c \in Client, NEW s \in Id,
           op[c].kind = "revoke", op[c].pc = "script", op'[c] # op[c],
           session[s] # None, session[s].pair # op[c].arg
    PROVE  session'[s] = session[s] /\ unique'[session[s].user] = unique[session[s].user]
<1>1. session[s].user \in User
    BY DEF IInv, TypeOK, SessionHash
<1>2. CASE Execute(c)
    <2>1. RevokeScript(op[c].user, op[c].sid, op[c].arg)
        BY <1>2 DEF Execute
    <2>2. CASE UNCHANGED redis
        BY <2>2 DEF redis
    <2>3. CASE /\ Unchanged(op[c].sid, op[c].arg)
               /\ session' = [session EXCEPT ![op[c].sid] = None]
               /\ unique' = IF Unique /\ unique[op[c].user] # None
                               /\ unique[op[c].user].sid = op[c].sid
                            THEN [unique EXCEPT ![op[c].user] = None]
                            ELSE unique
        <3>1. s # op[c].sid
            BY <2>3 DEF Unchanged
        <3>2. Unique => unique[session[s].user].sid = s
            BY DEF IInv, RedisInv, UniqueKeyExact
        <3> QED BY <1>1, <2>3, <3>1, <3>2 DEF IInv, TypeOK
    <2> QED BY <2>1, <2>2, <2>3 DEF RevokeScript
<1>3. CASE UNCHANGED redis
    BY <1>3 DEF redis
<1>4. Execute(c) \/ UNCHANGED redis
    <2>1. ~Tick /\ ~UNCHANGED vars
        BY DEF Tick, vars
    <2>2. ASSUME NEW d \in Client, d # c, Reply(d) \/ ReplyLost(d) PROVE FALSE
        <3>1. op'[c] = op[c]
            BY <2>2 DEF Reply, ReplyLost, Finish, IInv, TypeOK
        <3> QED BY <3>1
    <2> QED BY <2>1, <2>2 DEF Next, CallCreate, CallToken, Lookup, Load, RequestLost,
                              Reply, ReplyLost
<1> QED BY <1>2, <1>3, <1>4

\* When Revoke returns nil its token is invalid and remains so, and a session
\* that has another token by then, with its unique key, is left alone.
THEOREM RevokeIsExact == Spec => RevokeExact
<1>1. IInv => RevokeKills
    BY DEF IInv
<1>2. IInv /\ [Next]_vars =>
          [\A c \in Client, s \in Id :
              op[c].kind = "revoke" /\ op[c].pc = "script" /\ op[c]' # op[c]
              /\ session[s] # None /\ session[s].pair # op[c].arg
                 => /\ session'[s] = session[s]
                    /\ unique'[session[s].user] = unique[session[s].user]]_vars
    BY StaleRevoke
<1> QED BY <1>1, <1>2, Inductive, PTL DEF RevokeExact, StaleRevokeHarmless, Spec
=============================================================================
