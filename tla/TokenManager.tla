---------------------------- MODULE TokenManager ----------------------------
(***************************************************************************)
(* pkg/token: sessions kept in Redis.  A session is a hash that names its  *)
(* current access and refresh token; each token has an index key that      *)
(* leads to the session, and with WithUnique a key per user and platform   *)
(* leads to the one session they may have.  Create, Refresh and Revoke     *)
(* write through Lua scripts, which Redis runs atomically; what a caller   *)
(* read before its script may be stale when the script runs.               *)
(*                                                                         *)
(* The access token and the refresh token of a pair are generated,         *)
(* written, compared and deleted together, so one identifier stands for    *)
(* the pair; a session bears the identifier of its first pair.  A user     *)
(* stands for a (user_id, platform).  The random generators never repeat.  *)
(***************************************************************************)
EXTENDS Naturals, FiniteSets

CONSTANTS Client,   \* concurrent calls
          User,     \* (user_id, platform)
          Id,       \* random identifiers
          Options,  \* the options a manager may have been made with
          Retries,  \* how often go-redis repeats a command without a reply
          None

ASSUME OptionAssumption ==
    /\ Options \subseteq [unique : BOOLEAN, accessTtl : Nat \ {0}, refreshTtl : Nat \ {0}]
    /\ Retries \in Nat
ASSUME NoneAssumption == None \notin [sid : Id, exp : Nat]
                         /\ None \notin [user : User, pair : Id, exp : Nat]
                         /\ None \notin User /\ None \notin Id

VARIABLES opt,      \* the options, fixed by NewTokenManager
          now,      \* Redis's clock
          session,  \* session[s]: the hash, or None
          access,   \* access[g]: the index key of g's access token, or None
          refresh,  \* refresh[g]: the index key of g's refresh token
          unique,   \* unique[u]: the unique key
          used,     \* identifiers that have been generated
          op,       \* op[c]: the call of c and its local variables
          known,    \* pairs that a call has returned
          rotated   \* <<old, new>> of every Refresh that returned new

redis == <<session, access, refresh, unique>>
vars == <<opt, now, redis, used, op, known, rotated>>

\* WithUnique; the lifetimes of an access token, and of a refresh token and
\* its session.
Unique == opt.unique
ATtl == opt.accessTtl
RTtl == opt.refreshTtl

Idle == [kind |-> "none", pc |-> "idle", arg |-> None, sid |-> None, user |-> None,
         new |-> None, tries |-> 0, was |-> FALSE, res |-> "none"]

Init == /\ opt \in Options
        /\ now = 0
        /\ session = [s \in Id |-> None]
        /\ access = [g \in Id |-> None]
        /\ refresh = [g \in Id |-> None]
        /\ unique = [u \in User |-> None]
        /\ used = {}
        /\ op = [c \in Client |-> Idle]
        /\ known = {}
        /\ rotated = {}

\* What a token is good for: its index leads to a session that names it.
Valid(g) == /\ access[g] # None
            /\ session[access[g].sid] # None
            /\ session[access[g].sid].pair = g

\* Keys of f deleted, and one written.
Write(f, gone, x, value) ==
    [y \in DOMAIN f |-> IF y = x THEN value ELSE IF y \in gone THEN None ELSE f[y]]

\* Mutant of Put: the unique key keeps the lifetime it had.
PutKeepsUnique(u, s, g, goneSessions, gonePairs) ==
    /\ session' = Write(session, goneSessions, s,
                        [user |-> u, pair |-> g, exp |-> now + RTtl])
    /\ access' = Write(access, gonePairs, g, [sid |-> s, exp |-> now + ATtl])
    /\ refresh' = Write(refresh, gonePairs, g, [sid |-> s, exp |-> now + RTtl])
    /\ unique' = IF Unique /\ (unique[u] = None \/ unique[u].sid # s)
                 THEN [unique EXCEPT ![u] = [sid |-> s, exp |-> now + RTtl]]
                 ELSE unique

\* HSET with PEXPIRE, and the SETs with PX, that end Create and Refresh.
Put(u, s, g, goneSessions, gonePairs) ==
    /\ session' = Write(session, goneSessions, s,
                        [user |-> u, pair |-> g, exp |-> now + RTtl])
    /\ access' = Write(access, gonePairs, g, [sid |-> s, exp |-> now + ATtl])
    /\ refresh' = Write(refresh, gonePairs, g, [sid |-> s, exp |-> now + RTtl])
    /\ unique' = IF Unique
                 THEN [unique EXCEPT ![u] = [sid |-> s, exp |-> now + RTtl]]
                 ELSE unique

\* luaCreateSession
CreateScript(u, s) ==
    LET old == {o \in Id : Unique /\ unique[u] # None /\ unique[u].sid = o /\ o # s}
        oldPairs == {session[o].pair : o \in {x \in old : session[x] # None}}
    IN Put(u, s, s, old, oldPairs)

\* Mutant of Unchanged: the token of the session is not compared.
SessionExists(s, g) == session[s] # None

\* luaRefreshSession and luaRevokeSession go on only when the session still
\* has the pair that the caller read.
Unchanged(s, g) == session[s] # None /\ session[s].pair = g

\* Mutant of RefreshScript: the old pair stays.
RefreshSamePair(u, s, g, new) ==
    IF Unchanged(s, g) THEN Put(u, s, g, {}, {}) ELSE UNCHANGED redis

RefreshScript(u, s, g, new) ==
    IF Unchanged(s, g) THEN Put(u, s, new, {}, {g}) ELSE UNCHANGED redis

\* Mutant of RevokeScript: the session goes whatever token it has.
RevokeAnyway(u, s, g) ==
    /\ session' = [session EXCEPT ![s] = None]
    /\ access' = [access EXCEPT ![g] = None]
    /\ refresh' = [refresh EXCEPT ![g] = None]
    /\ unique' = IF Unique THEN [unique EXCEPT ![u] = None] ELSE unique

RevokeScript(u, s, g) ==
    IF Unchanged(s, g)
    THEN /\ session' = [session EXCEPT ![s] = None]
         /\ access' = [access EXCEPT ![g] = None]
         /\ refresh' = [refresh EXCEPT ![g] = None]
         /\ unique' = IF Unique /\ unique[u] # None /\ unique[u].sid = s
                      THEN [unique EXCEPT ![u] = None]
                      ELSE unique
    ELSE UNCHANGED redis
-----------------------------------------------------------------------------
\* A call begins.  CreateRaw draws its identifiers before the script.
CallCreate(c, u) ==
    /\ op[c].pc = "idle"
    /\ \E s \in Id \ used :
          /\ op' = [op EXCEPT ![c] = [Idle EXCEPT !.kind = "create", !.pc = "script",
                        !.sid = s, !.user = u, !.new = s, !.tries = Retries]]
          /\ used' = used \cup {s}
    /\ UNCHANGED <<opt, now, redis, known, rotated>>

\* Verify, Refresh and Revoke are given a token that some call has returned.
CallToken(c, kind, g) ==
    /\ op[c].pc = "idle"
    /\ g \in known
    /\ op' = [op EXCEPT ![c] = [Idle EXCEPT !.kind = kind, !.pc = "lookup",
                    !.arg = g, !.tries = Retries, !.was = Valid(g)]]
    /\ UNCHANGED <<opt, now, redis, used, known, rotated>>

Finish(c, res) == op' = [op EXCEPT ![c].pc = "idle", ![c].res = res]

\* Mutant of Lookup: every call looks in the index of the refresh tokens.
LookupRefresh(c) ==
    LET index == refresh[op[c].arg]
    IN /\ op[c].pc = "lookup"
       /\ \/ /\ index = None
             /\ Finish(c, "missing")
          \/ /\ index # None
             /\ op' = [op EXCEPT ![c].pc = "load", ![c].sid = index.sid]
       /\ UNCHANGED <<opt, now, redis, used, known, rotated>>

\* loadSessionId: GET of the index key of the access or the refresh token.
Lookup(c) ==
    LET g == op[c].arg
        index == IF op[c].kind = "refresh" THEN refresh[g] ELSE access[g]
    IN /\ op[c].pc = "lookup"
       /\ \/ /\ index = None
             /\ Finish(c, "missing")
          \/ /\ index # None
             /\ op' = [op EXCEPT ![c].pc = "load", ![c].sid = index.sid]
       /\ UNCHANGED <<opt, now, redis, used, known, rotated>>

\* loadSession: HGETALL, and the comparison with the caller's token.
Load(c) ==
    LET s == op[c].sid
    IN /\ op[c].pc = "load"
       /\ \/ /\ ~Unchanged(s, op[c].arg)
             /\ Finish(c, "missing")
             /\ UNCHANGED used
          \/ /\ Unchanged(s, op[c].arg)
             /\ op[c].kind = "verify"
             /\ Finish(c, "ok")
             /\ UNCHANGED used
          \/ /\ Unchanged(s, op[c].arg)
             /\ op[c].kind = "revoke"
             /\ op' = [op EXCEPT ![c].pc = "script", ![c].user = session[s].user]
             /\ UNCHANGED used
          \/ /\ Unchanged(s, op[c].arg)
             /\ op[c].kind = "refresh"
             /\ \E new \in Id \ used :
                  /\ op' = [op EXCEPT ![c].pc = "script", ![c].user = session[s].user,
                                      ![c].new = new]
                  /\ used' = used \cup {new}
       /\ UNCHANGED <<opt, now, redis, known, rotated>>

\* A script runs.
Execute(c) ==
    /\ op[c].pc = "script"
    /\ \/ op[c].kind = "create" /\ CreateScript(op[c].user, op[c].sid)
       \/ op[c].kind = "refresh"
             /\ RefreshScript(op[c].user, op[c].sid, op[c].arg, op[c].new)
       \/ op[c].kind = "revoke" /\ RevokeScript(op[c].user, op[c].sid, op[c].arg)

\* Its reply arrives and the call returns.
Reply(c) ==
    /\ Execute(c)
    /\ LET ok == op[c].kind = "create" \/ Unchanged(op[c].sid, op[c].arg)
       IN /\ Finish(c, IF ok THEN "ok" ELSE "missing")
          /\ known' = IF ok /\ op[c].new # None THEN known \cup {op[c].new} ELSE known
          /\ rotated' = IF ok /\ op[c].kind = "refresh"
                        THEN rotated \cup {<<op[c].arg, op[c].new>>} ELSE rotated
    /\ UNCHANGED <<opt, now, used>>

\* Its reply is lost: go-redis sends the script again, or the call fails.
ReplyLost(c) ==
    /\ Execute(c)
    /\ \/ /\ op[c].tries > 0
          /\ op' = [op EXCEPT ![c].tries = @ - 1]
       \/ Finish(c, "error")
    /\ UNCHANGED <<opt, now, used, known, rotated>>

\* The script never reaches Redis.
RequestLost(c) ==
    /\ op[c].pc = "script"
    /\ Finish(c, "error")
    /\ UNCHANGED <<opt, now, redis, used, known, rotated>>

\* Time passes and Redis removes the keys that have expired.
Alive(f) == [x \in DOMAIN f |-> IF f[x] # None /\ f[x].exp <= now + 1 THEN None ELSE f[x]]

Tick == /\ now' = now + 1
        /\ session' = Alive(session)
        /\ access' = Alive(access)
        /\ refresh' = Alive(refresh)
        /\ unique' = Alive(unique)
        /\ UNCHANGED <<opt, used, op, known, rotated>>

Next == \/ Tick
        \/ \E c \in Client :
              \/ \E u \in User : CallCreate(c, u)
              \/ \E kind \in {"verify", "refresh", "revoke"}, g \in Id : CallToken(c, kind, g)
              \/ Lookup(c) \/ Load(c)
              \/ Reply(c) \/ ReplyLost(c) \/ RequestLost(c)

Spec == Init /\ [][Next]_vars
-----------------------------------------------------------------------------
IndexKey == [sid : Id, exp : Nat]
SessionHash == [user : User, pair : Id, exp : Nat]
Call == [kind : {"none", "create", "verify", "refresh", "revoke"},
         pc : {"idle", "lookup", "load", "script"},
         arg : Id \cup {None}, sid : Id \cup {None}, user : User \cup {None},
         new : Id \cup {None}, tries : Nat, was : BOOLEAN,
         res : {"none", "ok", "missing", "error"}]

TypeOK == /\ opt \in Options
          /\ now \in Nat
          /\ session \in [Id -> SessionHash \cup {None}]
          /\ access \in [Id -> IndexKey \cup {None}]
          /\ refresh \in [Id -> IndexKey \cup {None}]
          /\ unique \in [User -> IndexKey \cup {None}]
          /\ used \subseteq Id
          /\ op \in [Client -> Call]
          /\ known \subseteq Id
          /\ rotated \subseteq Id \X Id

\* "同 user_id + platform 仅保留一个有效 Token" (options.go:60): with the unique
\* option a user has at most one session on a platform, however many logins,
\* refreshes, revocations and repeated scripts overlap.
OneSessionPerUser ==
    Unique => \A s, t \in Id :
        session[s] # None /\ session[t] # None /\ session[s].user = session[t].user
            => s = t

\* The unique key names the session of its user, as long as that lives.
UniqueKeyExact ==
    Unique => \A s \in Id : session[s] # None =>
        /\ unique[session[s].user] # None
        /\ unique[session[s].user].sid = s
        /\ unique[session[s].user].exp = session[s].exp

\* No index outlives its purpose: a refresh token leads to a live session that
\* names it, and a live session can be refreshed with the pair it names.
\* Nothing of a replaced or rotated pair remains.
IndexExact ==
    /\ \A g \in Id : refresh[g] # None =>
           /\ session[refresh[g].sid] # None
           /\ session[refresh[g].sid].pair = g
    /\ \A s \in Id : session[s] # None =>
           /\ refresh[session[s].pair] # None
           /\ refresh[session[s].pair].sid = s
    /\ \A g \in Id : access[g] # None /\ session[access[g].sid] # None =>
           session[access[g].sid].pair = g

\* All of it: session, indexes and unique key always name each other.
SessionsExact == TypeOK /\ OneSessionPerUser /\ UniqueKeyExact /\ IndexExact

\* A refresh token is exchanged at most once.
RefreshOnce ==
    \A r, q \in rotated : r[1] = q[1] => r = q

\* A token that had stopped being valid when Verify was called is never
\* verified, although Verify reads the index and the session separately.
VerifySound ==
    \A c \in Client : op[c].kind = "verify" /\ op[c].res = "ok" => op[c].was

\* When Revoke returns nil the access token is invalid and remains so.
RevokeKills ==
    \A c \in Client : op[c].kind = "revoke" /\ op[c].res \in {"ok", "missing"}
                        => ~Valid(op[c].arg)

\* A token that was returned and is not valid does not come back to life.
DeadStaysDead ==
    [][\A g \in known : ~Valid(g) => ~Valid(g)']_vars

\* A call of Revoke leaves alone every session that has another access token
\* by now, and the unique key of that session: a Refresh or a new login that
\* came first is not undone (token_test.go:304).
StaleRevokeHarmless ==
    [][\A c \in Client, s \in Id :
          op[c].kind = "revoke" /\ op[c].pc = "script" /\ op[c]' # op[c]
          /\ session[s] # None /\ session[s].pair # op[c].arg
             => /\ session'[s] = session[s]
                /\ unique'[session[s].user] = unique[session[s].user]]_vars

\* Revoke takes away what it was asked to and no more.
RevokeExact == []RevokeKills /\ StaleRevokeHarmless
=============================================================================
